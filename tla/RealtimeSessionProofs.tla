------------------------ MODULE RealtimeSessionProofs ------------------------
(***************************************************************************)
(* What the realtime endpoint guarantees for any number of sessions and    *)
(* any number of permits: its permits and the slots of the engines are     *)
(* conserved, a session has a transcriber exactly while it needs one, and  *)
(* its client gets its events in order and a close code that fits them.    *)
(***************************************************************************)
EXTENDS RealtimeSession, FiniteSetTheorems, SequenceTheorems, TLAPS

\* What an action of one session leaves as it is for another.
SessionStays(q) ==
  /\ pc'[q] = pc[q] /\ session'[q] = session[q] /\ after'[q] = after[q]
  /\ worker'[q] = worker[q]

LEMMA OthersFit ==
  ASSUME SessionInv, NEW s \in Sessions, \A q \in Sessions \ {s} : SessionStays(q)
  PROVE  \A q \in Sessions \ {s} : TranscriberFits(q)'
BY DEF SessionInv, TranscriberMatchesMode, TranscriberFits, SessionStays, Resumes, Is

(***************************************************************************)
(* The bursts of events a handler leaves to be sent, and the ways a session*)
(* changes, have their types.                                              *)
(***************************************************************************)
LEMMA EventBursts ==
  /\ <<>> \in Seq(Events)
  /\ \A x \in Events : <<x>> \in Seq(Events)
  /\ \A x, y \in Events : <<x, y>> \in Seq(Events)
  /\ \A x, y, z, w \in Events : <<x, y, z, w>> \in Seq(Events)
OBVIOUS

LEMMA EventNames ==
  /\ {"session_ready", "interim", "final", "session_completed", "speech_metadata", "chunk",
      "speech_completed", "pong", "ws_pong", "cancelled_event"} \subseteq Events
  /\ ProtocolErrors \subseteq Errors /\ Failures \ {"none"} \subseteq Errors
  /\ Errors \subseteq Events
  /\ \A failure \in Failures : CloseCode(failure) \in CloseCodes
BY DEF Events, Errors, CloseCode, CloseCodes, Failures

\* The types a proof about one session needs.
LEMMA Typed ==
  ASSUME TypeOK
  PROVE  /\ pc \in [Sessions -> Live \cup {"idle", "done"}]
         /\ session \in [Sessions -> SessionState]
         /\ outbox \in [Sessions -> Seq(Events)]
         /\ after \in [Sessions -> {"loop", "working"} \cup CloseCodes]
         /\ token \in [Sessions -> BOOLEAN] /\ expired \in [Sessions -> BOOLEAN]
         /\ client \in [Sessions -> {"reading", "stalled", "gone"}]
         /\ closed \in [Sessions -> CloseCodes \cup {"none"}]
         /\ heard \in [Sessions -> {"nothing", "ready", "audio", "completed", "ended", "disorder"}]
         /\ reported \in [Sessions -> Errors \cup {"none"}]
         /\ worker \in [Sessions -> {"none", "queued", "native", "aborted"} \cup Outcomes]
BY DEF TypeOK

\* Events for the client, and where the task goes when they are sent.
LEMMA Said ==
  ASSUME TypeOK, NEW s \in Sessions, NEW events \in Seq(Events),
         NEW next \in {"loop", "working"} \cup CloseCodes, Say(s, events, next)
  PROVE  /\ pc' \in [Sessions -> Live \cup {"idle", "done"}]
         /\ outbox' \in [Sessions -> Seq(Events)]
         /\ after' \in [Sessions -> {"loop", "working"} \cup CloseCodes]
         /\ pc'[s] = "sending" /\ after'[s] = next
         /\ \A q \in Sessions \ {s} : pc'[q] = pc[q] /\ after'[q] = after[q]
BY Typed DEF Say, Live, InLoop

LEMMA SessionUpdates ==
  ASSUME TypeOK, NEW s \in Sessions
  PROVE  /\ \A v \in BOOLEAN : [session EXCEPT ![s].pending = v] \in [Sessions -> SessionState]
         /\ \A v \in BOOLEAN : [session EXCEPT ![s].completed = v] \in [Sessions -> SessionState]
         /\ \A v \in BOOLEAN : [session EXCEPT ![s].transcriber = v] \in [Sessions -> SessionState]
         /\ \A m \in Modes : [session EXCEPT ![s].mode = m] \in [Sessions -> SessionState]
         /\ \A f \in Failures : [session EXCEPT ![s].failure = f, ![s].pending = FALSE] \in [Sessions -> SessionState]
         /\ \A f \in Failures : [session EXCEPT ![s].transcriber = FALSE, ![s].failure = f] \in [Sessions -> SessionState]
         /\ [session EXCEPT ![s].mode = "stt", ![s].transcriber = TRUE] \in [Sessions -> SessionState]
         /\ [session EXCEPT ![s].transcriber = FALSE, ![s].completed = TRUE] \in [Sessions -> SessionState]
<1>1. session \in [Sessions -> SessionState]
  BY Typed
<1>2. \A v \in BOOLEAN : [session EXCEPT ![s].pending = v] \in [Sessions -> SessionState]
  BY <1>1 DEF SessionState
<1>3. \A v \in BOOLEAN : [session EXCEPT ![s].completed = v] \in [Sessions -> SessionState]
  BY <1>1 DEF SessionState
<1>4. \A v \in BOOLEAN : [session EXCEPT ![s].transcriber = v] \in [Sessions -> SessionState]
  BY <1>1 DEF SessionState
<1>5. \A m \in Modes : [session EXCEPT ![s].mode = m] \in [Sessions -> SessionState]
  BY <1>1 DEF SessionState
<1>6. \A f \in Failures : [session EXCEPT ![s].failure = f, ![s].pending = FALSE] \in [Sessions -> SessionState]
  BY <1>1 DEF SessionState
<1>7. \A f \in Failures : [session EXCEPT ![s].transcriber = FALSE, ![s].failure = f] \in [Sessions -> SessionState]
  BY <1>1 DEF SessionState
<1>8. [session EXCEPT ![s].mode = "stt", ![s].transcriber = TRUE] \in [Sessions -> SessionState]
  BY <1>1 DEF SessionState, Modes
<1>9. [session EXCEPT ![s].transcriber = FALSE, ![s].completed = TRUE] \in [Sessions -> SessionState]
  BY <1>1 DEF SessionState
<1> QED
  BY <1>2, <1>3, <1>4, <1>5, <1>6, <1>7, <1>8, <1>9

-----------------------------------------------------------------------------
(***************************************************************************)
(* The books: the sessions that hold a permit or a slot are counted.       *)
(***************************************************************************)
LEMMA Counted ==
  ASSUME NEW S \in SUBSET Sessions
  PROVE  /\ Cardinality(S) \in Nat
         /\ \A s \in S : Cardinality(S \ {s}) = Cardinality(S) - 1 /\ Cardinality(S) >= 1
         /\ \A s \in Sessions \ S : Cardinality(S \cup {s}) = Cardinality(S) + 1
<1>1. IsFiniteSet(S)
  BY SessionAssumption, FS_Subset
<1>2. Cardinality(S) \in Nat
  BY <1>1, FS_CardinalityType
<1>3. \A s \in S : Cardinality(S \ {s}) = Cardinality(S) - 1 /\ Cardinality(S \ {s}) \in Nat
  BY <1>1, FS_RemoveElement, FS_Subset, FS_CardinalityType
<1>4. \A s \in Sessions \ S : Cardinality(S \cup {s}) = Cardinality(S) + 1
  BY <1>1, FS_AddElement
<1>5. \A s \in S : Cardinality(S) >= 1
  <2> TAKE s \in S
  <2>1. Cardinality(S \ {s}) = Cardinality(S) - 1 /\ Cardinality(S \ {s}) \in Nat
    BY <1>3
  <2> QED
    BY <1>2, <2>1
<1> QED
  BY <1>2, <1>3, <1>4, <1>5

\* The shares of the sessions and of the other callers.
LEMMA Shares ==
  ASSUME TypeOK
  PROVE  /\ InSession \in SUBSET Sessions /\ Transcribing \in SUBSET Sessions
         /\ Synthesizing \in SUBSET Sessions
         /\ MaxConcurrent \in Nat /\ permits \in Int /\ stt \in Int /\ tts \in Int
         /\ others.permits \in Nat /\ others.stt \in Nat /\ others.tts \in Nat
         /\ Cardinality(InSession) \in Nat /\ Cardinality(Transcribing) \in Nat
         /\ Cardinality(Synthesizing) \in Nat
<1>1. /\ InSession \in SUBSET Sessions /\ Transcribing \in SUBSET Sessions
      /\ Synthesizing \in SUBSET Sessions
  BY DEF InSession, Transcribing, Synthesizing
<1> QED
  BY <1>1, Counted, SessionAssumption DEF TypeOK, Shared

\* A step of one session whose books are right.
LEMMA StepKeeps ==
  ASSUME SessionInv, NEW s \in Sessions, TypeOK', SlotsConserved', TranscriberFits(s)',
         \A q \in Sessions \ {s} : SessionStays(q)
  PROVE  SessionInv'
BY OthersFit DEF SessionInv, TranscriberMatchesMode

-----------------------------------------------------------------------------
(***************************************************************************)
(* Steps that take or return neither a permit nor a slot.                  *)
(***************************************************************************)
LEMMA QuietKeeps ==
  ASSUME SessionInv, NEW s \in Sessions, TypeOK', TranscriberFits(s)',
         \A q \in Sessions \ {s} : SessionStays(q),
         pc'[s] \in Live <=> pc[s] \in Live,
         session'[s].transcriber = session[s].transcriber,
         worker'[s] = "native" <=> worker[s] = "native",
         UNCHANGED <<permits, stt, tts, others>>
  PROVE  SessionInv'
<1>1. InSession' = InSession /\ Transcribing' = Transcribing /\ Synthesizing' = Synthesizing
  BY DEF InSession, Transcribing, Synthesizing, SessionStays
<1>2. SlotsConserved'
  BY <1>1 DEF SessionInv, SlotsConserved
<1> QED
  BY <1>2, OthersFit DEF SessionInv, TranscriberMatchesMode

\* What a session that goes on must look like.
Ready(x, w) ==
  /\ x.transcriber <=> x.mode = "stt" /\ ~x.completed
  /\ x.pending => x.transcriber
  /\ x.completed => x.mode # "none"
  /\ w # "none" => x.completed

LEMMA SayKeeps ==
  ASSUME SessionInv, NEW s \in Sessions, pc[s] \in InLoop,
         NEW events \in Seq(Events), NEW next \in {"loop", "working"} \cup CloseCodes,
         Say(s, events, next),
         session' \in [Sessions -> SessionState],
         \A q \in Sessions \ {s} : session'[q] = session[q] /\ worker'[q] = worker[q],
         session'[s].transcriber = session[s].transcriber,
         token' \in [Sessions -> BOOLEAN],
         worker' \in [Sessions -> {"none", "queued", "native", "aborted"} \cup Outcomes],
         worker'[s] = "native" <=> worker[s] = "native",
         UNCHANGED <<stt, loopRest>>,
         next = "loop" => Ready(session'[s], worker'[s]),
         next = "working" => /\ Ready(session'[s], "none")
                             /\ session'[s].mode = "tts" /\ ~session'[s].completed
  PROVE  SessionInv'
<1>1. TypeOK
  BY DEF SessionInv
<1>2. /\ pc' \in [Sessions -> Live \cup {"idle", "done"}]
      /\ outbox' \in [Sessions -> Seq(Events)]
      /\ after' \in [Sessions -> {"loop", "working"} \cup CloseCodes]
      /\ pc'[s] = "sending" /\ after'[s] = next
      /\ \A q \in Sessions \ {s} : pc'[q] = pc[q] /\ after'[q] = after[q]
  BY <1>1, Said
<1>3. TypeOK'
  BY <1>1, <1>2 DEF TypeOK, loopRest, clientVars
<1>4. TranscriberFits(s)'
  BY <1>2 DEF TranscriberFits, Resumes, Is, Ready
<1>5. \A q \in Sessions \ {s} : SessionStays(q)
  BY <1>2 DEF SessionStays
<1>6. "sending" \in Live /\ pc[s] \in Live
  BY DEF Live, InLoop
<1> QED
  BY <1>2, <1>3, <1>4, <1>5, <1>6, QuietKeeps DEF loopRest

\* A session in the loop, or in its synthesis, is ready to go on.
LEMMA ReadyHere ==
  ASSUME SessionInv, NEW s \in Sessions
  PROVE  /\ pc[s] = "loop" => Ready(session[s], worker[s])
         /\ pc[s] = "working" => /\ Ready(session[s], "none") /\ session[s].mode = "tts"
                                 /\ ~session[s].completed /\ ~session[s].transcriber
         /\ TypeOK /\ session[s] \in SessionState
BY Typed DEF SessionInv, TranscriberMatchesMode, TranscriberFits, Resumes, Is, Ready

\* Rejected frames and events, and failures of the backend.
LEMMA RejectKeeps ==
  ASSUME SessionInv, NEW s \in Sessions, pc[s] \in InLoop,
         \/ \E code \in ProtocolErrors : Reject(s, code)
         \/ \E error \in Failures \ {"none"} : FailBackend(s, error),
         UNCHANGED <<token, worker, stt, loopRest>>
  PROVE  SessionInv'
<1>1. TypeOK /\ session \in [Sessions -> SessionState]
  BY ReadyHere, Typed
<1>2. PICK code \in Errors, next \in CloseCodes : Say(s, <<code>>, next)
  BY EventNames DEF Reject, FailBackend, CloseCodes
<1>3. /\ session' \in [Sessions -> SessionState]
      /\ \A q \in Sessions \ {s} : session'[q] = session[q]
      /\ session'[s].transcriber = session[s].transcriber
  <2>1. session' \in [Sessions -> SessionState]
    <3>1. CASE \E c \in ProtocolErrors : Reject(s, c)
      <4>1. session' = [session EXCEPT ![s].pending = FALSE]
        BY <3>1 DEF Reject
      <4>2. FALSE \in BOOLEAN
        OBVIOUS
      <4> QED
        BY <1>1, <4>1, <4>2, SessionUpdates, Zenon
    <3>2. CASE \E error \in Failures \ {"none"} : FailBackend(s, error)
      <4>1. PICK f \in Failures : session' = [session EXCEPT ![s].failure = f, ![s].pending = FALSE]
        BY <3>2 DEF FailBackend
      <4> QED
        BY <1>1, <4>1, SessionUpdates, Zenon
    <3> QED
      BY <3>1, <3>2
  <2>2. \A q \in Sessions \ {s} : session'[q] = session[q]
    BY <1>1 DEF Reject, FailBackend
  <2>3. session'[s].transcriber = session[s].transcriber
    BY <1>1 DEF Reject, FailBackend, SessionState
  <2> QED
    BY <2>1, <2>2, <2>3
<1>4. <<code>> \in Seq(Events) /\ next \notin {"loop", "working"}
  BY EventBursts, EventNames DEF CloseCodes
<1> QED
  BY <1>1, <1>2, <1>3, <1>4, SayKeeps, Typed

\* Events after which the session stays as it is: it goes on, or closes.
LEMMA PlainSayKeeps ==
  ASSUME SessionInv, NEW s \in Sessions, pc[s] \in InLoop,
         NEW events \in Seq(Events), NEW next \in {"loop", "working"} \cup CloseCodes,
         Say(s, events, next),
         next \in {"loop", "working"} => pc[s] = next,
         UNCHANGED <<session, stt, loopRest>>,
         token' \in [Sessions -> BOOLEAN],
         \/ UNCHANGED worker
         \/ worker' = [worker EXCEPT ![s] = Aborted(s)] /\ next \in CloseCodes
  PROVE  SessionInv'
<1>1. TypeOK /\ session \in [Sessions -> SessionState]
      /\ worker \in [Sessions -> {"none", "queued", "native", "aborted"} \cup Outcomes]
  BY ReadyHere, Typed
<1>2. /\ worker' \in [Sessions -> {"none", "queued", "native", "aborted"} \cup Outcomes]
      /\ \A q \in Sessions \ {s} : worker'[q] = worker[q]
      /\ worker'[s] = "native" <=> worker[s] = "native"
      /\ next \in {"loop", "working"} => worker'[s] = worker[s]
  BY <1>1 DEF Aborted, CloseCodes
<1> QED
  BY <1>1, <1>2, SayKeeps, ReadyHere

\* The arms of the loop that touch no slot.
LEMMA LoopKeeps ==
  ASSUME SessionInv, NEW s \in Sessions,
         \/ TextInsteadOfAudio(s) \/ StartTts(s) \/ StartWithWrongRate(s)
         \/ DeclareAudio(s) \/ AudioFrame(s) \/ AudioUndeclared(s) \/ Generate(s)
         \/ Cancel(s) \/ Ping(s) \/ BadEvent(s) \/ WsPing(s) \/ Hangup(s) \/ ReceiveFails(s)
  PROVE  SessionInv'
<1>1. /\ TypeOK /\ pc[s] = "loop" /\ pc[s] \in InLoop /\ session[s] \in SessionState
      /\ Ready(session[s], worker[s])
  <2>1. pc[s] = "loop"
    BY DEF TextInsteadOfAudio, StartTts, StartWithWrongRate, DeclareAudio, AudioFrame,
           AudioUndeclared, Generate, Cancel, Ping, BadEvent, WsPing, Hangup, ReceiveFails,
           AtEvent, AtLoop
  <2> QED
    BY <2>1, ReadyHere DEF InLoop
<1>2. CASE \/ TextInsteadOfAudio(s) \/ StartWithWrongRate(s) \/ AudioUndeclared(s) \/ BadEvent(s)
  <2>1. \E code \in ProtocolErrors : Reject(s, code)
    BY <1>2 DEF TextInsteadOfAudio, StartWithWrongRate, AudioUndeclared, BadEvent, ProtocolErrors
  <2>2. UNCHANGED <<token, worker, stt, loopRest>>
    BY <1>2 DEF TextInsteadOfAudio, StartWithWrongRate, AudioUndeclared, BadEvent
  <2> QED
    BY <1>1, <2>1, <2>2, RejectKeeps
<1>3. CASE StartTts(s)
  <2>1. /\ Say(s, <<"session_ready">>, "loop") /\ session' = [session EXCEPT ![s].mode = "tts"]
        /\ session[s].mode = "none" /\ ~session[s].pending
        /\ UNCHANGED <<token, worker, stt, loopRest>>
    BY <1>3 DEF StartTts, AtEvent
  <2>2. <<"session_ready">> \in Seq(Events)
    BY EventBursts, EventNames
  <2>3. session' \in [Sessions -> SessionState]
    BY <1>1, <2>1, SessionUpdates DEF Modes
  <2>4. /\ \A q \in Sessions \ {s} : session'[q] = session[q]
        /\ session'[s].transcriber = session[s].transcriber
        /\ session'[s].mode = "tts" /\ session'[s].pending = session[s].pending
        /\ session'[s].completed = session[s].completed
    BY <1>1, <2>1, Typed DEF SessionState
  <2>5. Ready(session'[s], worker'[s])
    BY <1>1, <2>1, <2>4 DEF Ready
  <2> QED
    BY <1>1, <2>1, <2>2, <2>3, <2>4, <2>5, SayKeeps, Typed
<1>4. CASE DeclareAudio(s)
  <2>1. /\ session' = [session EXCEPT ![s].pending = TRUE] /\ Is(s, "stt")
        /\ UNCHANGED <<pc, outbox, after, token, worker, stt, loopRest>>
    BY <1>4 DEF DeclareAudio
  <2>2. session' \in [Sessions -> SessionState]
    BY <1>1, <2>1, SessionUpdates
  <2>3. /\ \A q \in Sessions \ {s} : session'[q] = session[q]
        /\ session'[s].transcriber = session[s].transcriber
        /\ session'[s].mode = session[s].mode /\ session'[s].completed = session[s].completed
    BY <1>1, <2>1, Typed DEF SessionState
  <2>4. TypeOK'
    BY <1>1, <2>1, <2>2 DEF TypeOK, loopRest, clientVars
  <2>5. TranscriberFits(s)'
    BY <1>1, <2>1, <2>3 DEF TranscriberFits, Resumes, Is, Ready
  <2>6. \A q \in Sessions \ {s} : SessionStays(q)
    BY <2>1, <2>3 DEF SessionStays
  <2> QED
    BY <2>1, <2>3, <2>4, <2>5, <2>6, QuietKeeps DEF loopRest
<1>5. CASE AudioFrame(s)
  <2>1. UNCHANGED <<token, worker, stt, loopRest>> /\ session[s].pending
    BY <1>5 DEF AudioFrame
  <2>2. CASE /\ session' = [session EXCEPT ![s].pending = FALSE]
             /\ \E updates \in {<<>>, <<"interim">>, <<"final">>, <<"final", "interim">>} :
                  Say(s, updates, "loop")
    <3>1. PICK updates \in Seq(Events) : Say(s, updates, "loop")
      <4>1. /\ <<>> \in Seq(Events) /\ <<"interim">> \in Seq(Events)
            /\ <<"final">> \in Seq(Events) /\ <<"final", "interim">> \in Seq(Events)
        BY EventBursts, EventNames
      <4> QED
        BY <2>2, <4>1, Zenon
    <3>2. session' \in [Sessions -> SessionState]
      BY <1>1, <2>2, SessionUpdates
    <3>3. /\ \A q \in Sessions \ {s} : session'[q] = session[q]
          /\ session'[s].transcriber = session[s].transcriber /\ session'[s].pending = FALSE
          /\ session'[s].mode = session[s].mode /\ session'[s].completed = session[s].completed
      BY <1>1, <2>2, Typed DEF SessionState
    <3>4. Ready(session'[s], worker'[s])
      BY <1>1, <2>1, <3>3 DEF Ready
    <3> QED
      BY <1>1, <2>1, <3>1, <3>2, <3>3, <3>4, SayKeeps, Typed
  <2>3. CASE \/ \E error \in CallErrors(s) : FailBackend(s, error)
             \/ Reject(s, "audio_frame_invalid")
    <3>1. CallErrors(s) \subseteq Failures \ {"none"} /\ "audio_frame_invalid" \in ProtocolErrors
      BY DEF CallErrors, Failures, ProtocolErrors
    <3> QED
      BY <1>1, <2>1, <2>3, <3>1, RejectKeeps
  <2> QED
    BY <1>5, <2>2, <2>3 DEF AudioFrame
<1>6. CASE Generate(s)
  <2>1. /\ worker' = [worker EXCEPT ![s] = "queued"] /\ pc' = [pc EXCEPT ![s] = "working"]
        /\ Is(s, "tts") /\ UNCHANGED <<session, outbox, after, token, stt, loopRest>>
    BY <1>6 DEF Generate
  <2>2. /\ pc' \in [Sessions -> Live \cup {"idle", "done"}] /\ pc'[s] = "working"
        /\ worker' \in [Sessions -> {"none", "queued", "native", "aborted"} \cup Outcomes]
        /\ \A q \in Sessions \ {s} : SessionStays(q)
        /\ worker'[s] = "queued"
    BY <1>1, <2>1, Typed DEF Live, InLoop, SessionStays
  <2>3. TypeOK'
    BY <1>1, <2>1, <2>2 DEF TypeOK, loopRest, clientVars
  <2>4. worker[s] # "native"
    BY <1>1, <2>1 DEF Ready, Is
  <2>5. TranscriberFits(s)'
    BY <1>1, <2>1, <2>2 DEF TranscriberFits, Resumes, Is, Ready
  <2> QED
    BY <1>1, <2>1, <2>2, <2>3, <2>4, <2>5, QuietKeeps DEF loopRest, Live
<1>7. CASE Cancel(s) \/ Ping(s) \/ WsPing(s) \/ Hangup(s) \/ ReceiveFails(s)
  <2>1. /\ UNCHANGED <<session, worker, stt, loopRest>>
        /\ UNCHANGED token \/ token' = [token EXCEPT ![s] = TRUE]
    BY <1>7 DEF Cancel, Ping, WsPing, Hangup, ReceiveFails
  <2>2. token' \in [Sessions -> BOOLEAN]
    BY <1>1, <2>1, Typed
  <2>3. /\ <<"cancelled_event">> \in Seq(Events) /\ <<"pong">> \in Seq(Events)
        /\ <<"ws_pong">> \in Seq(Events) /\ <<>> \in Seq(Events)
        /\ "1000" \in CloseCodes /\ "1002" \in CloseCodes
    BY EventBursts, EventNames DEF CloseCodes
  <2>4. \E events \in Seq(Events), next \in {"loop"} \cup CloseCodes : Say(s, events, next)
    BY <1>7, <2>3 DEF Cancel, Ping, WsPing, Hangup, ReceiveFails
  <2>5. \A next \in CloseCodes : next \notin {"loop", "working"}
    BY DEF CloseCodes
  <2> QED
    BY <1>1, <2>1, <2>2, <2>4, <2>5, PlainSayKeeps
<1> QED
  BY <1>2, <1>3, <1>4, <1>5, <1>6, <1>7

-----------------------------------------------------------------------------
(***************************************************************************)
(* Permits: taken by Connect, returned by a failed upgrade and the close.  *)
(***************************************************************************)
LEMMA OpenKeeps ==
  ASSUME SessionInv, NEW s \in Sessions,
         Connect(s) \/ Refused(s) \/ Upgraded(s) \/ UpgradeFails(s)
  PROVE  SessionInv'
<1>1. /\ TypeOK /\ SlotsConserved /\ TranscriberFits(s)
      /\ pc \in [Sessions -> Live \cup {"idle", "done"}]
  BY ReadyHere, Typed DEF SessionInv, TranscriberMatchesMode
<1>2. /\ UNCHANGED <<session, outbox, after, token, expired, clientVars, worker, engineVars>>
      /\ pc[s] \in {"idle", "upgrading"}
  BY DEF Connect, Refused, Upgraded, UpgradeFails
<1>3. \E there \in {"upgrading", "done", "loop"} : pc' = [pc EXCEPT ![s] = there]
  BY DEF Connect, Refused, Upgraded, UpgradeFails
<1>4. /\ pc' \in [Sessions -> Live \cup {"idle", "done"}]
      /\ pc'[s] \in {"upgrading", "done", "loop"}
      /\ \A q \in Sessions \ {s} : pc'[q] = pc[q]
  BY <1>1, <1>3 DEF Live, InLoop
<1>5. \A q \in Sessions \ {s} : SessionStays(q)
  BY <1>2, <1>4 DEF SessionStays
<1>6. TranscriberFits(s)'
  BY <1>1, <1>2, <1>4 DEF TranscriberFits, Resumes, Is, Fresh
<1>7. permits' \in 0..MaxConcurrent
      /\ permits' = MaxConcurrent - others.permits - Cardinality(InSession')
  <2>1. CASE Connect(s)
    <3>1. InSession' = InSession \cup {s} /\ s \in Sessions \ InSession
      BY <1>1, <2>1 DEF Connect, InSession, Live, InLoop
    <3>2. Cardinality(InSession') = Cardinality(InSession) + 1
      BY <1>1, <3>1, Shares, Counted
    <3>3. permits' = permits - 1 /\ permits > 0 /\ permits \in 0..MaxConcurrent
      BY <1>1, <2>1 DEF Connect, TypeOK
    <3>4. permits = MaxConcurrent - others.permits - Cardinality(InSession)
      BY <1>1 DEF SlotsConserved
    <3> QED
      BY <1>1, <3>2, <3>3, <3>4, Shares
  <2>2. CASE Refused(s) \/ Upgraded(s)
    <3>1. InSession' = InSession
      BY <1>1, <2>2 DEF Refused, Upgraded, InSession, Live, InLoop
    <3>2. permits' = permits
      BY <2>2 DEF Refused, Upgraded
    <3> QED
      BY <1>1, <3>1, <3>2 DEF SlotsConserved, TypeOK
  <2>3. CASE UpgradeFails(s)
    <3>1. InSession' = InSession \ {s} /\ s \in InSession
      BY <1>1, <2>3 DEF UpgradeFails, InSession, Live, InLoop
    <3>2. Cardinality(InSession') = Cardinality(InSession) - 1 /\ Cardinality(InSession) >= 1
      BY <1>1, <3>1, Shares, Counted
    <3>3. permits' = permits + 1 /\ permits \in 0..MaxConcurrent
      BY <1>1, <2>3 DEF UpgradeFails, TypeOK
    <3>4. permits = MaxConcurrent - others.permits - Cardinality(InSession)
      BY <1>1 DEF SlotsConserved
    <3> QED
      BY <1>1, <3>2, <3>3, <3>4, Shares
  <2> QED
    BY <2>1, <2>2, <2>3
<1>8. TypeOK'
  BY <1>1, <1>2, <1>4, <1>7 DEF TypeOK, clientVars, engineVars
<1>9. SlotsConserved'
  <2>1. Transcribing' = Transcribing /\ Synthesizing' = Synthesizing
    BY <1>2 DEF Transcribing, Synthesizing
  <2> QED
    BY <1>1, <1>2, <1>7, <2>1 DEF SlotsConserved, engineVars
<1> QED
  BY <1>5, <1>6, <1>8, <1>9, StepKeeps

-----------------------------------------------------------------------------
(***************************************************************************)
(* Slots of the recognition engine.                                        *)
(***************************************************************************)
\* What FailBackend and a commit do to a session, and what is said then.
LEMMA SaidTyped ==
  ASSUME TypeOK, NEW s \in Sessions, NEW events \in Seq(Events),
         NEW next \in {"loop", "working"} \cup CloseCodes, Say(s, events, next),
         session' \in [Sessions -> SessionState],
         stt' \in 0..MaxConcurrent, UNCHANGED <<token, worker, loopRest>>
  PROVE  TypeOK'
<1>1. /\ pc' \in [Sessions -> Live \cup {"idle", "done"}]
      /\ outbox' \in [Sessions -> Seq(Events)]
      /\ after' \in [Sessions -> {"loop", "working"} \cup CloseCodes]
  BY Said, Zenon
<1>2. UNCHANGED <<token, worker, expired, clientVars, permits, tts, others>>
  BY DEF loopRest
<1> QED
  BY <1>1, <1>2, Zenon DEF TypeOK, clientVars

LEMMA StartSttKeeps ==
  ASSUME SessionInv, NEW s \in Sessions, StartStt(s)
  PROVE  SessionInv'
<1>1. /\ TypeOK /\ SlotsConserved /\ TranscriberFits(s)
      /\ pc[s] = "loop" /\ session[s].mode = "none" /\ ~session[s].pending
      /\ Ready(session[s], worker[s])
      /\ session \in [Sessions -> SessionState]
      /\ UNCHANGED <<token, worker, loopRest>>
  BY ReadyHere, Typed DEF SessionInv, TranscriberMatchesMode, StartStt, AtEvent, AtLoop
<1>2. CASE /\ stt < MaxConcurrent /\ stt' = stt + 1
           /\ Say(s, <<"session_ready">>, "loop")
           /\ session' = [session EXCEPT ![s].mode = "stt", ![s].transcriber = TRUE]
  <2>1. /\ <<"session_ready">> \in Seq(Events)
        /\ "loop" \in {"loop", "working"} \cup CloseCodes
    BY EventBursts, EventNames
  <2>2. /\ session' \in [Sessions -> SessionState]
        /\ \A q \in Sessions \ {s} : session'[q] = session[q]
    BY <1>1, <1>2, SessionUpdates, Zenon
  <2>3. /\ session'[s].transcriber /\ session'[s].mode = "stt"
        /\ session'[s].pending = session[s].pending
        /\ session'[s].completed = session[s].completed
    BY <1>1, <1>2 DEF SessionState
  <2>4. /\ pc'[s] = "sending" /\ after'[s] = "loop"
        /\ \A q \in Sessions \ {s} : pc'[q] = pc[q] /\ after'[q] = after[q]
    BY <1>1, <1>2, <2>1, Said
  <2>5. stt' \in 0..MaxConcurrent
    <3>1. stt \in 0..MaxConcurrent /\ MaxConcurrent \in Nat
      BY <1>1, SessionAssumption DEF TypeOK
    <3> QED
      BY <1>2, <3>1
  <2>6. TypeOK'
    BY <1>1, <1>2, <2>1, <2>2, <2>5, SaidTyped
  <2>7. SlotsConserved'
    <3>1. Transcribing' = Transcribing \cup {s} /\ s \in Sessions \ Transcribing
      BY <1>1, <2>2, <2>3 DEF Transcribing, Ready
    <3>2. InSession' = InSession /\ Synthesizing' = Synthesizing
      BY <1>1, <2>4 DEF InSession, Synthesizing, Live, InLoop
    <3>3. Cardinality(Transcribing') = Cardinality(Transcribing) + 1
      BY <1>1, <3>1, Shares, Counted
    <3>4. stt = others.stt + Cardinality(Transcribing)
      BY <1>1 DEF SlotsConserved
    <3>5. stt' = others.stt + Cardinality(Transcribing')
      BY <1>1, <1>2, <3>3, <3>4, Shares
    <3> QED
      BY <1>1, <3>2, <3>5 DEF SlotsConserved, loopRest
  <2>8. TranscriberFits(s)'
    BY <1>1, <2>3, <2>4 DEF TranscriberFits, Resumes, Is, Ready
  <2>9. \A q \in Sessions \ {s} : SessionStays(q)
    BY <1>1, <2>2, <2>4 DEF SessionStays
  <2> QED
    BY <2>6, <2>7, <2>8, <2>9, StepKeeps
<1>3. CASE UNCHANGED stt /\ \E error \in Failures \ {"none"} : FailBackend(s, error)
  BY <1>1, <1>3, RejectKeeps DEF InLoop
<1>4. CallErrors(s) \cup {"overloaded"} \subseteq Failures \ {"none"}
  BY DEF CallErrors, Failures
<1> QED
  BY <1>2, <1>3, <1>4 DEF StartStt

LEMMA CommitKeeps ==
  ASSUME SessionInv, NEW s \in Sessions, Commit(s)
  PROVE  SessionInv'
<1>1. /\ TypeOK /\ SlotsConserved /\ Is(s, "stt") /\ ~session[s].pending
      /\ pc[s] = "loop" /\ Ready(session[s], worker[s])
      /\ session \in [Sessions -> SessionState]
      /\ stt' = stt - 1 /\ UNCHANGED <<token, worker, loopRest>>
  BY ReadyHere, Typed DEF SessionInv, Commit, AtEvent, AtLoop
<1>2. PICK events \in Seq(Events), next \in {"loop"} \cup CloseCodes :
        /\ Say(s, events, next)
        /\ \/ session' = [session EXCEPT ![s].transcriber = FALSE, ![s].completed = TRUE]
           \/ /\ next # "loop"
              /\ \E f \in Failures : session' = [session EXCEPT ![s].transcriber = FALSE, ![s].failure = f]
  <2>1. /\ <<"final", "session_completed">> \in Seq(Events)
        /\ \A e \in Errors : <<e>> \in Seq(Events)
        /\ CallErrors(s) \subseteq Errors /\ CallErrors(s) \subseteq Failures
        /\ \A f \in Failures : CloseCode(f) \in CloseCodes /\ CloseCode(f) # "loop"
    BY EventBursts, EventNames DEF CallErrors, Failures, Errors, CloseCode, CloseCodes
  <2>2. CASE /\ Say(s, <<"final", "session_completed">>, "loop")
             /\ session' = [session EXCEPT ![s].transcriber = FALSE, ![s].completed = TRUE]
    BY <2>1, <2>2
  <2>3. CASE \E error \in CallErrors(s) :
               /\ Say(s, <<error>>, CloseCode(error))
               /\ session' = [session EXCEPT ![s].transcriber = FALSE, ![s].failure = error]
    <3>1. PICK error \in CallErrors(s) :
               /\ Say(s, <<error>>, CloseCode(error))
               /\ session' = [session EXCEPT ![s].transcriber = FALSE, ![s].failure = error]
      BY <2>3
    <3>2. /\ <<error>> \in Seq(Events) /\ error \in Failures
          /\ CloseCode(error) \in CloseCodes /\ CloseCode(error) # "loop"
      BY <2>1, <3>1
    <3>3. /\ Say(s, <<error>>, CloseCode(error))
          /\ \/ session' = [session EXCEPT ![s].transcriber = FALSE, ![s].completed = TRUE]
             \/ /\ CloseCode(error) # "loop"
                /\ \E f \in Failures : session' = [session EXCEPT ![s].transcriber = FALSE, ![s].failure = f]
      BY <3>1, <3>2, Zenon
    <3>4. CloseCode(error) \in {"loop"} \cup CloseCodes
      BY <3>2
    <3> QED
      BY <3>2, <3>3, <3>4, Zenon
  <2> QED
    BY <2>2, <2>3 DEF Commit
<1>3. /\ session' \in [Sessions -> SessionState]
      /\ \A q \in Sessions \ {s} : session'[q] = session[q]
  <2>1. CASE session' = [session EXCEPT ![s].transcriber = FALSE, ![s].completed = TRUE]
    BY <1>1, <2>1, SessionUpdates, Zenon
  <2>2. CASE \E f \in Failures : session' = [session EXCEPT ![s].transcriber = FALSE, ![s].failure = f]
    <3>1. PICK f \in Failures : session' = [session EXCEPT ![s].transcriber = FALSE, ![s].failure = f]
      BY <2>2, Zenon
    <3>2. session' \in [Sessions -> SessionState]
      BY <1>1, <3>1, SessionUpdates, Zenon
    <3> QED
      BY <1>1, <3>1, <3>2
  <2> QED
    BY <1>2, <2>1, <2>2, Zenon
<1>4. /\ ~session'[s].transcriber /\ session'[s].mode = session[s].mode
      /\ session'[s].pending = session[s].pending
      /\ next = "loop" => session'[s].completed
  BY <1>1, <1>2 DEF SessionState
<1>5. /\ pc'[s] = "sending" /\ after'[s] = next
      /\ \A q \in Sessions \ {s} : pc'[q] = pc[q] /\ after'[q] = after[q]
  BY <1>1, <1>2, Said
<1>6. Transcribing' = Transcribing \ {s} /\ s \in Transcribing
  BY <1>1, <1>3, <1>4 DEF Transcribing, Ready, Is
<1>7. InSession' = InSession /\ Synthesizing' = Synthesizing
  BY <1>1, <1>5 DEF InSession, Synthesizing, Live, InLoop
<1>8. Cardinality(Transcribing') = Cardinality(Transcribing) - 1 /\ Cardinality(Transcribing) >= 1
  BY <1>1, <1>6, Shares, Counted
<1>9. stt = others.stt + Cardinality(Transcribing) /\ stt \in 0..MaxConcurrent
  BY <1>1 DEF SlotsConserved, TypeOK
<1>10. stt' = others.stt + Cardinality(Transcribing') /\ stt' \in 0..MaxConcurrent
  <2>1. /\ stt \in Int /\ others.stt \in Nat /\ MaxConcurrent \in Nat /\ stt' = stt - 1
        /\ Cardinality(Transcribing) \in Nat
    BY <1>1, Shares
  <2>2. stt >= 1 /\ stt <= MaxConcurrent
    BY <1>8, <1>9, <2>1
  <2>3. stt' \in 0..MaxConcurrent
    BY <2>1, <2>2
  <2> QED
    BY <1>8, <1>9, <2>1, <2>3
<1>11. TypeOK'
  BY <1>1, <1>2, <1>3, <1>10, SaidTyped
<1>12. SlotsConserved'
  BY <1>1, <1>7, <1>10 DEF SlotsConserved, loopRest
<1>13. next \in CloseCodes => next \notin {"loop", "working"}
  BY DEF CloseCodes
<1>14. TranscriberFits(s)'
  BY <1>1, <1>2, <1>4, <1>5, <1>13 DEF TranscriberFits, Resumes, Is, Ready
<1>15. \A q \in Sessions \ {s} : SessionStays(q)
  BY <1>1, <1>3, <1>5 DEF SessionStays
<1> QED
  BY <1>11, <1>12, <1>14, <1>15, StepKeeps

-----------------------------------------------------------------------------
(***************************************************************************)
(* The select around the synthesis, and the synthesis itself.              *)
(***************************************************************************)
LEMMA WorkingKeeps ==
  ASSUME SessionInv, NEW s \in Sessions,
         Interrupt(s) \/ PingWorking(s) \/ Synthesized(s) \/ SynthesisFailed(s)
  PROVE  SessionInv'
<1>1. pc[s] = "working"
  BY DEF Interrupt, Abandon, PingWorking, Synthesized, SynthesisFailed
<1>2. /\ TypeOK /\ pc[s] \in InLoop /\ session \in [Sessions -> SessionState]
      /\ Ready(session[s], "none") /\ session[s].mode = "tts"
  BY <1>1, ReadyHere, Typed DEF InLoop
<1>3. CASE Interrupt(s)
  <2>1. /\ <<"cancelled_event">> \in Seq(Events) /\ <<>> \in Seq(Events)
        /\ <<"invalid_json">> \in Seq(Events) /\ <<"invalid_sequence">> \in Seq(Events)
        /\ "1000" \in CloseCodes /\ "1002" \in CloseCodes
    BY EventBursts, EventNames DEF CloseCodes, ProtocolErrors
  <2>2. \E events \in Seq(Events), code \in CloseCodes : Abandon(s, events, code)
    BY <1>3, <2>1 DEF Interrupt
  <2>3. PICK events \in Seq(Events), code \in CloseCodes : Abandon(s, events, code)
    BY <2>2
  <2>4. /\ Say(s, events, code) /\ worker' = [worker EXCEPT ![s] = Aborted(s)]
        /\ token' = [token EXCEPT ![s] = TRUE] /\ UNCHANGED <<session, stt, loopRest>>
    BY <2>3 DEF Abandon
  <2>5. token' \in [Sessions -> BOOLEAN] /\ code \notin {"loop", "working"}
    BY <1>2, <2>4, Typed DEF CloseCodes
  <2> QED
    BY <1>2, <2>4, <2>5, PlainSayKeeps
<1>4. CASE PingWorking(s)
  <2>1. /\ <<"pong">> \in Seq(Events) /\ <<"ws_pong">> \in Seq(Events)
    BY EventBursts, EventNames
  <2>2. PICK events \in Seq(Events) : Say(s, events, "working")
    BY <1>4, <2>1 DEF PingWorking
  <2>3. UNCHANGED <<session, token, worker, stt, loopRest>>
    BY <1>4 DEF PingWorking
  <2> QED
    BY <1>1, <1>2, <2>2, <2>3, PlainSayKeeps, Typed
<1>5. CASE Synthesized(s)
  <2>1. /\ Say(s, <<"speech_metadata", "chunk", "chunk", "speech_completed">>, "loop")
        /\ session' = [session EXCEPT ![s].completed = TRUE]
        /\ UNCHANGED <<token, worker, stt, loopRest>>
    BY <1>5 DEF Synthesized
  <2>2. <<"speech_metadata", "chunk", "chunk", "speech_completed">> \in Seq(Events)
    BY EventBursts, EventNames
  <2>3. session' \in [Sessions -> SessionState]
    BY <1>2, <2>1, SessionUpdates, Zenon
  <2>4. /\ \A q \in Sessions \ {s} : session'[q] = session[q]
        /\ session'[s].transcriber = session[s].transcriber
        /\ session'[s].mode = session[s].mode /\ session'[s].pending = session[s].pending
        /\ session'[s].completed
    BY <1>2, <2>1 DEF SessionState
  <2>5. Ready(session'[s], worker'[s])
    BY <1>2, <2>4 DEF Ready
  <2> QED
    BY <1>2, <2>1, <2>2, <2>3, <2>4, <2>5, SayKeeps, Typed, Zenon
<1>6. CASE SynthesisFailed(s)
  <2>1. worker[s] \in Failures \ {"none"}
    BY <1>6 DEF SynthesisFailed, Outcomes
  <2>2. FailBackend(s, worker[s]) /\ UNCHANGED <<token, worker, stt, loopRest>>
    BY <1>6 DEF SynthesisFailed
  <2> QED
    BY <1>2, <2>1, <2>2, RejectKeeps
<1> QED
  BY <1>3, <1>4, <1>5, <1>6

LEMMA WorkerKeeps ==
  ASSUME SessionInv, NEW s \in Sessions, WorkerStart(s) \/ WorkerEnds(s)
  PROVE  SessionInv'
<1>1. /\ TypeOK /\ SlotsConserved /\ TranscriberFits(s)
      /\ worker \in [Sessions -> {"none", "queued", "native", "aborted"} \cup Outcomes]
  BY Typed DEF SessionInv, TranscriberMatchesMode
<1>2. UNCHANGED <<taskVars, expired, clientVars, permits, stt, others>>
  BY DEF WorkerStart, WorkerEnds
<1>3. PICK w \in {"native"} \cup Outcomes : worker' = [worker EXCEPT ![s] = w]
  BY DEF WorkerStart, WorkerEnds, Outcomes, Failures
<1>4. /\ worker' \in [Sessions -> {"none", "queued", "native", "aborted"} \cup Outcomes]
      /\ \A q \in Sessions \ {s} : worker'[q] = worker[q]
      /\ worker'[s] = w
  BY <1>1, <1>3
<1>5. worker[s] \in {"queued", "native"}
  BY DEF WorkerStart, WorkerEnds
<1>6. "native" \notin Outcomes /\ "queued" \notin Outcomes
  BY DEF Outcomes, Failures
<1>7. Cardinality(Synthesizing') \in Nat /\ tts' \in 0..MaxConcurrent
      /\ tts' = others.tts + Cardinality(Synthesizing')
  <2>0. /\ tts = others.tts + Cardinality(Synthesizing) /\ tts \in 0..MaxConcurrent
        /\ tts \in Int /\ others.tts \in Nat /\ Cardinality(Synthesizing) \in Nat
        /\ MaxConcurrent \in Nat
    BY <1>1, Shares DEF SlotsConserved, TypeOK
  <2>1. CASE WorkerStart(s) /\ w = "native"
    <3>1. tts < MaxConcurrent /\ tts' = tts + 1
      BY <1>1, <1>4, <1>6, <2>1 DEF WorkerStart, Outcomes, Failures
    <3>2. Synthesizing' = Synthesizing \cup {s} /\ s \in Sessions \ Synthesizing
      BY <1>4, <2>1 DEF WorkerStart, Synthesizing
    <3>3. Cardinality(Synthesizing') = Cardinality(Synthesizing) + 1
      BY <1>1, <3>2, Shares, Counted
    <3> QED
      BY <2>0, <3>1, <3>3
  <2>2. CASE WorkerStart(s) /\ w # "native"
    <3>1. tts' = tts
      BY <1>1, <1>4, <2>2 DEF WorkerStart
    <3>2. Synthesizing' = Synthesizing
      BY <1>4, <2>2 DEF WorkerStart, Synthesizing
    <3> QED
      BY <2>0, <3>1, <3>2
  <2>3. CASE WorkerEnds(s)
    <3>1. tts' = tts - 1 /\ worker[s] = "native"
      BY <2>3 DEF WorkerEnds
    <3>2. w # "native"
      BY <1>1, <1>4, <2>3 DEF WorkerEnds
    <3>3. Synthesizing' = Synthesizing \ {s} /\ s \in Synthesizing
      BY <1>4, <3>1, <3>2 DEF Synthesizing
    <3>4. Cardinality(Synthesizing') = Cardinality(Synthesizing) - 1 /\ Cardinality(Synthesizing) >= 1
      BY <1>1, <3>3, Shares, Counted
    <3> QED
      BY <2>0, <3>1, <3>4
  <2> QED
    BY <2>1, <2>2, <2>3
<1>8. TypeOK'
  BY <1>1, <1>2, <1>4, <1>7 DEF TypeOK, taskVars, clientVars
<1>9. SlotsConserved'
  <2>1. InSession' = InSession /\ Transcribing' = Transcribing
    BY <1>2 DEF InSession, Transcribing, taskVars
  <2> QED
    BY <1>1, <1>2, <1>7, <2>1 DEF SlotsConserved
<1>10. TranscriberFits(s)'
  BY <1>1, <1>2, <1>5 DEF TranscriberFits, Resumes, Is, taskVars
<1>11. \A q \in Sessions \ {s} : SessionStays(q)
  BY <1>2, <1>4 DEF SessionStays, taskVars
<1> QED
  BY <1>8, <1>9, <1>10, <1>11, StepKeeps

-----------------------------------------------------------------------------
(***************************************************************************)
(* Sending, the timer and the close.                                       *)
(***************************************************************************)
LEMMA DeliverKeeps ==
  ASSUME SessionInv, NEW s \in Sessions, Deliver(s)
  PROVE  SessionInv'
<1>1. /\ TypeOK /\ TranscriberFits(s)
      /\ outbox \in [Sessions -> Seq(Events)]
      /\ heard \in [Sessions -> {"nothing", "ready", "audio", "completed", "ended", "disorder"}]
      /\ reported \in [Sessions -> Errors \cup {"none"}]
  BY Typed DEF SessionInv, TranscriberMatchesMode
<1>2. /\ outbox[s] # <<>> /\ outbox' = [outbox EXCEPT ![s] = Tail(@)]
      /\ heard' = [heard EXCEPT ![s] = Follows(@, Head(outbox[s]))]
      /\ reported' = IF Head(outbox[s]) \in Errors
                      THEN [reported EXCEPT ![s] = Head(outbox[s])] ELSE reported
      /\ UNCHANGED <<pc, session, after, token, expired, client, closed, worker, permits, engineVars>>
  BY DEF Deliver
<1>3. outbox' \in [Sessions -> Seq(Events)]
  <2>1. Tail(outbox[s]) \in Seq(Events)
    BY <1>1, <1>2, HeadTailProperties
  <2> QED
    BY <1>1, <1>2, <2>1
<1>4. heard' \in [Sessions -> {"nothing", "ready", "audio", "completed", "ended", "disorder"}]
  <2>1. \A event : \A state \in {"nothing", "ready", "audio", "completed", "ended", "disorder"} :
          Follows(state, event) \in {"nothing", "ready", "audio", "completed", "ended", "disorder"}
    BY DEF Follows
  <2> QED
    BY <1>1, <1>2, <2>1
<1>5. reported' \in [Sessions -> Errors \cup {"none"}]
  BY <1>1, <1>2
<1>6. TypeOK'
  BY <1>1, <1>2, <1>3, <1>4, <1>5 DEF TypeOK, engineVars
<1>7. TranscriberFits(s)'
  BY <1>1, <1>2 DEF TranscriberFits, Resumes, Is
<1>8. \A q \in Sessions \ {s} : SessionStays(q)
  BY <1>2 DEF SessionStays
<1> QED
  BY <1>2, <1>6, <1>7, <1>8, QuietKeeps DEF engineVars

LEMMA LeaveKeeps ==
  ASSUME SessionInv, NEW s \in Sessions, NEW code \in CloseCodes,
         NEW events \in Seq(Events), pc[s] \in InLoop, Leave(s, code, events)
  PROVE  SessionInv'
<1>1. TypeOK /\ pc \in [Sessions -> Live \cup {"idle", "done"}]
      /\ outbox \in [Sessions -> Seq(Events)]
      /\ after \in [Sessions -> {"loop", "working"} \cup CloseCodes]
      /\ token \in [Sessions -> BOOLEAN]
  BY Typed DEF SessionInv
<1>2. /\ pc' = [pc EXCEPT ![s] = "closing"] /\ after' = [after EXCEPT ![s] = code]
      /\ outbox' = [outbox EXCEPT ![s] = events] /\ token' = [token EXCEPT ![s] = TRUE]
      /\ UNCHANGED <<session, expired, clientVars, worker, permits, engineVars>>
  BY DEF Leave
<1>3. /\ pc' \in [Sessions -> Live \cup {"idle", "done"}] /\ pc'[s] = "closing"
      /\ after'[s] = code
      /\ outbox' \in [Sessions -> Seq(Events)]
      /\ after' \in [Sessions -> {"loop", "working"} \cup CloseCodes]
      /\ token' \in [Sessions -> BOOLEAN]
  BY <1>1, <1>2 DEF Live
<1>4. TypeOK'
  BY <1>1, <1>2, <1>3 DEF TypeOK, clientVars, engineVars
<1>5. TranscriberFits(s)'
  BY <1>3 DEF TranscriberFits, Resumes
<1>6. \A q \in Sessions \ {s} : SessionStays(q)
  BY <1>1, <1>2 DEF SessionStays
<1> QED
  BY <1>2, <1>3, <1>4, <1>5, <1>6, QuietKeeps DEF engineVars, Live

LEMMA SendKeeps ==
  ASSUME SessionInv, NEW s \in Sessions, SendStep(s) \/ Timeout(s) \/ CloseReport(s)
  PROVE  SessionInv'
<1>1. /\ TypeOK /\ TranscriberFits(s) /\ session[s] \in SessionState
      /\ pc \in [Sessions -> Live \cup {"idle", "done"}]
      /\ after \in [Sessions -> {"loop", "working"} \cup CloseCodes]
  BY Typed, ReadyHere DEF SessionInv, TranscriberMatchesMode
<1>2. <<>> \in Seq(Events) /\ <<"deadline_exceeded">> \in Seq(Events) /\ "1008" \in CloseCodes
  BY EventBursts, EventNames DEF Failures, CloseCodes
<1>3. CASE Send(s) \/ CloseReport(s)
  BY <1>3, DeliverKeeps DEF Send, CloseReport
<1>4. CASE SendFails(s)
  <2>1. CloseCode(session[s].failure) \in CloseCodes
    BY <1>1, EventNames DEF SessionState
  <2> QED
    BY <1>2, <1>4, <2>1, LeaveKeeps DEF SendFails, InLoop
<1>5. CASE Sent(s) /\ after[s] \in CloseCodes
  BY <1>2, <1>5, LeaveKeeps DEF Sent, InLoop
<1>6. CASE Sent(s) /\ after[s] \notin CloseCodes
  <2>1. /\ pc[s] = "sending" /\ pc' = [pc EXCEPT ![s] = after[s]]
        /\ UNCHANGED <<session, outbox, after, token, expired, clientVars, worker, permits, engineVars>>
        /\ after[s] \in {"loop", "working"}
    BY <1>1, <1>6 DEF Sent
  <2>2. /\ pc' \in [Sessions -> Live \cup {"idle", "done"}] /\ pc'[s] = after[s]
        /\ \A q \in Sessions \ {s} : pc'[q] = pc[q]
    BY <1>1, <2>1 DEF Live, InLoop
  <2>3. TypeOK'
    BY <1>1, <2>1, <2>2 DEF TypeOK, clientVars, engineVars
  <2>4. TranscriberFits(s)'
    BY <1>1, <2>1, <2>2 DEF TranscriberFits, Resumes, Is
  <2>5. \A q \in Sessions \ {s} : SessionStays(q)
    BY <2>1, <2>2 DEF SessionStays
  <2>6. pc[s] \in Live /\ pc'[s] \in Live
    BY <2>1, <2>2 DEF Live, InLoop
  <2> QED
    BY <2>1, <2>3, <2>4, <2>5, <2>6, QuietKeeps DEF engineVars
<1>7. CASE Timeout(s)
  BY <1>2, <1>7, LeaveKeeps, Zenon DEF Timeout
<1> QED
  BY <1>3, <1>4, <1>5, <1>6, <1>7 DEF SendStep

\* The end of the task gives back the permit and the transcriber.
LEMMA CloseKeeps ==
  ASSUME SessionInv, NEW s \in Sessions, Close(s)
  PROVE  SessionInv'
<1>1. /\ TypeOK /\ SlotsConserved
      /\ pc \in [Sessions -> Live \cup {"idle", "done"}]
      /\ session \in [Sessions -> SessionState]
      /\ closed \in [Sessions -> CloseCodes \cup {"none"}]
      /\ after \in [Sessions -> {"loop", "working"} \cup CloseCodes]
  BY Typed DEF SessionInv
<1>2. /\ pc[s] = "closing" /\ pc' = [pc EXCEPT ![s] = "done"]
      /\ permits' = permits + 1 /\ session' = [session EXCEPT ![s].transcriber = FALSE]
      /\ stt' = IF session[s].transcriber THEN stt - 1 ELSE stt
      /\ closed' = [closed EXCEPT ![s] = IF client[s] = "gone" THEN "none" ELSE after[s]]
      /\ UNCHANGED <<outbox, after, token, expired, client, heard, reported, worker, tts, others>>
  BY DEF Close
<1>3. /\ pc' \in [Sessions -> Live \cup {"idle", "done"}] /\ pc'[s] = "done"
      /\ \A q \in Sessions \ {s} : pc'[q] = pc[q] /\ session'[q] = session[q]
  BY <1>1, <1>2
<1>4. session' \in [Sessions -> SessionState] /\ ~session'[s].transcriber
  <2>1. session' \in [Sessions -> SessionState]
    <3>1. FALSE \in BOOLEAN
      OBVIOUS
    <3> QED
      BY <1>1, <1>2, <3>1, SessionUpdates, Zenon
  <2>2. ~session'[s].transcriber
    BY <1>1, <1>2 DEF SessionState
  <2> QED
    BY <2>1, <2>2
<1>5. permits' \in 0..MaxConcurrent
      /\ permits' = MaxConcurrent - others.permits - Cardinality(InSession')
  <2>1. InSession' = InSession \ {s} /\ s \in InSession
    BY <1>1, <1>2, <1>3 DEF InSession, Live, InLoop
  <2>2. Cardinality(InSession') = Cardinality(InSession) - 1 /\ Cardinality(InSession) >= 1
    BY <1>1, <2>1, Shares, Counted
  <2>3. permits = MaxConcurrent - others.permits - Cardinality(InSession)
        /\ permits \in 0..MaxConcurrent
    BY <1>1 DEF SlotsConserved, TypeOK
  <2> QED
    BY <1>1, <1>2, <2>2, <2>3, Shares
<1>6. stt' \in 0..MaxConcurrent /\ stt' = others.stt + Cardinality(Transcribing')
  <2>0. /\ stt = others.stt + Cardinality(Transcribing) /\ stt \in 0..MaxConcurrent
        /\ stt \in Int /\ others.stt \in Nat /\ Cardinality(Transcribing) \in Nat
        /\ MaxConcurrent \in Nat
    BY <1>1, Shares DEF SlotsConserved, TypeOK
  <2>1. CASE session[s].transcriber
    <3>1. Transcribing' = Transcribing \ {s} /\ s \in Transcribing
      BY <1>3, <1>4, <2>1 DEF Transcribing
    <3>2. Cardinality(Transcribing') = Cardinality(Transcribing) - 1 /\ Cardinality(Transcribing) >= 1
      BY <1>1, <3>1, Shares, Counted
    <3> QED
      BY <1>2, <2>0, <2>1, <3>2
  <2>2. CASE ~session[s].transcriber
    <3>1. Transcribing' = Transcribing
      BY <1>3, <1>4, <2>2 DEF Transcribing
    <3> QED
      BY <1>2, <2>0, <2>2, <3>1
  <2> QED
    BY <2>1, <2>2
<1>7. closed' \in [Sessions -> CloseCodes \cup {"none"}]
  <2>1. after[s] \in CloseCodes \/ after[s] \in {"loop", "working"}
    BY <1>1
  <2>2. after[s] \in CloseCodes
    BY <1>1, <1>2, <2>1 DEF SessionInv, TranscriberMatchesMode, TranscriberFits
  <2> QED
    BY <1>1, <1>2, <2>2
<1>8. TypeOK'
  BY <1>1, <1>2, <1>3, <1>4, <1>5, <1>6, <1>7 DEF TypeOK
<1>9. SlotsConserved'
  <2>1. Synthesizing' = Synthesizing
    BY <1>2 DEF Synthesizing
  <2> QED
    BY <1>1, <1>2, <1>5, <1>6, <2>1 DEF SlotsConserved
<1>10. TranscriberFits(s)'
  BY <1>3 DEF TranscriberFits, Resumes
<1>11. \A q \in Sessions \ {s} : SessionStays(q)
  BY <1>2, <1>3 DEF SessionStays
<1> QED
  BY <1>8, <1>9, <1>10, <1>11, StepKeeps

-----------------------------------------------------------------------------
(***************************************************************************)
(* Clients, clocks and the other callers.                                  *)
(***************************************************************************)
LEMMA OutsideKeeps ==
  ASSUME SessionInv, NEW s \in Sessions, ClientChanges(s) \/ Expire(s)
  PROVE  SessionInv'
<1>1. /\ TypeOK /\ TranscriberFits(s)
      /\ client \in [Sessions -> {"reading", "stalled", "gone"}]
      /\ expired \in [Sessions -> BOOLEAN]
  BY Typed DEF SessionInv, TranscriberMatchesMode
<1>2. /\ UNCHANGED <<taskVars, closed, heard, reported, worker, permits, engineVars>>
      /\ client' \in [Sessions -> {"reading", "stalled", "gone"}]
      /\ expired' \in [Sessions -> BOOLEAN]
  BY <1>1 DEF ClientChanges, Expire, clientVars
<1>3. TypeOK'
  BY <1>1, <1>2 DEF TypeOK, taskVars, engineVars
<1>4. TranscriberFits(s)'
  BY <1>1, <1>2 DEF TranscriberFits, Resumes, Is, taskVars
<1>5. \A q \in Sessions \ {s} : SessionStays(q)
  BY <1>2 DEF SessionStays, taskVars
<1> QED
  BY <1>2, <1>3, <1>4, <1>5, QuietKeeps DEF engineVars, taskVars

LEMMA OthersKeep ==
  ASSUME SessionInv, OthersAcquire \/ OthersRelease
  PROVE  SessionInv'
<1>1. /\ TypeOK /\ SlotsConserved /\ TranscriberMatchesMode
      /\ UNCHANGED <<taskVars, expired, clientVars, worker>>
  BY DEF SessionInv, OthersAcquire, OthersRelease
<1>2. /\ InSession' = InSession /\ Transcribing' = Transcribing /\ Synthesizing' = Synthesizing
  BY <1>1 DEF InSession, Transcribing, Synthesizing, taskVars
<1>3. TranscriberMatchesMode'
  BY <1>1 DEF TranscriberMatchesMode, TranscriberFits, Resumes, Is, taskVars
<1>4. /\ others \in [Shared -> 0..MaxConcurrent] /\ MaxConcurrent \in Nat
      /\ permits \in 0..MaxConcurrent /\ stt \in 0..MaxConcurrent /\ tts \in 0..MaxConcurrent
      /\ "permits" \in Shared /\ "stt" \in Shared /\ "tts" \in Shared
  BY <1>1, SessionAssumption DEF TypeOK, Shared
<1>5. /\ permits = MaxConcurrent - others["permits"] - Cardinality(InSession)
      /\ stt = others["stt"] + Cardinality(Transcribing)
      /\ tts = others["tts"] + Cardinality(Synthesizing)
      /\ Cardinality(InSession) \in Nat /\ Cardinality(Transcribing) \in Nat
      /\ Cardinality(Synthesizing) \in Nat
      /\ others["permits"] \in Nat /\ others["stt"] \in Nat /\ others["tts"] \in Nat
  BY <1>1, Shares DEF SlotsConserved
<1>6. PICK held \in [Shared -> Int] :
        /\ others' = held
        /\ \A e \in Shared : held[e] \in 0..MaxConcurrent
        /\ permits' \in 0..MaxConcurrent /\ stt' \in 0..MaxConcurrent /\ tts' \in 0..MaxConcurrent
        /\ permits' = MaxConcurrent - held["permits"] - Cardinality(InSession)
        /\ stt' = held["stt"] + Cardinality(Transcribing)
        /\ tts' = held["tts"] + Cardinality(Synthesizing)
  <2>1. /\ others' \in [Shared -> Int]
        /\ \A e \in Shared : others'[e] \in 0..MaxConcurrent
    <3>1. ASSUME NEW e \in Shared, NEW v \in 0..MaxConcurrent, others' = [others EXCEPT ![e] = v]
          PROVE  /\ others' \in [Shared -> Int]
                 /\ \A x \in Shared : others'[x] \in 0..MaxConcurrent
      BY <1>4, <3>1
    <3>2. CASE OthersAcquire
      <4>1. CASE permits > 0 /\ others' = [others EXCEPT !.permits = @ + 1]
        <5>1. others["permits"] + 1 \in 0..MaxConcurrent
          BY <1>4, <1>5, <4>1
        <5> QED
          BY <1>4, <3>1, <4>1, <5>1
      <4>2. CASE stt < MaxConcurrent /\ others' = [others EXCEPT !.stt = @ + 1]
        <5>1. others["stt"] + 1 \in 0..MaxConcurrent
          BY <1>4, <1>5, <4>2
        <5> QED
          BY <1>4, <3>1, <4>2, <5>1
      <4>3. CASE tts < MaxConcurrent /\ others' = [others EXCEPT !.tts = @ + 1]
        <5>1. others["tts"] + 1 \in 0..MaxConcurrent
          BY <1>4, <1>5, <4>3
        <5> QED
          BY <1>4, <3>1, <4>3, <5>1
      <4> QED
        BY <3>2, <4>1, <4>2, <4>3 DEF OthersAcquire
    <3>3. CASE OthersRelease
      <4>1. CASE others["permits"] > 0 /\ others' = [others EXCEPT !.permits = @ - 1]
        <5>1. others["permits"] - 1 \in 0..MaxConcurrent
          BY <1>4, <1>5, <4>1
        <5> QED
          BY <1>4, <3>1, <4>1, <5>1
      <4>2. CASE others["stt"] > 0 /\ others' = [others EXCEPT !.stt = @ - 1]
        <5>1. others["stt"] - 1 \in 0..MaxConcurrent
          BY <1>4, <1>5, <4>2
        <5> QED
          BY <1>4, <3>1, <4>2, <5>1
      <4>3. CASE others["tts"] > 0 /\ others' = [others EXCEPT !.tts = @ - 1]
        <5>1. others["tts"] - 1 \in 0..MaxConcurrent
          BY <1>4, <1>5, <4>3
        <5> QED
          BY <1>4, <3>1, <4>3, <5>1
      <4> QED
        BY <3>3, <4>1, <4>2, <4>3 DEF OthersRelease
    <3> QED
      BY <3>2, <3>3
  <2>2. /\ permits' = MaxConcurrent - others'["permits"] - Cardinality(InSession)
        /\ stt' = others'["stt"] + Cardinality(Transcribing)
        /\ tts' = others'["tts"] + Cardinality(Synthesizing)
    <3>1. CASE OthersAcquire
      BY <1>4, <1>5, <3>1 DEF OthersAcquire
    <3>2. CASE OthersRelease
      BY <1>4, <1>5, <3>2 DEF OthersRelease
    <3> QED
      BY <3>1, <3>2
  <2>3. permits' \in 0..MaxConcurrent /\ stt' \in 0..MaxConcurrent /\ tts' \in 0..MaxConcurrent
    <3>1. CASE OthersAcquire
      BY <1>4, <1>5, <3>1 DEF OthersAcquire
    <3>2. CASE OthersRelease
      BY <1>4, <1>5, <3>2 DEF OthersRelease
    <3> QED
      BY <3>1, <3>2
  <2> QED
    BY <2>1, <2>2, <2>3
<1>7. TypeOK'
  <2>1. others' \in [Shared -> 0..MaxConcurrent]
    BY <1>6
  <2> QED
    BY <1>1, <1>6, <2>1 DEF TypeOK, taskVars, clientVars
<1>8. SlotsConserved'
  BY <1>2, <1>6 DEF SlotsConserved
<1> QED
  BY <1>3, <1>7, <1>8 DEF SessionInv

-----------------------------------------------------------------------------
LEMMA SessionInvInit == Init => SessionInv
<1> SUFFICES ASSUME Init PROVE SessionInv
  OBVIOUS
<1>1. TypeOK
  <2>1. Fresh \in SessionState
    BY DEF Fresh, SessionState, Modes, Failures
  <2>2. <<>> \in Seq(Events)
    BY EventBursts
  <2> QED
    BY <2>1, <2>2, SessionAssumption DEF Init, TypeOK, Errors
<1>2. SlotsConserved
  <2>1. InSession = {} /\ Transcribing = {} /\ Synthesizing = {}
    BY DEF Init, InSession, Transcribing, Synthesizing, Live, InLoop, Fresh
  <2>2. Cardinality({}) = 0
    BY FS_EmptySet
  <2>3. "permits" \in Shared /\ "stt" \in Shared /\ "tts" \in Shared
    BY DEF Shared
  <2> QED
    BY <2>1, <2>2, <2>3, SessionAssumption DEF Init, SlotsConserved
<1>3. TranscriberMatchesMode
  BY DEF Init, TranscriberMatchesMode, TranscriberFits, Resumes
<1> QED
  BY <1>1, <1>2, <1>3 DEF SessionInv

LEMMA SessionInvStep == SessionInv /\ [Next]_vars => SessionInv'
<1> SUFFICES ASSUME SessionInv, [Next]_vars PROVE SessionInv'
  OBVIOUS
<1>1. ASSUME NEW s \in Sessions, OpenStep(s) \/ UpgradeStep(s)
      PROVE  SessionInv'
  BY <1>1, OpenKeeps DEF OpenStep, UpgradeStep
<1>2. ASSUME NEW s \in Sessions, LoopStep(s)
      PROVE  SessionInv'
  BY <1>2, LoopKeeps, StartSttKeeps, CommitKeeps DEF LoopStep
<1>3. ASSUME NEW s \in Sessions, WorkingStep(s)
      PROVE  SessionInv'
  BY <1>3, WorkingKeeps DEF WorkingStep
<1>4. ASSUME NEW s \in Sessions, SendStep(s) \/ Timeout(s) \/ CloseStep(s)
      PROVE  SessionInv'
  BY <1>4, SendKeeps, CloseKeeps DEF CloseStep
<1>5. ASSUME NEW s \in Sessions, WorkerStep(s)
      PROVE  SessionInv'
  BY <1>5, WorkerKeeps DEF WorkerStep
<1>6. ASSUME NEW s \in Sessions, ClientChanges(s) \/ Expire(s)
      PROVE  SessionInv'
  BY <1>6, OutsideKeeps
<1>7. CASE UNCHANGED vars
  BY <1>7 DEF vars, taskVars, clientVars, engineVars, SessionInv, TypeOK, SlotsConserved,
              InSession, Transcribing, Synthesizing, TranscriberMatchesMode, TranscriberFits,
              Resumes, Is
<1> QED
  BY <1>1, <1>2, <1>3, <1>4, <1>5, <1>6, <1>7, OthersKeep DEF Next

(***************************************************************************)
(* Session permits and engine slots are conserved, and a session that goes *)
(* on has a transcriber exactly while audio may come, whatever its clients *)
(* send and however its sessions end (websocket_session, websocket_loop    *)
(* and handle_client_event).                                               *)
(***************************************************************************)
THEOREM SessionInvariant == Spec => []SessionInv
  BY SessionInvInit, SessionInvStep, PTL DEF Spec

-----------------------------------------------------------------------------
(***************************************************************************)
(* The protocol.  What a step does to the point one session has reached    *)
(* does not concern the other sessions.                                    *)
(***************************************************************************)
Apart(q) ==
  /\ pc'[q] = pc[q] /\ session'[q] = session[q] /\ outbox'[q] = outbox[q]
  /\ after'[q] = after[q] /\ client'[q] = client[q] /\ closed'[q] = closed[q]
  /\ heard'[q] = heard[q] /\ reported'[q] = reported[q]

LEMMA OneProtocol ==
  ASSUME ProtocolInv, NEW s \in Sessions, ProtocolFits(s)',
         \A q \in Sessions \ {s} : Apart(q)
  PROVE  ProtocolInv'
BY DEF ProtocolInv, ProtocolFits, LastWords, Expected, Apart

LEMMA Bursts ==
  /\ \A x : <<x>> # <<>> /\ Head(<<x>>) = x /\ Tail(<<x>>) = <<>>
  /\ \A x, y : <<x, y>> # <<>> /\ Head(<<x, y>>) = x /\ Tail(<<x, y>>) = <<y>>
  /\ \A x, y, z : /\ <<x, y, z>> # <<>> /\ Head(<<x, y, z>>) = x
                  /\ Tail(<<x, y, z>>) = <<y, z>>
  /\ \A x, y, z, w : /\ <<x, y, z, w>> # <<>> /\ Head(<<x, y, z, w>>) = x
                     /\ Tail(<<x, y, z, w>>) = <<y, z, w>>
OBVIOUS

(***************************************************************************)
(* Delivering the first of the events under way leads on to the same       *)
(* point, and that event is no error.                                      *)
(***************************************************************************)
LEMMA LeadsOn ==
  ASSUME NEW from, NEW events, NEW to \in {"nothing", "ready", "completed"},
         Leads(from, events, to), events # <<>>
  PROVE  /\ Leads(Follows(from, Head(events)), Tail(events), to)
         /\ Head(events) \notin Errors
<1>1. CASE \E e \in {"pong", "ws_pong"} : events = <<e>> /\ from = to
  BY <1>1, Bursts DEF Follows, Leads, Errors, ProtocolErrors, Failures
<1>2. CASE events = <<"session_ready">> /\ from = "nothing" /\ to = "ready"
  BY <1>2, Bursts DEF Follows, Leads, Errors, ProtocolErrors, Failures
<1>3. CASE /\ \E e \in {"interim", "final"} : events = <<e>>
           /\ from = "ready" /\ to = "ready"
  BY <1>3, Bursts DEF Follows, Leads, Errors, ProtocolErrors, Failures
<1>4. CASE events = <<"final", "interim">> /\ from = "ready" /\ to = "ready"
  BY <1>4, Bursts DEF Follows, Leads, Errors, ProtocolErrors, Failures
<1>5. CASE events = <<"final", "session_completed">> /\ from = "ready" /\ to = "completed"
  BY <1>5, Bursts DEF Follows, Leads, Errors, ProtocolErrors, Failures
<1>6. CASE events = <<"session_completed">> /\ from = "ready" /\ to = "completed"
  BY <1>6, Bursts DEF Follows, Leads, Errors, ProtocolErrors, Failures
<1>7. CASE /\ events = <<"speech_metadata", "chunk", "chunk", "speech_completed">>
           /\ from = "ready" /\ to = "completed"
  BY <1>7, Bursts DEF Follows, Leads, Errors, ProtocolErrors, Failures
<1>8. CASE /\ events = <<"chunk", "chunk", "speech_completed">>
           /\ from = "audio" /\ to = "completed"
  BY <1>8, Bursts DEF Follows, Leads, Errors, ProtocolErrors, Failures
<1>9. CASE events = <<"chunk", "speech_completed">> /\ from = "audio" /\ to = "completed"
  BY <1>9, Bursts DEF Follows, Leads, Errors, ProtocolErrors, Failures
<1>10. CASE events = <<"speech_completed">> /\ from = "audio" /\ to = "completed"
  BY <1>10, Bursts DEF Follows, Leads, Errors, ProtocolErrors, Failures
<1> QED
  BY <1>1, <1>2, <1>3, <1>4, <1>5, <1>6, <1>7, <1>8, <1>9, <1>10 DEF Leads

(***************************************************************************)
(* Nothing under way: the client is where the session is.                  *)
(***************************************************************************)
LEMMA LeadsNowhere ==
  ASSUME NEW from, NEW to, Leads(from, <<>>, to)
  PROVE  from = to
BY Bursts DEF Leads

-----------------------------------------------------------------------------
(***************************************************************************)
(* A handler that leaves events to be sent, and returns to where it was.   *)
(***************************************************************************)
LEMMA PointHere ==
  ASSUME SessionInv, ProtocolInv, NEW s \in Sessions
  PROVE  /\ TypeOK /\ TranscriberFits(s) /\ ProtocolFits(s)
         /\ pc[s] = "loop" => Ready(session[s], worker[s])
         /\ pc[s] \in {"loop", "working"} =>
              /\ heard[s] = Expected(s) /\ reported[s] = "none" /\ closed[s] = "none"
         /\ Expected(s) \in {"nothing", "ready", "completed"}
BY ReadyHere DEF SessionInv, TranscriberMatchesMode, ProtocolInv, ProtocolFits, Expected

\* What it takes for a step to be one of session s alone.
SaysOnly(s) ==
  /\ \A q \in Sessions \ {s} : session'[q] = session[q]
  /\ UNCHANGED <<client, closed, heard, reported>>

LEMMA SaidEvents ==
  ASSUME TypeOK, NEW s \in Sessions, NEW events, NEW next, Say(s, events, next), SaysOnly(s)
  PROVE  /\ pc'[s] = "sending" /\ outbox'[s] = events /\ after'[s] = next
         /\ client'[s] = client[s] /\ closed'[s] = closed[s]
         /\ heard'[s] = heard[s] /\ reported'[s] = reported[s]
         /\ \A q \in Sessions \ {s} : Apart(q)
BY Typed DEF Say, SaysOnly, Apart

LEMMA SaysOn ==
  ASSUME SessionInv, ProtocolInv, NEW s \in Sessions, pc[s] \in {"loop", "working"},
         NEW events, NEW next \in {"loop", "working"}, Say(s, events, next), SaysOnly(s),
         Leads(Expected(s), events, Expected(s)')
  PROVE  ProtocolInv'
<1>1. next \notin CloseCodes
  BY DEF CloseCodes
<1>2. ProtocolFits(s)'
  BY <1>1, PointHere, SaidEvents DEF ProtocolFits
<1> QED
  BY <1>2, OneProtocol, PointHere, SaidEvents

\* The last words of a handler that leaves the loop.
Farewell(events, code) ==
  \/ events = <<>> /\ Agreed("none", code)
  \/ \E event \in Errors \cup {"cancelled_event"} :
       /\ events = <<event>>
       /\ Agreed(IF event \in Errors THEN event ELSE "none", code)

LEMMA SaysFarewell ==
  ASSUME SessionInv, ProtocolInv, NEW s \in Sessions, pc[s] \in {"loop", "working"},
         NEW events, NEW code \in CloseCodes, Say(s, events, code), SaysOnly(s),
         Farewell(events, code)
  PROVE  ProtocolInv'
<1>1. code \notin {"loop", "working"}
  BY DEF CloseCodes
<1>2. heard'[s] \in {"nothing", "ready", "completed"} /\ reported'[s] = "none"
  BY PointHere, SaidEvents
<1>3. LastWords(s)'
  BY <1>2, PointHere, SaidEvents DEF Farewell, LastWords
<1>4. ProtocolFits(s)'
  BY <1>1, <1>3, PointHere, SaidEvents DEF ProtocolFits
<1> QED
  BY <1>4, OneProtocol, PointHere, SaidEvents

LEMMA Farewells ==
  /\ \A code \in {"1000", "1002"} : code \in CloseCodes /\ Farewell(<<>>, code)
  /\ Farewell(<<"cancelled_event">>, "1000")
  /\ \A code \in ProtocolErrors : Farewell(<<code>>, "1002")
  /\ \A error \in Failures \ {"none"} :
       CloseCode(error) \in CloseCodes /\ Farewell(<<error>>, CloseCode(error))
<1>1. \A code \in {"1000", "1002"} : code \in CloseCodes /\ Agreed("none", code)
  BY DEF CloseCodes, Agreed
<1>2. "cancelled_event" \notin Errors
  BY DEF Errors, ProtocolErrors, Failures
<1>3. \A code \in ProtocolErrors : code \in Errors /\ Agreed(code, "1002")
  BY DEF Errors, ProtocolErrors, Agreed, CloseCode
<1>4. \A error \in Failures \ {"none"} :
         error \in Errors /\ CloseCode(error) \in CloseCodes /\ Agreed(error, CloseCode(error))
  BY DEF Errors, Failures, Agreed, CloseCode, CloseCodes
<1> QED
  BY <1>1, <1>2, <1>3, <1>4 DEF Farewell

LEMMA RefusalFits ==
  ASSUME SessionInv, ProtocolInv, NEW s \in Sessions, pc[s] \in {"loop", "working"},
         \/ \E code \in ProtocolErrors : Reject(s, code)
         \/ \E error \in Failures \ {"none"} : FailBackend(s, error),
         UNCHANGED loopRest
  PROVE  ProtocolInv'
<1>1. SaysOnly(s)
  BY PointHere, Typed DEF Reject, FailBackend, SaysOnly, loopRest, clientVars
<1>2. ASSUME NEW code \in ProtocolErrors, Reject(s, code)
      PROVE  ProtocolInv'
  <2>1. /\ Say(s, <<code>>, "1002") /\ "1002" \in CloseCodes
        /\ Farewell(<<code>>, "1002")
    BY <1>2, Farewells DEF Reject
  <2> QED
    BY <1>1, <2>1, SaysFarewell
<1>3. ASSUME NEW error \in Failures \ {"none"}, FailBackend(s, error)
      PROVE  ProtocolInv'
  <2>1. /\ Say(s, <<error>>, CloseCode(error)) /\ CloseCode(error) \in CloseCodes
        /\ Farewell(<<error>>, CloseCode(error))
    BY <1>3, Farewells DEF FailBackend
  <2> QED
    BY <1>1, <2>1, SaysFarewell
<1> QED
  BY <1>2, <1>3

-----------------------------------------------------------------------------
(***************************************************************************)
(* The loop.                                                               *)
(***************************************************************************)
\* Where the guards of the handler say the client is.
LEMMA Whereabouts ==
  ASSUME NEW s \in Sessions
  PROVE  /\ session[s].mode = "none" => Expected(s) = "nothing"
         /\ Is(s, "stt") \/ Is(s, "tts") => Expected(s) = "ready"
BY DEF Is, Expected

LEMMA Callable == \A s \in Sessions : CallErrors(s) \subseteq Failures \ {"none"}
BY DEF CallErrors, Failures

LEMMA StartFits ==
  ASSUME SessionInv, ProtocolInv, NEW s \in Sessions, StartStt(s) \/ StartTts(s)
  PROVE  ProtocolInv'
<1>1. /\ pc[s] \in {"loop", "working"} /\ pc[s] = "loop" /\ Ready(session[s], worker[s])
      /\ Expected(s) = "nothing" /\ UNCHANGED loopRest
      /\ session \in [Sessions -> SessionState]
  BY PointHere, Whereabouts, Typed DEF StartStt, StartTts, AtEvent, AtLoop
<1>2. CASE \E error \in Failures \ {"none"} : FailBackend(s, error)
  BY <1>1, <1>2, RefusalFits
<1>3. CASE /\ Say(s, <<"session_ready">>, "loop")
           /\ \/ session' = [session EXCEPT ![s].mode = "stt", ![s].transcriber = TRUE]
              \/ session' = [session EXCEPT ![s].mode = "tts"]
  <2>1. session[s] \in SessionState /\ session[s].mode = "none"
    BY <1>1 DEF StartStt, StartTts, AtEvent
  <2>2. ~session[s].completed
    BY <1>1, <2>1 DEF Ready
  <2>3. Expected(s)' = "ready"
    BY <1>1, <1>3, <2>1, <2>2 DEF Expected, SessionState
  <2>4. Leads(Expected(s), <<"session_ready">>, Expected(s)')
    BY <1>1, <2>3 DEF Leads
  <2>5. SaysOnly(s)
    BY <1>1, <1>3 DEF SaysOnly, loopRest, clientVars
  <2> QED
    BY <1>1, <1>3, <2>4, <2>5, SaysOn
<1> QED
  BY <1>2, <1>3, Callable DEF StartStt, StartTts, Failures

LEMMA AudioFits ==
  ASSUME SessionInv, ProtocolInv, NEW s \in Sessions, AudioFrame(s)
  PROVE  ProtocolInv'
<1>1. /\ pc[s] \in {"loop", "working"} /\ Ready(session[s], worker[s]) /\ session[s].pending
      /\ UNCHANGED loopRest /\ session \in [Sessions -> SessionState]
  BY PointHere, Typed DEF AudioFrame, AtLoop
<1>2. Expected(s) = "ready"
  BY <1>1 DEF Ready, Expected
<1>3. CASE /\ \E updates \in {<<>>, <<"interim">>, <<"final">>, <<"final", "interim">>} :
                Say(s, updates, "loop")
           /\ session' = [session EXCEPT ![s].pending = FALSE]
  <2>1. Expected(s)' = Expected(s)
    BY <1>1, <1>3 DEF Expected, SessionState
  <2>2. PICK updates \in {<<>>, <<"interim">>, <<"final">>, <<"final", "interim">>} :
          Say(s, updates, "loop")
    BY <1>3
  <2>3. Leads(Expected(s), updates, Expected(s)')
    BY <1>2, <2>1 DEF Leads
  <2>4. SaysOnly(s)
    BY <1>1, <1>3 DEF SaysOnly, loopRest, clientVars
  <2> QED
    BY <1>1, <2>2, <2>3, <2>4, SaysOn
<1>4. CASE (\E error \in CallErrors(s) : FailBackend(s, error)) \/ Reject(s, "audio_frame_invalid")
  BY <1>1, <1>4, RefusalFits, Callable DEF ProtocolErrors
<1> QED
  BY <1>3, <1>4 DEF AudioFrame

LEMMA CommitFits ==
  ASSUME SessionInv, ProtocolInv, NEW s \in Sessions, Commit(s)
  PROVE  ProtocolInv'
<1>1. /\ pc[s] \in {"loop", "working"} /\ Is(s, "stt") /\ Expected(s) = "ready"
      /\ UNCHANGED loopRest /\ session \in [Sessions -> SessionState]
  BY PointHere, Typed, Whereabouts DEF Commit, AtEvent, AtLoop
<1>2. CASE /\ Say(s, <<"final", "session_completed">>, "loop")
           /\ session' = [session EXCEPT ![s].transcriber = FALSE, ![s].completed = TRUE]
  <2>1. Expected(s)' = "completed"
    BY <1>1, <1>2 DEF Expected, Is, SessionState
  <2>2. Leads(Expected(s), <<"final", "session_completed">>, Expected(s)')
    BY <1>1, <2>1 DEF Leads
  <2>3. SaysOnly(s)
    BY <1>1, <1>2 DEF SaysOnly, loopRest, clientVars
  <2> QED
    BY <1>1, <1>2, <2>2, <2>3, SaysOn
<1>3. ASSUME NEW error \in CallErrors(s), Say(s, <<error>>, CloseCode(error)),
             session' = [session EXCEPT ![s].transcriber = FALSE, ![s].failure = error]
      PROVE  ProtocolInv'
  <2>1. SaysOnly(s)
    BY <1>1, <1>3 DEF SaysOnly, loopRest, clientVars
  <2>2. CloseCode(error) \in CloseCodes /\ Farewell(<<error>>, CloseCode(error))
    BY Farewells, Callable
  <2> QED
    BY <1>1, <1>3, <2>1, <2>2, SaysFarewell
<1> QED
  BY <1>2, <1>3 DEF Commit

LEMMA PingFits ==
  ASSUME SessionInv, ProtocolInv, NEW s \in Sessions, Ping(s) \/ WsPing(s) \/ PingWorking(s)
  PROVE  ProtocolInv'
<1>1. /\ UNCHANGED session /\ UNCHANGED loopRest /\ pc[s] \in {"loop", "working"}
      /\ \E event \in {"pong", "ws_pong"}, next \in {"loop", "working"} :
           Say(s, <<event>>, next)
  BY DEF Ping, WsPing, PingWorking, AtEvent, AtLoop
<1>2. Expected(s)' = Expected(s) /\ SaysOnly(s)
  BY <1>1 DEF Expected, SaysOnly, loopRest, clientVars
<1>3. \A event \in {"pong", "ws_pong"} : Leads(Expected(s), <<event>>, Expected(s)')
  BY <1>2 DEF Leads
<1> QED
  BY <1>1, <1>2, <1>3, SaysOn

LEMMA PartingFits ==
  ASSUME SessionInv, ProtocolInv, NEW s \in Sessions,
         Cancel(s) \/ Hangup(s) \/ ReceiveFails(s) \/ Interrupt(s)
  PROVE  ProtocolInv'
<1>1. /\ UNCHANGED session /\ UNCHANGED loopRest /\ pc[s] \in {"loop", "working"}
  BY DEF Cancel, Hangup, ReceiveFails, Interrupt, Abandon, AtEvent, AtLoop
<1>2. SaysOnly(s)
  BY <1>1 DEF SaysOnly, loopRest, clientVars
<1>3. \/ \E code \in {"1000", "1002"} : Say(s, <<>>, code)
      \/ Say(s, <<"cancelled_event">>, "1000")
      \/ \E code \in ProtocolErrors : Say(s, <<code>>, "1002")
  BY DEF Cancel, Hangup, ReceiveFails, Interrupt, Abandon, ProtocolErrors
<1>4. CASE \E code \in {"1000", "1002"} : Say(s, <<>>, code)
  BY <1>1, <1>2, <1>4, Farewells, SaysFarewell
<1>5. CASE Say(s, <<"cancelled_event">>, "1000")
  BY <1>1, <1>2, <1>5, Farewells, SaysFarewell
<1>6. CASE \E code \in ProtocolErrors : Say(s, <<code>>, "1002")
  BY <1>1, <1>2, <1>6, Farewells, SaysFarewell
<1> QED
  BY <1>3, <1>4, <1>5, <1>6

LEMMA SynthesisFits ==
  ASSUME SessionInv, ProtocolInv, NEW s \in Sessions, Synthesized(s) \/ SynthesisFailed(s)
  PROVE  ProtocolInv'
<1>1. /\ pc[s] = "working" /\ pc[s] \in {"loop", "working"} /\ UNCHANGED loopRest
      /\ session \in [Sessions -> SessionState]
  BY PointHere, Typed DEF Synthesized, SynthesisFailed
<1>2. Is(s, "tts") /\ Expected(s) = "ready"
  BY <1>1, PointHere, Whereabouts DEF TranscriberFits, Resumes
<1>3. CASE Synthesized(s)
  <2>1. Expected(s)' = "completed"
    BY <1>1, <1>2, <1>3 DEF Expected, Is, SessionState, Synthesized
  <2>2. Leads(Expected(s), <<"speech_metadata", "chunk", "chunk", "speech_completed">>,
              Expected(s)')
    BY <1>2, <2>1 DEF Leads
  <2>3. SaysOnly(s)
    BY <1>1, <1>3 DEF SaysOnly, loopRest, clientVars, Synthesized
  <2> QED
    BY <1>1, <1>3, <2>2, <2>3, SaysOn DEF Synthesized
<1>4. CASE SynthesisFailed(s)
  BY <1>1, <1>4, RefusalFits DEF SynthesisFailed, Outcomes
<1> QED
  BY <1>3, <1>4

\* Rejected messages.
LEMMA RejectedFits ==
  ASSUME SessionInv, ProtocolInv, NEW s \in Sessions,
         TextInsteadOfAudio(s) \/ StartWithWrongRate(s) \/ AudioUndeclared(s) \/ BadEvent(s)
  PROVE  ProtocolInv'
<1>1. pc[s] \in {"loop", "working"} /\ UNCHANGED loopRest
  BY DEF TextInsteadOfAudio, StartWithWrongRate, AudioUndeclared, BadEvent, AtEvent, AtLoop
<1>2. \E code \in ProtocolErrors : Reject(s, code)
  BY DEF TextInsteadOfAudio, StartWithWrongRate, AudioUndeclared, BadEvent, ProtocolErrors
<1> QED
  BY <1>1, <1>2, RefusalFits

\* Steps that send nothing and stay where the protocol is.
LEMMA SilentFits ==
  ASSUME SessionInv, ProtocolInv, NEW s \in Sessions, DeclareAudio(s) \/ Generate(s)
  PROVE  ProtocolInv'
<1>1. /\ pc[s] = "loop" /\ pc'[s] \in {"loop", "working"}
      /\ UNCHANGED <<outbox, after, client, closed, heard, reported>>
      /\ Expected(s)' = Expected(s)
      /\ \A q \in Sessions \ {s} : Apart(q)
  <2>1. pc \in [Sessions -> Live \cup {"idle", "done"}] /\ session \in [Sessions -> SessionState]
    BY PointHere, Typed
  <2>2. CASE DeclareAudio(s)
    BY <2>1, <2>2 DEF DeclareAudio, AtEvent, AtLoop, Expected, SessionState, Apart, loopRest,
                     clientVars
  <2>3. CASE Generate(s)
    BY <2>1, <2>3 DEF Generate, AtEvent, AtLoop, Expected, Apart, loopRest, clientVars
  <2> QED
    BY <2>2, <2>3
<1>2. ProtocolFits(s)'
  BY <1>1, PointHere DEF ProtocolFits
<1> QED
  BY <1>1, <1>2, OneProtocol

LEMMA OpeningFits ==
  ASSUME SessionInv, ProtocolInv, NEW s \in Sessions, OpenStep(s) \/ UpgradeStep(s)
  PROVE  ProtocolInv'
<1>1. /\ pc[s] \in {"idle", "upgrading"} /\ pc'[s] \in {"upgrading", "done", "loop"}
      /\ UNCHANGED <<session, outbox, after, client, closed, heard, reported>>
      /\ \A q \in Sessions \ {s} : Apart(q)
  BY PointHere, Typed DEF OpenStep, UpgradeStep, Connect, Refused, Upgraded, UpgradeFails, Apart,
                         clientVars
<1>2. heard[s] = "nothing" /\ reported[s] = "none" /\ closed[s] = "none" /\ Expected(s)' = "nothing"
  BY <1>1, PointHere DEF ProtocolFits, TranscriberFits, Expected, Fresh
<1>3. ProtocolFits(s)'
  BY <1>1, <1>2 DEF ProtocolFits
<1> QED
  BY <1>1, <1>3, OneProtocol

\* Steps that do not touch what the protocol is about.
LEMMA ElsewhereFits ==
  ASSUME ProtocolInv,
         UNCHANGED <<pc, session, outbox, after, client, closed, heard, reported>>
  PROVE  ProtocolInv'
BY DEF ProtocolInv, ProtocolFits, LastWords, Expected

LEMMA ClientFits ==
  ASSUME SessionInv, ProtocolInv, NEW s \in Sessions, ClientChanges(s)
  PROVE  ProtocolInv'
<1>1. /\ UNCHANGED <<pc, session, outbox, after, closed, heard, reported>>
      /\ client'[s] # "gone" => client[s] # "gone"
      /\ \A q \in Sessions \ {s} : Apart(q)
  BY PointHere, Typed DEF ClientChanges, Apart, taskVars
<1>2. ProtocolFits(s)'
  BY <1>1, PointHere DEF ProtocolFits, LastWords, Expected
<1> QED
  BY <1>1, <1>2, OneProtocol

-----------------------------------------------------------------------------
(***************************************************************************)
(* Sending and closing.                                                    *)
(***************************************************************************)
\* Nobody is ever in disorder.
LEMMA InOrder ==
  ASSUME SessionInv, ProtocolInv, NEW s \in Sessions
  PROVE  heard[s] # "disorder"
<1>1. pc[s] \in Live \cup {"idle", "done"} /\ after[s] \in {"loop", "working"} \cup CloseCodes
  BY PointHere, Typed
<1>2. CASE pc[s] = "sending" /\ after[s] \in {"loop", "working"}
  BY <1>2, PointHere DEF ProtocolFits, Leads
<1>3. CASE pc[s] = "sending" /\ after[s] \in CloseCodes
  BY <1>3, PointHere DEF ProtocolFits, LastWords
<1>4. CASE pc[s] # "sending"
  BY <1>1, <1>4, PointHere DEF ProtocolFits, Live, InLoop
<1> QED
  BY <1>1, <1>2, <1>3, <1>4

LEMMA LastWordsDelivered ==
  ASSUME NEW s \in Sessions, TypeOK, LastWords(s), Deliver(s)
  PROVE  LastWords(s)'
<1>1. PICK event \in Errors \cup {"cancelled_event"} :
        /\ outbox[s] = <<event>>
        /\ heard[s] = "ended" => event = "deadline_exceeded"
        /\ Agreed(IF event \in Errors THEN event ELSE reported[s], after[s])
  BY DEF LastWords, Deliver
<1>2. Head(outbox[s]) = event /\ Tail(outbox[s]) = <<>>
  BY <1>1, Bursts
<1>3. outbox'[s] = <<>> /\ after'[s] = after[s]
  BY <1>2, Typed DEF Deliver
<1>4. reported'[s] = IF event \in Errors THEN event ELSE reported[s]
  BY <1>2, Typed DEF Deliver
<1>5. heard'[s] = Follows(heard[s], event)
  BY <1>2, Typed DEF Deliver
<1>6. Follows(heard[s], event) = "ended"
  BY <1>1 DEF Follows, Errors, ProtocolErrors, Failures
<1> QED
  BY <1>1, <1>3, <1>4, <1>5, <1>6 DEF LastWords

LEMMA DeliveryFits ==
  ASSUME SessionInv, ProtocolInv, NEW s \in Sessions, Send(s) \/ CloseReport(s)
  PROVE  ProtocolInv'
<1>1. /\ Deliver(s) /\ pc[s] \in {"sending", "closing"} /\ client[s] # "gone" /\ outbox[s] # <<>>
      /\ UNCHANGED <<pc, session, after, client, closed>>
      /\ TypeOK
  BY PointHere DEF Send, CloseReport, Deliver
<1>2. /\ outbox'[s] = Tail(outbox[s]) /\ heard'[s] = Follows(heard[s], Head(outbox[s]))
      /\ Head(outbox[s]) \notin Errors => reported'[s] = reported[s]
      /\ \A q \in Sessions \ {s} : Apart(q)
  BY <1>1, Typed DEF Deliver, Apart
<1>3. CASE pc[s] = "sending" /\ after[s] \in {"loop", "working"}
  <2>1. Leads(heard[s], outbox[s], Expected(s)) /\ reported[s] = "none" /\ closed[s] = "none"
    BY <1>3, PointHere DEF ProtocolFits
  <2>2. /\ Leads(Follows(heard[s], Head(outbox[s])), Tail(outbox[s]), Expected(s))
        /\ Head(outbox[s]) \notin Errors
    BY <1>1, <2>1, PointHere, LeadsOn
  <2>3. Expected(s)' = Expected(s)
    BY <1>1 DEF Expected
  <2>4. after[s] \notin CloseCodes
    BY <1>3 DEF CloseCodes
  <2>5. ProtocolFits(s)'
    BY <1>1, <1>2, <1>3, <2>1, <2>2, <2>3, <2>4 DEF ProtocolFits
  <2> QED
    BY <1>2, <2>5, OneProtocol
<1>4. CASE pc[s] = "closing" \/ after[s] \in CloseCodes
  <2>1. LastWords(s) /\ after[s] \in CloseCodes /\ closed[s] = "none"
    BY <1>1, <1>4, PointHere DEF ProtocolFits, TranscriberFits
  <2>2. LastWords(s)'
    BY <1>1, <2>1, LastWordsDelivered
  <2>3. heard'[s] # "disorder"
    BY <2>2 DEF LastWords
  <2>4. after[s] \notin {"loop", "working"}
    BY <2>1 DEF CloseCodes
  <2>5. ProtocolFits(s)'
    BY <1>1, <2>1, <2>2, <2>3, <2>4 DEF ProtocolFits
  <2> QED
    BY <1>2, <2>5, OneProtocol
<1> QED
  BY <1>1, <1>3, <1>4, Typed

\* Leaving the loop, with what is left to say agreeing with the close code.
LEMMA LeaveFits ==
  ASSUME SessionInv, ProtocolInv, NEW s \in Sessions, NEW code \in CloseCodes, NEW events,
         Leave(s, code, events), pc[s] \in InLoop,
         client[s] # "gone" => LastWords(s)'
  PROVE  ProtocolInv'
<1>1. /\ pc'[s] = "closing" /\ UNCHANGED <<session, client, closed, heard, reported>>
      /\ \A q \in Sessions \ {s} : Apart(q)
  BY PointHere, Typed DEF Leave, Apart, clientVars
<1>2. closed[s] = "none"
  BY PointHere DEF ProtocolFits, InLoop
<1>3. ProtocolFits(s)'
  BY <1>1, <1>2, InOrder DEF ProtocolFits
<1> QED
  BY <1>1, <1>3, OneProtocol

LEMMA SendEndsFit ==
  ASSUME SessionInv, ProtocolInv, NEW s \in Sessions, SendFails(s) \/ Sent(s) \/ Timeout(s)
  PROVE  ProtocolInv'
<1>1. TypeOK /\ pc[s] \in InLoop /\ session[s] \in SessionState
  BY PointHere, ReadyHere DEF SendFails, Sent, Timeout, InLoop
<1>2. CASE SendFails(s)
  <2>1. CloseCode(session[s].failure) \in CloseCodes
    BY <1>1, EventNames DEF SessionState
  <2> QED
    BY <1>1, <1>2, <2>1, LeaveFits DEF SendFails
<1>3. CASE Timeout(s)
  <2>1. Leave(s, "1008", <<"deadline_exceeded">>) /\ "1008" \in CloseCodes
    BY <1>3 DEF Timeout, CloseCodes
  <2>2. /\ outbox'[s] = <<"deadline_exceeded">> /\ after'[s] = "1008"
        /\ heard'[s] = heard[s]
    BY <1>1, <2>1, Typed DEF Leave, clientVars
  <2>3. "deadline_exceeded" \in Errors /\ Agreed("deadline_exceeded", "1008")
    BY DEF Errors, Failures, Agreed, CloseCode
  <2>4. LastWords(s)'
    BY <2>2, <2>3, InOrder DEF LastWords
  <2> QED
    BY <1>1, <2>1, <2>4, LeaveFits
<1>4. CASE Sent(s) /\ after[s] \in CloseCodes
  <2>1. Leave(s, after[s], <<>>) /\ LastWords(s) /\ outbox[s] = <<>>
    BY <1>4, PointHere DEF Sent, ProtocolFits
  <2>2. /\ outbox'[s] = <<>> /\ after'[s] = after[s] /\ heard'[s] = heard[s]
        /\ reported'[s] = reported[s]
    BY <1>1, <2>1, Typed DEF Leave, clientVars
  <2>3. LastWords(s)'
    BY <2>1, <2>2, Bursts DEF LastWords
  <2> QED
    BY <1>1, <1>4, <2>1, <2>3, LeaveFits
<1>5. CASE Sent(s) /\ after[s] \notin CloseCodes
  <2>1. /\ after[s] \in {"loop", "working"} /\ outbox[s] = <<>>
        /\ pc[s] = "sending" /\ pc'[s] = after[s]
        /\ UNCHANGED <<session, outbox, after, client, closed, heard, reported>>
        /\ \A q \in Sessions \ {s} : Apart(q)
    BY <1>1, <1>5, Typed DEF Sent, Apart, clientVars
  <2>2. Leads(heard[s], <<>>, Expected(s)) /\ reported[s] = "none" /\ closed[s] = "none"
    BY <2>1, PointHere DEF ProtocolFits
  <2>3. heard[s] = Expected(s) /\ Expected(s)' = Expected(s)
    BY <2>1, <2>2, LeadsNowhere DEF Expected
  <2>4. ProtocolFits(s)'
    BY <2>1, <2>2, <2>3 DEF ProtocolFits
  <2> QED
    BY <2>1, <2>4, OneProtocol
<1> QED
  BY <1>2, <1>3, <1>4, <1>5

LEMMA CloseFits ==
  ASSUME SessionInv, ProtocolInv, NEW s \in Sessions, Close(s)
  PROVE  ProtocolInv'
<1>1. /\ pc[s] = "closing" /\ pc'[s] = "done" /\ UNCHANGED <<heard, reported>>
      /\ closed'[s] = IF client[s] = "gone" THEN "none" ELSE after[s]
      /\ client[s] # "gone" => outbox[s] = <<>>
      /\ \A q \in Sessions \ {s} : Apart(q)
  BY PointHere, Typed DEF Close, Apart
<1>2. client[s] # "gone" => Agreed(reported[s], after[s])
  BY <1>1, PointHere, Bursts DEF ProtocolFits, LastWords
<1>3. ProtocolFits(s)'
  BY <1>1, <1>2, InOrder DEF ProtocolFits
<1> QED
  BY <1>1, <1>3, OneProtocol

-----------------------------------------------------------------------------
LEMMA ProtocolInvInit == Init => ProtocolInv
BY DEF Init, ProtocolInv, ProtocolFits

LEMMA ProtocolInvStep == SessionInv /\ ProtocolInv /\ [Next]_vars => ProtocolInv'
<1> SUFFICES ASSUME SessionInv, ProtocolInv, [Next]_vars PROVE ProtocolInv'
  OBVIOUS
<1>1. ASSUME NEW s \in Sessions, OpenStep(s) \/ UpgradeStep(s)
      PROVE  ProtocolInv'
  BY <1>1, OpeningFits
<1>2. ASSUME NEW s \in Sessions, LoopStep(s)
      PROVE  ProtocolInv'
  BY <1>2, RejectedFits, StartFits, SilentFits, AudioFits, CommitFits, PingFits, PartingFits
     DEF LoopStep
<1>3. ASSUME NEW s \in Sessions, WorkingStep(s)
      PROVE  ProtocolInv'
  BY <1>3, PartingFits, PingFits, SynthesisFits DEF WorkingStep
<1>4. ASSUME NEW s \in Sessions, SendStep(s) \/ Timeout(s) \/ CloseStep(s)
      PROVE  ProtocolInv'
  BY <1>4, DeliveryFits, SendEndsFit, CloseFits DEF SendStep, CloseStep
<1>5. ASSUME NEW s \in Sessions, ClientChanges(s)
      PROVE  ProtocolInv'
  BY <1>5, ClientFits
<1>6. ASSUME \/ \E s \in Sessions : WorkerStep(s) \/ Expire(s)
             \/ OthersAcquire \/ OthersRelease \/ UNCHANGED vars
      PROVE  ProtocolInv'
  BY <1>6, ElsewhereFits DEF WorkerStep, WorkerStart, WorkerEnds, Expire, OthersAcquire,
                             OthersRelease, vars, taskVars, clientVars
<1> QED
  BY <1>1, <1>2, <1>3, <1>4, <1>5, <1>6 DEF Next

(***************************************************************************)
(* Every client gets its events in the promised order, whatever it sends   *)
(* and wherever its session breaks off (send_event and its callers).       *)
(***************************************************************************)
THEOREM EventOrder == Spec => []EventsInOrder
<1>1. SessionInv /\ ProtocolInv => EventsInOrder
  BY InOrder DEF EventsInOrder
<1> QED
  BY <1>1, SessionInvInit, SessionInvStep, ProtocolInvInit, ProtocolInvStep, PTL DEF Spec

(***************************************************************************)
(* The close code tells what the last error event told (websocket_session).*)
(***************************************************************************)
THEOREM CloseAgrees == Spec => []CloseMatchesReport
<1>1. ProtocolInv => CloseMatchesReport
  BY DEF ProtocolInv, ProtocolFits, CloseMatchesReport
<1> QED
  BY <1>1, SessionInvInit, SessionInvStep, ProtocolInvInit, ProtocolInvStep, PTL DEF Spec
=============================================================================
