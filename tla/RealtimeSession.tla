-------------------------- MODULE RealtimeSession --------------------------
(***************************************************************************)
(* The realtime WebSocket endpoint: upgrade under a session permit, the    *)
(* message loop with its event protocol, the synthesis worker that runs    *)
(* beside the loop, the session timer around both, and the close.          *)
(* Sessions compete with each other for the session permits, and with      *)
(* batch requests and RPCs for the two engines.  A client sends anything   *)
(* at any time, may stop reading, and may go away.                         *)
(***************************************************************************)
EXTENDS Integers, Sequences, FiniteSets

CONSTANTS
  Sessions,       \* clients, each of which tries to open one session
  MaxConcurrent   \* max_concurrent_requests: session permits and engine slots

ASSUME SessionAssumption ==
  /\ IsFiniteSet(Sessions)
  /\ MaxConcurrent \in Nat \ {0}

VARIABLES
  pc,         \* where the session task is
  session,    \* SessionState
  outbox,     \* what the task is sending, and
  after,      \* where it goes when that is sent
  token,      \* the session's CancellationToken is cancelled
  expired,    \* its deadline has passed
  client,     \* what the client does with its side of the socket
  closed,     \* the code of the close frame the client got
  heard,      \* how far the client has followed the protocol
  reported,   \* the last error event it got
  worker,     \* the blocking synthesis
  permits,    \* free permits of ApiState.sessions
  stt, tts,   \* Limiter.active of the engines
  others      \* how many permits and slots are with everybody else

taskVars == <<pc, session, outbox, after, token>>
clientVars == <<client, closed, heard, reported>>
engineVars == <<stt, tts, others>>
vars == <<taskVars, expired, clientVars, worker, permits, engineVars>>

Modes == {"none", "stt", "tts"}
Failures == {"none", "invalid_request", "overloaded", "cancelled",
             "deadline_exceeded", "engine_error"}
ProtocolErrors == {"audio_frame_expected", "invalid_json", "audio_declaration_required",
                   "audio_frame_invalid", "sample_rate_required",
                   "sample_rate_not_allowed", "invalid_sequence"}
Errors == ProtocolErrors \cup (Failures \ {"none"})
Events == Errors \cup {"session_ready", "interim", "final", "session_completed",
                       "speech_metadata", "chunk", "speech_completed",
                       "pong", "ws_pong", "cancelled_event"}
CloseCodes == {"1000", "1002", "1008", "1011", "1013"}
Outcomes == {"ok"} \cup (Failures \ {"none"})

InLoop == {"loop", "sending", "working"}
Live == InLoop \cup {"upgrading", "closing"}

\* Text messages that are events, by what the handler tells apart.
Starts == {"start_stt", "start_stt_without_rate", "start_tts", "start_tts_with_rate"}
Text == Starts \cup {"append", "append_out_of_bounds", "commit", "generate",
                     "cancel", "ping", "close", "not_json"}
Binary == {"exact_frame", "other_frame"}
Control == {"ws_ping", "ws_close"}

SessionState == [mode : Modes, pending : BOOLEAN, transcriber : BOOLEAN,
                 completed : BOOLEAN, failure : Failures]
Fresh == [mode |-> "none", pending |-> FALSE, transcriber |-> FALSE,
          completed |-> FALSE, failure |-> "none"]

\* What the sessions of the model share with all other callers.
Shared == {"permits", "stt", "tts"}

TypeOK ==
  /\ pc \in [Sessions -> Live \cup {"idle", "done"}]
  /\ session \in [Sessions -> SessionState]
  /\ outbox \in [Sessions -> Seq(Events)]
  /\ after \in [Sessions -> {"loop", "working"} \cup CloseCodes]
  /\ token \in [Sessions -> BOOLEAN]
  /\ expired \in [Sessions -> BOOLEAN]
  /\ client \in [Sessions -> {"reading", "stalled", "gone"}]
  /\ closed \in [Sessions -> CloseCodes \cup {"none"}]
  /\ heard \in [Sessions -> {"nothing", "ready", "audio", "completed", "ended", "disorder"}]
  /\ reported \in [Sessions -> Errors \cup {"none"}]
  /\ worker \in [Sessions -> {"none", "queued", "native", "aborted"} \cup Outcomes]
  /\ permits \in 0..MaxConcurrent
  /\ stt \in 0..MaxConcurrent /\ tts \in 0..MaxConcurrent
  /\ others \in [Shared -> 0..MaxConcurrent]

Init ==
  /\ pc = [s \in Sessions |-> "idle"]
  /\ session = [s \in Sessions |-> Fresh]
  /\ outbox = [s \in Sessions |-> <<>>]
  /\ after = [s \in Sessions |-> "loop"]
  /\ token = [s \in Sessions |-> FALSE]
  /\ expired = [s \in Sessions |-> FALSE]
  /\ client = [s \in Sessions |-> "reading"]
  /\ closed = [s \in Sessions |-> "none"]
  /\ heard = [s \in Sessions |-> "nothing"]
  /\ reported = [s \in Sessions |-> "none"]
  /\ worker = [s \in Sessions |-> "none"]
  /\ permits = MaxConcurrent
  /\ stt = 0 /\ tts = 0
  /\ others = [e \in Shared |-> 0]

-----------------------------------------------------------------------------
(***************************************************************************)
(* Opening.  A full house is answered 429 before the upgrade.              *)
(***************************************************************************)
Connect(s) ==
  /\ pc[s] = "idle"
  /\ permits > 0
  /\ permits' = permits - 1
  /\ pc' = [pc EXCEPT ![s] = "upgrading"]
  /\ UNCHANGED <<session, outbox, after, token, expired, clientVars, worker, engineVars>>

Refused(s) ==
  /\ pc[s] = "idle"
  /\ permits = 0
  /\ pc' = [pc EXCEPT ![s] = "done"]
  /\ UNCHANGED <<session, outbox, after, token, expired, clientVars, worker, permits, engineVars>>

Upgraded(s) ==
  /\ pc[s] = "upgrading"
  /\ pc' = [pc EXCEPT ![s] = "loop"]
  /\ UNCHANGED <<session, outbox, after, token, expired, clientVars, worker, permits, engineVars>>

\* The callback that owns the permit is dropped uncalled.
UpgradeFails(s) ==
  /\ pc[s] = "upgrading"
  /\ client[s] = "gone"
  /\ pc' = [pc EXCEPT ![s] = "done"]
  /\ permits' = permits + 1
  /\ UNCHANGED <<session, outbox, after, token, expired, clientVars, worker, engineVars>>

-----------------------------------------------------------------------------
(***************************************************************************)
(* What a handler leaves to be sent, and where it goes then: back to the   *)
(* loop or the worker, or out with a close code.                           *)
(***************************************************************************)
Say(s, events, next) ==
  /\ pc' = [pc EXCEPT ![s] = "sending"]
  /\ outbox' = [outbox EXCEPT ![s] = events]
  /\ after' = [after EXCEPT ![s] = next]

CloseCode(failure) ==
  CASE failure = "overloaded" -> "1013"
    [] failure = "deadline_exceeded" -> "1008"
    [] failure = "engine_error" -> "1011"
    [] OTHER -> "1002"

\* send_error and Err(()): the failure so far, if any, decides the code.
Reject(s, code) ==
  /\ Say(s, <<code>>, "1002")
  /\ session' = [session EXCEPT ![s].pending = FALSE]

\* Bug: the failure is reported and not recorded.
FailBackendUnrecorded(s, error) ==
  /\ Say(s, <<error>>, "1002")
  /\ session' = [session EXCEPT ![s].pending = FALSE]

FailBackend(s, error) ==
  /\ Say(s, <<error>>, CloseCode(error))
  /\ session' = [session EXCEPT ![s].failure = error, ![s].pending = FALSE]

\* What ensure_active makes of a call now, and how a call can fail.
Active(s) == ~token[s] /\ ~expired[s]
CallErrors(s) ==
  IF expired[s] THEN {"deadline_exceeded"} ELSE {"invalid_request", "engine_error"}

loopRest == <<expired, clientVars, permits, tts, others>>

-----------------------------------------------------------------------------
(***************************************************************************)
(* websocket_loop and handle_client_event, one action per arm.             *)
(***************************************************************************)
AtLoop(s) == pc[s] = "loop" /\ client[s] # "gone"
AtEvent(s) == AtLoop(s) /\ ~session[s].pending

Is(s, mode) == session[s].mode = mode /\ ~session[s].completed

TextInsteadOfAudio(s) ==
  /\ AtLoop(s)
  /\ session[s].pending
  /\ Reject(s, "audio_frame_expected")
  /\ UNCHANGED <<token, worker, stt, loopRest>>

\* The transcriber holds a slot of the engine until it finishes or is dropped.
StartStt(s) ==
  /\ AtEvent(s)
  /\ session[s].mode = "none"
  /\ \/ /\ ~expired[s] /\ stt < MaxConcurrent
        /\ stt' = stt + 1
        /\ Say(s, <<"session_ready">>, "loop")
        /\ session' = [session EXCEPT ![s].mode = "stt", ![s].transcriber = TRUE]
     \/ ~expired[s] /\ stt = MaxConcurrent /\ FailBackend(s, "overloaded") /\ UNCHANGED stt
     \/ \E error \in CallErrors(s) : FailBackend(s, error) /\ UNCHANGED stt
  /\ UNCHANGED <<token, worker, loopRest>>

StartTts(s) ==
  /\ AtEvent(s)
  /\ session[s].mode = "none"
  /\ Say(s, <<"session_ready">>, "loop")
  /\ session' = [session EXCEPT ![s].mode = "tts"]
  /\ UNCHANGED <<token, worker, stt, loopRest>>

StartWithWrongRate(s) ==
  /\ AtEvent(s)
  /\ session[s].mode = "none"
  /\ \E code \in {"sample_rate_required", "sample_rate_not_allowed"} : Reject(s, code)
  /\ UNCHANGED <<token, worker, stt, loopRest>>

DeclareAudio(s) ==
  /\ AtEvent(s)
  /\ Is(s, "stt")
  /\ session' = [session EXCEPT ![s].pending = TRUE]
  /\ UNCHANGED <<pc, outbox, after, token, worker, stt, loopRest>>

AudioFrame(s) ==
  /\ AtLoop(s)
  /\ session[s].pending
  /\ \/ /\ ~expired[s]
        /\ \E updates \in {<<>>, <<"interim">>, <<"final">>, <<"final", "interim">>} :
             Say(s, updates, "loop")
        /\ session' = [session EXCEPT ![s].pending = FALSE]
     \/ \E error \in CallErrors(s) : FailBackend(s, error)
     \/ Reject(s, "audio_frame_invalid")
  /\ UNCHANGED <<token, worker, stt, loopRest>>

AudioUndeclared(s) ==
  /\ AtEvent(s)
  /\ Reject(s, "audio_declaration_required")
  /\ UNCHANGED <<token, worker, stt, loopRest>>

\* Bug: a commit does not close the session for further audio.
CommitForgetsCompletion(s) ==
  /\ AtEvent(s)
  /\ Is(s, "stt")
  /\ stt' = stt - 1
  /\ \/ /\ ~expired[s]
        /\ Say(s, <<"final", "session_completed">>, "loop")
        /\ session' = [session EXCEPT ![s].transcriber = FALSE]
     \/ \E error \in CallErrors(s) :
          /\ Say(s, <<error>>, CloseCode(error))
          /\ session' = [session EXCEPT ![s].transcriber = FALSE, ![s].failure = error]
  /\ UNCHANGED <<token, worker, loopRest>>

\* finish consumes the transcriber, whatever comes of it.
Commit(s) ==
  /\ AtEvent(s)
  /\ Is(s, "stt")
  /\ stt' = stt - 1
  /\ \/ /\ ~expired[s]
        /\ Say(s, <<"final", "session_completed">>, "loop")
        /\ session' = [session EXCEPT ![s].transcriber = FALSE, ![s].completed = TRUE]
     \/ \E error \in CallErrors(s) :
          /\ Say(s, <<error>>, CloseCode(error))
          /\ session' = [session EXCEPT ![s].transcriber = FALSE, ![s].failure = error]
  /\ UNCHANGED <<token, worker, loopRest>>

Generate(s) ==
  /\ AtEvent(s)
  /\ Is(s, "tts")
  /\ worker' = [worker EXCEPT ![s] = "queued"]
  /\ pc' = [pc EXCEPT ![s] = "working"]
  /\ UNCHANGED <<session, outbox, after, token, stt, loopRest>>

Cancel(s) ==
  /\ AtEvent(s)
  /\ token' = [token EXCEPT ![s] = TRUE]
  /\ Say(s, <<"cancelled_event">>, "1000")
  /\ UNCHANGED <<session, worker, stt, loopRest>>

Ping(s) ==
  /\ AtEvent(s)
  /\ Say(s, <<"pong">>, "loop")
  /\ UNCHANGED <<session, token, worker, stt, loopRest>>

OutOfOrder(s, m) ==
  \/ m \in Starts /\ session[s].mode # "none"
  \/ m = "append" /\ ~Is(s, "stt")
  \/ m = "append_out_of_bounds"
  \/ m = "commit" /\ ~Is(s, "stt")
  \/ m = "generate" /\ ~Is(s, "tts")

BadEvent(s) ==
  /\ AtEvent(s)
  /\ \/ Reject(s, "invalid_json")
     \/ (\E m \in Text : OutOfOrder(s, m)) /\ Reject(s, "invalid_sequence")
  /\ UNCHANGED <<token, worker, stt, loopRest>>

WsPing(s) ==
  /\ AtLoop(s)
  /\ Say(s, <<"ws_pong">>, "loop")
  /\ UNCHANGED <<session, token, worker, stt, loopRest>>

\* A close event, a close frame, or the end of the stream.
Hangup(s) ==
  /\ pc[s] = "loop"
  /\ Say(s, <<>>, "1000")
  /\ UNCHANGED <<session, token, worker, stt, loopRest>>

\* recv returns an error: a frame beyond the limits, a broken frame, a reset.
ReceiveFails(s) ==
  /\ pc[s] = "loop"
  /\ Say(s, <<>>, "1002")
  /\ UNCHANGED <<session, token, worker, stt, loopRest>>

-----------------------------------------------------------------------------
(***************************************************************************)
(* The select around the synthesis worker.  Leaving it cancels the token   *)
(* and aborts the worker, which stops one that has not begun and no other. *)
(***************************************************************************)
Aborted(s) == IF worker[s] = "queued" THEN "aborted" ELSE worker[s]

Abandon(s, events, code) ==
  /\ pc[s] = "working"
  /\ token' = [token EXCEPT ![s] = TRUE]
  /\ worker' = [worker EXCEPT ![s] = Aborted(s)]
  /\ Say(s, events, code)
  /\ UNCHANGED <<session, stt, loopRest>>

\* Cancel; close, end of stream or receive error; not JSON; anything else.
Interrupt(s) ==
  \/ client[s] # "gone" /\ Abandon(s, <<"cancelled_event">>, "1000")
  \/ Abandon(s, <<>>, "1000")
  \/ client[s] # "gone" /\ \E code \in {"invalid_json", "invalid_sequence"} :
                              Abandon(s, <<code>>, "1002")

PingWorking(s) ==
  /\ pc[s] = "working"
  /\ client[s] # "gone"
  /\ \E event \in {"pong", "ws_pong"} : Say(s, <<event>>, "working")
  /\ UNCHANGED <<session, token, worker, stt, loopRest>>

\* Bug: completion is announced before the audio.
SynthesizedEarly(s) ==
  /\ pc[s] = "working"
  /\ worker[s] = "ok"
  /\ Say(s, <<"speech_metadata", "speech_completed", "chunk">>, "loop")
  /\ session' = [session EXCEPT ![s].completed = TRUE]
  /\ UNCHANGED <<token, worker, stt, loopRest>>

Synthesized(s) ==
  /\ pc[s] = "working"
  /\ worker[s] = "ok"
  /\ Say(s, <<"speech_metadata", "chunk", "chunk", "speech_completed">>, "loop")
  /\ session' = [session EXCEPT ![s].completed = TRUE]
  /\ UNCHANGED <<token, worker, stt, loopRest>>

SynthesisFailed(s) ==
  /\ pc[s] = "working"
  /\ worker[s] \in Outcomes \ {"ok"}
  /\ FailBackend(s, worker[s])
  /\ UNCHANGED <<token, worker, stt, loopRest>>

\* TtsEngine::synthesize on its blocking thread.
WorkerStart(s) ==
  /\ worker[s] = "queued"
  /\ \/ worker' = [worker EXCEPT ![s] = "invalid_request"] /\ UNCHANGED tts
     \/ /\ ~Active(s)
        /\ worker' = [worker EXCEPT ![s] = IF token[s] THEN "cancelled" ELSE "deadline_exceeded"]
        /\ UNCHANGED tts
     \/ Active(s) /\ tts = MaxConcurrent /\ worker' = [worker EXCEPT ![s] = "overloaded"] /\ UNCHANGED tts
     \/ Active(s) /\ tts < MaxConcurrent /\ worker' = [worker EXCEPT ![s] = "native"] /\ tts' = tts + 1
  /\ UNCHANGED <<taskVars, expired, clientVars, permits, stt, others>>

WorkerEnds(s) ==
  /\ worker[s] = "native"
  /\ tts' = tts - 1
  /\ \/ worker' = [worker EXCEPT ![s] =
          IF token[s] THEN "cancelled" ELSE IF expired[s] THEN "deadline_exceeded" ELSE "ok"]
     \/ \E error \in {"engine_error", "invalid_request"} : worker' = [worker EXCEPT ![s] = error]
  /\ UNCHANGED <<taskVars, expired, clientVars, permits, stt, others>>

-----------------------------------------------------------------------------
(***************************************************************************)
(* Sending.  A send succeeds at once, or waits for room in the buffers of  *)
(* a client that does not read, or fails because the client is gone.       *)
(***************************************************************************)
Follows(state, event) ==
  CASE event \in {"pong", "ws_pong"} -> IF state = "ended" THEN "disorder" ELSE state
    [] event \in Errors \cup {"cancelled_event"} ->
         IF state = "ended" /\ event # "deadline_exceeded" THEN "disorder" ELSE "ended"
    [] event = "session_ready" /\ state = "nothing" -> "ready"
    [] event \in {"interim", "final"} /\ state = "ready" -> "ready"
    [] event = "speech_metadata" /\ state = "ready" -> "audio"
    [] event = "chunk" /\ state = "audio" -> "audio"
    [] event = "speech_completed" /\ state = "audio" -> "completed"
    [] event = "session_completed" /\ state = "ready" -> "completed"
    [] OTHER -> "disorder"

Deliver(s) ==
  /\ outbox[s] # <<>>
  /\ client[s] # "gone"
  /\ LET event == Head(outbox[s])
     IN  /\ heard' = [heard EXCEPT ![s] = Follows(@, event)]
         /\ reported' = IF event \in Errors THEN [reported EXCEPT ![s] = event] ELSE reported
  /\ outbox' = [outbox EXCEPT ![s] = Tail(@)]
  /\ UNCHANGED <<pc, session, after, token, expired, client, closed, worker, permits, engineVars>>

Send(s) == pc[s] = "sending" /\ Deliver(s)

\* Ok(true) and Err(()) leave the loop; websocket_session cancels the token.
Leave(s, code, events) ==
  /\ pc' = [pc EXCEPT ![s] = "closing"]
  /\ after' = [after EXCEPT ![s] = code]
  /\ outbox' = [outbox EXCEPT ![s] = events]
  /\ token' = [token EXCEPT ![s] = TRUE]
  /\ UNCHANGED <<session, expired, clientVars, worker, permits, engineVars>>

SendFails(s) ==
  /\ pc[s] = "sending"
  /\ outbox[s] # <<>>
  /\ client[s] = "gone"
  /\ Leave(s, CloseCode(session[s].failure), <<>>)

Sent(s) ==
  /\ pc[s] = "sending"
  /\ outbox[s] = <<>>
  /\ \/ after[s] \in CloseCodes /\ Leave(s, after[s], <<>>)
     \/ /\ after[s] \notin CloseCodes
        /\ pc' = [pc EXCEPT ![s] = after[s]]
        /\ UNCHANGED <<session, outbox, after, token, expired, clientVars, worker, permits, engineVars>>

\* Bug: the timer is around the receive only.
TimeoutInLoopOnly(s) ==
  /\ pc[s] = "loop"
  /\ expired[s]
  /\ Leave(s, "1008", <<"deadline_exceeded">>)

\* The timer drops the loop wherever it is; the worker is left to itself.
Timeout(s) ==
  /\ pc[s] \in InLoop
  /\ expired[s]
  /\ Leave(s, "1008", <<"deadline_exceeded">>)

\* The last two sends, whose failure is ignored.
CloseReport(s) == pc[s] = "closing" /\ Deliver(s)

\* The close frame, and with the end of the task the session permit and the
\* transcriber go.
Close(s) ==
  /\ pc[s] = "closing"
  /\ outbox[s] = <<>> \/ client[s] = "gone"
  /\ pc' = [pc EXCEPT ![s] = "done"]
  /\ closed' = [closed EXCEPT ![s] = IF client[s] = "gone" THEN "none" ELSE after[s]]
  /\ permits' = permits + 1
  /\ session' = [session EXCEPT ![s].transcriber = FALSE]
  /\ stt' = IF session[s].transcriber THEN stt - 1 ELSE stt
  /\ UNCHANGED <<outbox, after, token, expired, client, heard, reported, worker, tts, others>>

-----------------------------------------------------------------------------
(***************************************************************************)
(* Clients, clocks and the other callers.                                  *)
(***************************************************************************)
ClientChanges(s) ==
  /\ pc[s] \in Live
  /\ \/ client[s] = "reading" /\ client' = [client EXCEPT ![s] = "stalled"]
     \/ client[s] # "gone" /\ client' = [client EXCEPT ![s] = "gone"]
  /\ UNCHANGED <<taskVars, expired, closed, heard, reported, worker, permits, engineVars>>

Expire(s) ==
  /\ pc[s] \in Live
  /\ ~expired[s]
  /\ expired' = [expired EXCEPT ![s] = TRUE]
  /\ UNCHANGED <<taskVars, clientVars, worker, permits, engineVars>>

OthersAcquire ==
  /\ \/ permits > 0 /\ permits' = permits - 1 /\ others' = [others EXCEPT !.permits = @ + 1]
        /\ UNCHANGED <<stt, tts>>
     \/ stt < MaxConcurrent /\ stt' = stt + 1 /\ others' = [others EXCEPT !.stt = @ + 1]
        /\ UNCHANGED <<permits, tts>>
     \/ tts < MaxConcurrent /\ tts' = tts + 1 /\ others' = [others EXCEPT !.tts = @ + 1]
        /\ UNCHANGED <<permits, stt>>
  /\ UNCHANGED <<taskVars, expired, clientVars, worker>>

OthersRelease ==
  /\ \/ others.permits > 0 /\ permits' = permits + 1 /\ others' = [others EXCEPT !.permits = @ - 1]
        /\ UNCHANGED <<stt, tts>>
     \/ others.stt > 0 /\ stt' = stt - 1 /\ others' = [others EXCEPT !.stt = @ - 1]
        /\ UNCHANGED <<permits, tts>>
     \/ others.tts > 0 /\ tts' = tts - 1 /\ others' = [others EXCEPT !.tts = @ - 1]
        /\ UNCHANGED <<permits, stt>>
  /\ UNCHANGED <<taskVars, expired, clientVars, worker>>

OpenStep(s) == Connect(s) \/ Refused(s)

UpgradeStep(s) == Upgraded(s) \/ UpgradeFails(s)

LoopStep(s) ==
  \/ TextInsteadOfAudio(s) \/ StartStt(s) \/ StartTts(s) \/ StartWithWrongRate(s)
  \/ DeclareAudio(s) \/ AudioFrame(s) \/ AudioUndeclared(s) \/ Commit(s) \/ Generate(s)
  \/ Cancel(s) \/ Ping(s) \/ BadEvent(s) \/ WsPing(s) \/ Hangup(s) \/ ReceiveFails(s)

WorkingStep(s) == Interrupt(s) \/ PingWorking(s) \/ Synthesized(s) \/ SynthesisFailed(s)

SendStep(s) == Send(s) \/ SendFails(s) \/ Sent(s)

CloseStep(s) == CloseReport(s) \/ Close(s)

WorkerStep(s) == WorkerStart(s) \/ WorkerEnds(s)

Next ==
  \/ \E s \in Sessions :
       \/ OpenStep(s) \/ UpgradeStep(s)
       \/ LoopStep(s) \/ WorkingStep(s) \/ SendStep(s)
       \/ Timeout(s) \/ CloseStep(s)
       \/ WorkerStep(s) \/ ClientChanges(s) \/ Expire(s)
  \/ OthersAcquire \/ OthersRelease

(***************************************************************************)
(* Clocks advance, a fired timer is seen, an upgrade ends one way or the   *)
(* other, and a send completes when the client reads or is gone.  A client *)
(* need not read, and a synthesis need not end.                            *)
(***************************************************************************)
Fairness ==
  \A s \in Sessions :
    /\ WF_vars(UpgradeStep(s))
    /\ WF_vars(Expire(s))
    /\ WF_vars(Timeout(s))
    /\ WF_vars(client[s] # "stalled" /\ SendStep(s))
    /\ WF_vars(client[s] # "stalled" /\ CloseStep(s))

Spec == Init /\ [][Next]_vars /\ Fairness

-----------------------------------------------------------------------------
InSession == {s \in Sessions : pc[s] \in Live}
Transcribing == {s \in Sessions : session[s].transcriber}
Synthesizing == {s \in Sessions : worker[s] = "native"}

(***************************************************************************)
(* Session permits and engine slots are conserved over every way a session *)
(* can end, a synthesis that outlives its session included.                *)
(***************************************************************************)
SlotsConserved ==
  /\ permits = MaxConcurrent - others.permits - Cardinality(InSession)
  /\ stt = others.stt + Cardinality(Transcribing)
  /\ tts = others.tts + Cardinality(Synthesizing)

\* The task is, or will be once its events are sent, at this point.
Resumes(s, where) == pc[s] = where \/ (pc[s] = "sending" /\ after[s] = where)

(***************************************************************************)
(* The guards of the handler, the transcriber and the worker agree: in a   *)
(* loop that goes on there is a transcriber exactly while audio may come,  *)
(* so that the handler's checks for a missing one never apply, and no      *)
(* synthesis of this session is left when the next one may start.          *)
(***************************************************************************)
TranscriberFits(s) ==
  /\ pc[s] \in {"idle", "upgrading"} => session[s] = Fresh /\ worker[s] = "none"
  /\ Resumes(s, "loop") \/ Resumes(s, "working") =>
       /\ session[s].transcriber <=> Is(s, "stt")
       /\ session[s].pending => session[s].transcriber
       /\ session[s].completed => session[s].mode # "none"
  /\ Resumes(s, "loop") /\ worker[s] # "none" => session[s].completed
  /\ Resumes(s, "working") => Is(s, "tts")
  /\ pc[s] = "closing" => after[s] \in CloseCodes

TranscriberMatchesMode == \A s \in Sessions : TranscriberFits(s)

(***************************************************************************)
(* The invariant of the endpoint, for any number of sessions.              *)
(***************************************************************************)
SessionInv == TypeOK /\ SlotsConserved /\ TranscriberMatchesMode

(***************************************************************************)
(* The order of events the API promises: ready, then transcripts or        *)
(* metadata and audio, then completion; after an error or a cancellation   *)
(* at most the report of the deadline.                                     *)
(***************************************************************************)
EventsInOrder == \A s \in Sessions : heard[s] # "disorder"

(***************************************************************************)
(* The close code tells what the last error event told: 1013 overload,     *)
(* 1011 engine, 1008 deadline, 1000 no error.                              *)
(***************************************************************************)
Agreed(report, code) ==
  /\ code = "1000" => report = "none"
  /\ report # "none" => code = CloseCode(report)

CloseMatchesReport ==
  \A s \in Sessions :
    closed[s] # "none" => Agreed(reported[s], closed[s])

(***************************************************************************)
(* Why both hold, point by point of a session.  A session that goes on has *)
(* reported no error, and the events under way take its client from where  *)
(* it is to where the session is; one that does not has at most one event  *)
(* left to send, which ends the conversation and goes with the close code. *)
(***************************************************************************)
Expected(s) ==
  IF session[s].mode = "none" THEN "nothing"
  ELSE IF session[s].completed THEN "completed" ELSE "ready"

Leads(from, events, to) ==
  \/ events \in {<<>>, <<"pong">>, <<"ws_pong">>} /\ from = to
  \/ events = <<"session_ready">> /\ from = "nothing" /\ to = "ready"
  \/ /\ events \in {<<"interim">>, <<"final">>, <<"final", "interim">>}
     /\ from = "ready" /\ to = "ready"
  \/ /\ events \in {<<"final", "session_completed">>, <<"session_completed">>,
                     <<"speech_metadata", "chunk", "chunk", "speech_completed">>}
     /\ from = "ready" /\ to = "completed"
  \/ /\ events \in {<<"chunk", "chunk", "speech_completed">>, <<"chunk", "speech_completed">>,
                     <<"speech_completed">>}
     /\ from = "audio" /\ to = "completed"

LastWords(s) ==
  /\ heard[s] # "disorder"
  /\ \/ outbox[s] = <<>> /\ Agreed(reported[s], after[s])
     \/ \E event \in Errors \cup {"cancelled_event"} :
          /\ outbox[s] = <<event>>
          /\ heard[s] = "ended" => event = "deadline_exceeded"
          /\ Agreed(IF event \in Errors THEN event ELSE reported[s], after[s])

ProtocolFits(s) ==
  /\ pc[s] \in {"idle", "upgrading"} => heard[s] = "nothing"
  /\ pc[s] \in {"loop", "working"} => heard[s] = Expected(s)
  /\ pc[s] \in {"idle", "upgrading", "loop", "working"} => reported[s] = "none"
  /\ pc[s] = "sending" /\ after[s] \in {"loop", "working"} =>
       Leads(heard[s], outbox[s], Expected(s)) /\ reported[s] = "none"
  /\ pc[s] = "sending" /\ after[s] \in CloseCodes => LastWords(s)
  /\ pc[s] = "closing" /\ client[s] # "gone" => LastWords(s)
  /\ pc[s] \in {"closing", "done"} => heard[s] # "disorder"
  /\ closed[s] # "none" => pc[s] = "done" /\ Agreed(reported[s], closed[s])

ProtocolInv == \A s \in Sessions : ProtocolFits(s)

(***************************************************************************)
(* No session outlives its deadline by more than its client's reading: it  *)
(* ends, or the client has stopped reading.                                *)
(***************************************************************************)
SessionEnds ==
  \A s \in Sessions : pc[s] \in Live ~> pc[s] = "done" \/ client[s] = "stalled"

(***************************************************************************)
(* "Every failure emits an error event with a stable code before the close *)
(* frame" (docs/api.md:56).  A frame the socket refuses ends the loop      *)
(* without one.                                                            *)
(***************************************************************************)
EveryFailureReported ==
  \A s \in Sessions : closed[s] \in CloseCodes \ {"1000"} => reported[s] # "none"

(***************************************************************************)
(* "Frame size, buffered audio, concurrent operations, session duration,   *)
(* and output queues are bounded" (docs/product-contract.md:49).  The last *)
(* two sends are outside the session's timer.                              *)
(***************************************************************************)
SessionDurationBounded == \A s \in Sessions : pc[s] \in Live ~> pc[s] = "done"
=============================================================================
