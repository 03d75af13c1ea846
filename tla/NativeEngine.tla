---------------------------- MODULE NativeEngine ----------------------------
(***************************************************************************)
(* The native engines and the threads that call them.  A recognition of a  *)
(* whole recording and a synthesis run on blocking threads, a streaming    *)
(* session runs inline on the async worker that polls it.  The recognizer  *)
(* and the synthesizer each have a mutex; feeding a stream, ending its     *)
(* input and destroying it happen outside of it.  Everything native is     *)
(* freed by hand, in an order that reference counts have to guarantee,     *)
(* while main may return and drop the runtime at any time.                 *)
(***************************************************************************)
EXTENDS Integers, FiniteSets

CONSTANTS
  Batches,         \* calls of SttEngine::transcribe
  Streams,         \* streaming sessions
  Speeches,        \* calls of TtsEngine::synthesize
  MaxConcurrent,   \* slots of each engine
  Workers,         \* async worker threads of the tokio runtime
  MaxDecodeSteps,  \* MAX_DECODE_STEPS
  MaxFrames,       \* frames in one push: MAX_STREAM_AUDIO_BYTES bounds them
  Nobody           \* the owner of a mutex that is free

Calls == Batches \cup Streams \cup Speeches

ASSUME EngineAssumption ==
  /\ IsFiniteSet(Calls)
  /\ Batches \cap Streams = {} /\ Speeches \cap (Batches \cup Streams) = {}
  /\ Nobody \notin Calls
  /\ {MaxConcurrent, Workers, MaxDecodeSteps, MaxFrames} \subseteq Nat \ {0}

VARIABLES
  at,        \* where each call is
  op,        \* the native operation it wants, does, or has ahead
  stream,    \* its OnlineStream
  spare,     \* the stream it has replaced and not destroyed yet
  steps,     \* decode steps of the present decode_available
  frames,    \* frames left in the present push
  closing,   \* the session is in its finish()
  result,    \* it owns a native result
  mutex,     \* the owner of each engine's gate
  slots,     \* Limiter.active of each engine
  handles,   \* strong references to each engine
  process    \* main is serving, has returned, or the process is gone

callVars == <<at, op, stream, spare, steps, frames, closing, result>>
vars == <<callVars, mutex, slots, handles, process>>

Engines == {"stt", "tts"}
Engine(c) == IF c \in Speeches THEN "tts" ELSE "stt"
Gated == {"create", "decode", "text", "generate"}
Ungated == {"accept", "finish", "replace"}

\* "outside": on its thread, holding no gate; "between": a session whose task
\* awaits the client; "unwinding", "unwound": the drops at the end.
OnThread == {"waiting", "inside", "outside"}
Started == OnThread \cup {"between", "unwinding", "unwound"}

TypeOK ==
  /\ at \in [Calls -> Started \cup {"idle", "done"}]
  /\ op \in [Calls -> Gated \cup Ungated]
  /\ stream \in [Calls -> {"none", "open", "finished"}]
  /\ spare \in [Calls -> BOOLEAN]
  /\ steps \in [Calls -> 0..MaxDecodeSteps]
  /\ frames \in [Calls -> 0..MaxFrames]
  /\ closing \in [Calls -> BOOLEAN]
  /\ result \in [Calls -> BOOLEAN]
  /\ mutex \in [Engines -> Calls \cup {Nobody}]
  /\ slots \in [Engines -> 0..MaxConcurrent]
  /\ handles \in [Engines -> Nat]
  /\ process \in {"serving", "returned", "exited"}

Init ==
  /\ at = [c \in Calls |-> "idle"]
  /\ op = [c \in Calls |-> "create"]
  /\ stream = [c \in Calls |-> "none"]
  /\ spare = [c \in Calls |-> FALSE]
  /\ steps = [c \in Calls |-> 0]
  /\ frames = [c \in Calls |-> 0]
  /\ closing = [c \in Calls |-> FALSE]
  /\ result = [c \in Calls |-> FALSE]
  /\ mutex = [e \in Engines |-> Nobody]
  /\ slots = [e \in Engines |-> 0]
  /\ handles = [e \in Engines |-> 1]
  /\ process = "serving"

-----------------------------------------------------------------------------
Goto(c, where, what) ==
  /\ at' = [at EXCEPT ![c] = where]
  /\ op' = [op EXCEPT ![c] = what]

\* Queue up for the gate, go on without it, or give up.
Lock(c, what) == Goto(c, "waiting", what)
Proceed(c, what) == Goto(c, "outside", what)
Unwind(c) == Goto(c, "unwinding", op[c])

Unlock(c) == mutex' = [mutex EXCEPT ![Engine(c)] = Nobody]

\* Sessions on a worker thread of the runtime: their code has no await.
Occupying == {c \in Streams : at[c] \in OnThread}
FreeWorker == Cardinality(Occupying) < Workers

\* A batch call holds both engines, a session the recognizer.
Shared(c) == IF c \in Streams THEN {"stt"} ELSE Engines
Clone(E) == handles' = [e \in Engines |-> IF e \in E THEN handles[e] + 1 ELSE handles[e]]
Release(E) == handles' = [e \in Engines |-> IF e \in E THEN handles[e] - 1 ELSE handles[e]]

Begin(c) ==
  /\ process = "serving"
  /\ at[c] = "idle"
  /\ c \in Streams => FreeWorker
  /\ IF slots[Engine(c)] < MaxConcurrent
       THEN /\ slots' = [slots EXCEPT ![Engine(c)] = @ + 1]
            /\ Clone(Shared(c))
            /\ Lock(c, IF c \in Speeches THEN "generate" ELSE "create")
       ELSE /\ Goto(c, "done", op[c])
            /\ UNCHANGED <<slots, handles>>
  /\ UNCHANGED <<stream, spare, steps, frames, closing, result, mutex, process>>

-----------------------------------------------------------------------------
(***************************************************************************)
(* What a session does next when its caller polls it: push, or finish.     *)
(***************************************************************************)
Continue(c) == IF frames[c] > 0 THEN Proceed(c, "accept") ELSE Goto(c, "between", op[c])

Push(c) ==
  /\ process = "serving" /\ FreeWorker
  /\ at[c] = "between"
  /\ frames' \in {[frames EXCEPT ![c] = n] : n \in 1..MaxFrames}
  /\ Proceed(c, "accept")
  /\ UNCHANGED <<stream, spare, steps, closing, result, mutex, slots, handles, process>>

\* With a residual, without one, or with nothing since the last utterance.
Commit(c) ==
  /\ process = "serving" /\ FreeWorker
  /\ at[c] = "between"
  /\ closing' = [closing EXCEPT ![c] = TRUE]
  /\ \/ Proceed(c, "accept") /\ frames' = [frames EXCEPT ![c] = 1]
     \/ Proceed(c, "finish") /\ UNCHANGED frames
     \/ Unwind(c) /\ UNCHANGED frames
  /\ UNCHANGED <<stream, spare, steps, result, mutex, slots, handles, process>>

\* Bug: only a served client's session is dropped, the runtime's drop waits.
DropServed(c) ==
  /\ at[c] = "between" /\ process = "serving"
  /\ Unwind(c)
  /\ UNCHANGED <<stream, spare, steps, frames, closing, result, mutex, slots, handles, process>>

\* The caller drops the session: it is done with it, or the runtime goes.
DropSession(c) ==
  /\ at[c] = "between"
  /\ Unwind(c)
  /\ UNCHANGED <<stream, spare, steps, frames, closing, result, mutex, slots, handles, process>>

\* ensure_active refuses to go on: only here, and never while a call waits for
\* the gate or is inside.
Stopped(c) ==
  /\ at[c] = "outside"
  /\ op[c] = IF c \in Streams THEN "accept" ELSE "finish"
  /\ Unwind(c)
  /\ UNCHANGED <<stream, spare, steps, frames, closing, result, mutex, slots, handles, process>>

-----------------------------------------------------------------------------
(***************************************************************************)
(* Native calls outside the gate.                                          *)
(***************************************************************************)
Accept(c) ==
  /\ at[c] = "outside" /\ op[c] = "accept"
  /\ frames' = [frames EXCEPT ![c] = IF @ > 0 THEN @ - 1 ELSE 0]
  /\ Lock(c, "decode")
  /\ UNCHANGED <<stream, spare, steps, closing, result, mutex, slots, handles, process>>

Finish(c) ==
  /\ at[c] = "outside" /\ op[c] = "finish"
  /\ stream' = [stream EXCEPT ![c] = "finished"]
  /\ Lock(c, "decode")
  /\ UNCHANGED <<spare, steps, frames, closing, result, mutex, slots, handles, process>>

\* The assignment of the new stream drops the old one.
Replace(c) ==
  /\ at[c] = "outside" /\ op[c] = "replace"
  /\ spare' = [spare EXCEPT ![c] = FALSE]
  /\ Release({"stt"})
  /\ Continue(c)
  /\ UNCHANGED <<stream, steps, frames, closing, result, mutex, slots, process>>

-----------------------------------------------------------------------------
(***************************************************************************)
(* Native calls inside the gate.                                           *)
(***************************************************************************)

TakeGate(c) ==
  /\ at[c] = "waiting"
  /\ mutex[Engine(c)] = Nobody
  /\ mutex' = [mutex EXCEPT ![Engine(c)] = c]
  /\ steps' = [steps EXCEPT ![c] = 0]
  /\ Goto(c, "inside", op[c])
  /\ UNCHANGED <<stream, spare, frames, closing, result, slots, handles, process>>

Inside(c, what) == at[c] = "inside" /\ op[c] = what

\* A null pointer from create, get_result or generate.
NativeFails(c) ==
  /\ at[c] = "inside" /\ op[c] # "decode" /\ ~result[c]
  /\ Unlock(c)
  /\ Unwind(c)
  /\ UNCHANGED <<stream, spare, steps, frames, closing, result, slots, handles, process>>

Create(c) ==
  /\ Inside(c, "create")
  /\ Unlock(c)
  /\ stream' = [stream EXCEPT ![c] = "open"]
  /\ spare' = [spare EXCEPT ![c] = (stream[c] # "none")]
  /\ Clone({"stt"})
  /\ IF c \in Batches THEN Proceed(c, "accept")
     ELSE IF stream[c] = "none" THEN Goto(c, "between", op[c])
     ELSE Proceed(c, "replace")
  /\ UNCHANGED <<steps, frames, closing, result, slots, process>>

\* Bug: the loop has no bound.
DecodeUnbounded(c) ==
  /\ Inside(c, "decode")
  /\ steps' = [steps EXCEPT ![c] = 1 - @]
  /\ UNCHANGED <<at, op, stream, spare, frames, closing, result, mutex, slots, handles, process>>

Decode(c) ==
  /\ Inside(c, "decode")
  /\ steps[c] < MaxDecodeSteps
  /\ steps' = [steps EXCEPT ![c] = @ + 1]
  /\ UNCHANGED <<at, op, stream, spare, frames, closing, result, mutex, slots, handles, process>>

\* The stream is not ready for more.  In a session the voice detector says
\* whether an utterance ends here.
Decoded(c) ==
  /\ Inside(c, "decode")
  /\ steps[c] < MaxDecodeSteps
  /\ Unlock(c)
  /\ \/ stream[c] = "finished" /\ Lock(c, "text")
     \/ stream[c] = "open" /\ Proceed(c, "finish")
     \/ stream[c] = "open" /\ c \in Streams /\ ~closing[c] /\ Lock(c, "text")
  /\ UNCHANGED <<stream, spare, steps, frames, closing, result, slots, handles, process>>

DecodeGivesUp(c) ==
  /\ Inside(c, "decode")
  /\ steps[c] = MaxDecodeSteps
  /\ Unlock(c)
  /\ Unwind(c)
  /\ UNCHANGED <<stream, spare, steps, frames, closing, result, slots, handles, process>>

GetResult(c) ==
  /\ at[c] = "inside" /\ op[c] \in {"text", "generate"}
  /\ ~result[c]
  /\ result' = [result EXCEPT ![c] = TRUE]
  /\ UNCHANGED <<at, op, stream, spare, steps, frames, closing, mutex, slots, handles, process>>

\* The result is copied, destroyed and only then judged.
CopyResult(c) ==
  /\ at[c] = "inside" /\ result[c]
  /\ result' = [result EXCEPT ![c] = FALSE]
  /\ Unlock(c)
  /\ \/ Unwind(c)
     \/ /\ c \in Streams /\ ~closing[c]
        /\ IF stream[c] = "finished" THEN Lock(c, "create") ELSE Continue(c)
  /\ UNCHANGED <<stream, spare, steps, frames, closing, slots, handles, process>>

-----------------------------------------------------------------------------
(***************************************************************************)
(* The drops.  An OnlineStream destroys its native stream before its       *)
(* reference to the recognizer goes; the last reference of an engine       *)
(* destroys the engine, and the last engine unloads the library.           *)
(***************************************************************************)

\* Bug: the reference to the recognizer goes before the stream is destroyed.
DropReferenceFirst(c) ==
  /\ at[c] = "unwinding"
  /\ IF stream[c] # "none" THEN Release({"stt"}) ELSE UNCHANGED handles
  /\ Goto(c, "unwound", op[c])
  /\ UNCHANGED <<stream, spare, steps, frames, closing, result, mutex, slots, process>>

DropStream(c) ==
  /\ at[c] = "unwinding"
  /\ stream' = [stream EXCEPT ![c] = "none"]
  /\ IF stream[c] # "none" THEN Release({"stt"}) ELSE UNCHANGED handles
  /\ Goto(c, "unwound", op[c])
  /\ UNCHANGED <<spare, steps, frames, closing, result, mutex, slots, process>>

Return(c) ==
  /\ at[c] = "unwound"
  /\ slots' = [slots EXCEPT ![Engine(c)] = @ - 1]
  /\ Release(Shared(c))
  /\ Goto(c, "done", op[c])
  /\ UNCHANGED <<stream, spare, steps, frames, closing, result, mutex, process>>

MainReturns ==
  /\ process = "serving"
  /\ process' = "returned"
  /\ Release(Engines)
  /\ UNCHANGED <<callVars, mutex, slots>>

\* The drop of the runtime waits for its blocking and its worker threads.
RuntimeDropped ==
  /\ process = "returned"
  /\ \A c \in Calls : at[c] \notin Started
  /\ process' = "exited"
  /\ UNCHANGED <<callVars, mutex, slots, handles>>

ThreadStep(c) ==
  \/ Accept(c) \/ Finish(c) \/ Replace(c)
  \/ TakeGate(c) \/ NativeFails(c) \/ Create(c)
  \/ Decode(c) \/ Decoded(c) \/ DecodeGivesUp(c)
  \/ GetResult(c) \/ CopyResult(c)
  \/ DropStream(c) \/ Return(c)

Next ==
  \/ \E c \in Calls : Begin(c) \/ Stopped(c) \/ ThreadStep(c)
  \/ \E c \in Streams : Push(c) \/ Commit(c) \/ DropSession(c)
  \/ MainReturns \/ RuntimeDropped

(***************************************************************************)
(* Threads run, each native call returns, and a runtime that is dropped    *)
(* drops its tasks.  Nobody has to call, push or commit, main need not     *)
(* return, and the mutexes are not fair.                                   *)
(***************************************************************************)
Fairness ==
  /\ \A c \in Calls : WF_vars(ThreadStep(c))
  /\ \A c \in Streams : WF_vars(process # "serving" /\ DropSession(c))
  /\ WF_vars(RuntimeDropped)

Spec == Init /\ [][Next]_vars /\ Fairness

-----------------------------------------------------------------------------
(***************************************************************************)
(* "Calls are serialized because upstream does not promise reentrancy":    *)
(* whoever is inside an engine owns its gate, and nobody owns it who is    *)
(* outside.  Native results never outlive the gate they were made under.   *)
(***************************************************************************)
OtherEngine(c) == IF Engine(c) = "stt" THEN "tts" ELSE "stt"

SerializedCall(c) ==
  /\ at[c] = "inside" <=> mutex[Engine(c)] = c
  /\ mutex[OtherEngine(c)] # c
  /\ result[c] => at[c] = "inside" /\ op[c] \in {"text", "generate"}

Serialized == \A c \in Calls : SerializedCall(c)

Using(e) == {c \in Calls : at[c] \in Started /\ Engine(c) = e}
Holding(e) == {c \in Calls : at[c] \in Started /\ e \in Shared(c)}
WithStream == {c \in Calls : stream[c] # "none"}
WithSpare == {c \in Calls : spare[c]}

(***************************************************************************)
(* References and slots are those of the calls under way and their         *)
(* streams, so an engine outlives everything that can still call into it.  *)
(***************************************************************************)
Accounted ==
  /\ \A e \in Engines : slots[e] = Cardinality(Using(e))
  /\ handles["tts"] = Cardinality(Holding("tts")) + (IF process = "serving" THEN 1 ELSE 0)
  /\ handles["stt"] = Cardinality(Holding("stt")) + (IF process = "serving" THEN 1 ELSE 0)
                     + Cardinality(WithStream) + Cardinality(WithSpare)

(***************************************************************************)
(* Native streams belong to calls under way, at most two to each and only  *)
(* while an utterance ends, so that the slots bound them too; and the two  *)
(* checks of `finished' never apply: only an open stream is fed or ended.  *)
(***************************************************************************)
StreamFollowsCall(c) ==
  /\ stream[c] # "none" => at[c] \in Started \ {"unwound"} /\ c \notin Speeches
  /\ spare[c] <=> at[c] = "outside" /\ op[c] = "replace"
  /\ spare[c] => c \in Streams
  /\ closing[c] =>
       /\ at[c] \notin {"idle", "between"}
       /\ at[c] \in OnThread => op[c] \notin {"create", "replace"}
  /\ at[c] = "between" => stream[c] = "open"
  /\ at[c] = "outside" => stream[c] = "open" /\ op[c] \in Ungated
  /\ at[c] \in {"waiting", "inside"} =>
       /\ op[c] \in Gated
       /\ op[c] = "generate" <=> c \in Speeches
       /\ op[c] \in {"decode", "text"} => stream[c] # "none"
       /\ op[c] = "create" => stream[c] # "open" /\ (stream[c] = "none" \/ c \in Streams)

StreamsFollowCalls == \A c \in Calls : StreamFollowsCall(c)

NativeInv == TypeOK /\ Serialized /\ Accounted /\ StreamsFollowCalls

(***************************************************************************)
(* Streaming recognition runs inline on the workers of the runtime and     *)
(* waits there for a mutex without a deadline.  If all workers are taken,  *)
(* so that no timer, no health check and no accept runs, one comes back,   *)
(* because whoever owns the gate needs no worker to let go of it.          *)
(***************************************************************************)
ExecutorRecovers == ~FreeWorker ~> FreeWorker

(***************************************************************************)
(* After main has returned the process ends and both engines are destroyed,*)
(* once every native call that is under way returns.                       *)
(***************************************************************************)
ProcessEnds ==
  process = "returned" ~> process = "exited" /\ \A e \in Engines : handles[e] = 0
=============================================================================
