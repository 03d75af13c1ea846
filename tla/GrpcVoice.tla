----------------------------- MODULE GrpcVoice -----------------------------
(***************************************************************************)
(* The gRPC plane: unary calls, bidirectional transcription and            *)
(* server-streamed synthesis, each with a token linked to the process's    *)
(* shutdown and an output queue of fixed size.  No gate and no semaphore   *)
(* stands before it; only the engines' limiters refuse.                    *)
(***************************************************************************)
EXTENDS Integers, Sequences, FiniteSets

CONSTANTS
  Rpcs,           \* calls, one each
  Kinds,          \* kinds of call the clients make, a subset of AllKinds
  MaxConcurrent,  \* slots of each engine
  OutputQueue     \* OUTPUT_QUEUE

AllKinds == {"transcribe", "synthesize", "stream_transcribe", "stream_synthesize"}

ASSUME GrpcAssumption ==
  /\ IsFiniteSet(Rpcs)
  /\ Kinds \subseteq AllKinds
  /\ MaxConcurrent \in Nat \ {0}
  /\ OutputQueue \in Nat \ {0}

VARIABLES
  kind,       \* which method was called
  pc,         \* where its task is
  open,       \* it holds a transcriber
  outgoing,   \* items the task is putting into the queue
  ending,     \* it returns when they are in
  queue,      \* the mpsc channel to the response stream
  worker,     \* the blocking inference of the call
  token,      \* its CancellationToken is cancelled
  expired,    \* its deadline has passed
  shutdown,   \* the process's shutdown token
  reader,     \* what the client does
  got,        \* the response as far as the client has read it
  slots,      \* Limiter.active of each engine
  others      \* how many of them the HTTP side and other calls hold

streamVars == <<open, outgoing, ending, queue>>
stopVars == <<token, expired, shutdown>>
clientVars == <<reader, got>>
engineVars == <<slots, others>>
vars == <<kind, pc, streamVars, worker, stopVars, clientVars, engineVars>>

Engines == {"stt", "tts"}
Engine(k) == IF k \in {"transcribe", "stream_transcribe"} THEN "stt" ELSE "tts"

Items == {"interim", "final", "chunk", "last_chunk", "reply", "status"}
\* A reply, the last chunk, the final of a commit, or an error status.
Conclusions == {"last_chunk", "reply", "status", "commit_final"}
WorkerOver == {"ok", "error", "panicked"}
Live == {"loop", "sending", "waiting"}

TypeOK ==
  /\ kind \in [Rpcs -> AllKinds \cup {"none"}]
  /\ pc \in [Rpcs -> Live \cup {"idle", "done", "cancelled"}]
  /\ open \in [Rpcs -> BOOLEAN]
  /\ outgoing \in [Rpcs -> Seq(Items \cup Conclusions)]
  /\ ending \in [Rpcs -> BOOLEAN]
  /\ queue \in [Rpcs -> Seq(Items \cup Conclusions)]
  /\ \A r \in Rpcs : Len(queue[r]) <= OutputQueue
  /\ worker \in [Rpcs -> WorkerOver \cup {"none", "queued", "native"}]
  /\ token \in [Rpcs -> BOOLEAN]
  /\ expired \in [Rpcs -> BOOLEAN]
  /\ shutdown \in BOOLEAN
  /\ reader \in [Rpcs -> {"reading", "stalled", "gone"}]
  /\ got \in [Rpcs -> {"nothing", "items", "concluded", "disorder"}]
  /\ slots \in [Engines -> 0..MaxConcurrent]
  /\ others \in [Engines -> 0..MaxConcurrent]

Init ==
  /\ kind = [r \in Rpcs |-> "none"]
  /\ pc = [r \in Rpcs |-> "idle"]
  /\ open = [r \in Rpcs |-> FALSE]
  /\ outgoing = [r \in Rpcs |-> <<>>]
  /\ ending = [r \in Rpcs |-> FALSE]
  /\ queue = [r \in Rpcs |-> <<>>]
  /\ worker = [r \in Rpcs |-> "none"]
  /\ token = [r \in Rpcs |-> FALSE]
  /\ expired = [r \in Rpcs |-> FALSE]
  /\ shutdown = FALSE
  /\ reader = [r \in Rpcs |-> "reading"]
  /\ got = [r \in Rpcs |-> "nothing"]
  /\ slots = [e \in Engines |-> 0]
  /\ others = [e \in Engines |-> 0]

-----------------------------------------------------------------------------
(***************************************************************************)
(* A task returns: its CancelOnDrop cancels the token, which also ends the *)
(* task that links the token to the shutdown; its transcriber is dropped.  *)
(***************************************************************************)
Stopped(r) == token[r] \/ expired[r]

Freed(r) == IF open[r] THEN [slots EXCEPT !["stt"] = @ - 1] ELSE slots

Quit(r, how) ==
  /\ pc' = [pc EXCEPT ![r] = how]
  /\ open' = [open EXCEPT ![r] = FALSE]
  /\ slots' = Freed(r)
  /\ outgoing' = [outgoing EXCEPT ![r] = <<>>]
  /\ token' = [token EXCEPT ![r] = TRUE]
  /\ UNCHANGED <<kind, ending, worker, expired, shutdown, reader, others>>

\* Bug: nothing cancels the token of a call that ends well.
ReturnUncancelled(r) ==
  /\ pc' = [pc EXCEPT ![r] = "done"]
  /\ open' = [open EXCEPT ![r] = FALSE]
  /\ slots' = Freed(r)
  /\ outgoing' = [outgoing EXCEPT ![r] = <<>>]
  /\ UNCHANGED <<kind, ending, worker, stopVars, reader, others>>

Return(r) == Quit(r, "done")

\* Put items into the queue, one at a time, then go on or return.
Put(r, items, last) ==
  /\ pc' = [pc EXCEPT ![r] = "sending"]
  /\ outgoing' = [outgoing EXCEPT ![r] = items]
  /\ ending' = [ending EXCEPT ![r] = last]

-----------------------------------------------------------------------------
(***************************************************************************)
(* A call arrives: stream_transcribe spawns its loop, the others their     *)
(* blocking inference, unless they refuse their arguments.                 *)
(***************************************************************************)
Call(r) ==
  /\ pc[r] = "idle"
  /\ \E k \in Kinds :
       /\ kind' = [kind EXCEPT ![r] = k]
       /\ IF k = "stream_transcribe"
            THEN /\ pc' = [pc EXCEPT ![r] = "loop"]
                 /\ UNCHANGED <<worker, token, got>>
            ELSE \/ /\ pc' = [pc EXCEPT ![r] = "waiting"]
                    /\ worker' = [worker EXCEPT ![r] = "queued"]
                    /\ UNCHANGED <<token, got>>
                 \/ /\ pc' = [pc EXCEPT ![r] = "done"]
                    /\ token' = [token EXCEPT ![r] = TRUE]
                    /\ got' = [got EXCEPT ![r] = "concluded"]
                    /\ UNCHANGED worker
  /\ UNCHANGED <<streamVars, expired, shutdown, reader, engineVars>>

-----------------------------------------------------------------------------
(***************************************************************************)
(* stream_transcribe: a biased select of stop and input.                   *)
(***************************************************************************)
\* Bug: the select waits for the token only.
StopSeenOnToken(r) ==
  /\ pc[r] = "loop"
  /\ token[r]
  /\ Put(r, <<"status">>, TRUE)
  /\ UNCHANGED <<kind, open, queue, worker, stopVars, clientVars, engineVars>>

StopSeen(r) ==
  /\ pc[r] = "loop"
  /\ Stopped(r)
  /\ Put(r, <<"status">>, TRUE)
  /\ UNCHANGED <<kind, open, queue, worker, stopVars, clientVars, engineVars>>

Receives(r) == pc[r] = "loop" /\ ~Stopped(r)
FromClient(r) == Receives(r) /\ reader[r] # "gone"

Config(r) ==
  /\ FromClient(r)
  /\ ~open[r]
  /\ \/ /\ slots["stt"] < MaxConcurrent
        /\ open' = [open EXCEPT ![r] = TRUE]
        /\ slots' = [slots EXCEPT !["stt"] = @ + 1]
        /\ UNCHANGED <<pc, outgoing, ending>>
     \/ Put(r, <<"status">>, TRUE) /\ UNCHANGED <<open, slots>>
  /\ UNCHANGED <<kind, queue, worker, stopVars, clientVars, others>>

Audio(r) ==
  /\ FromClient(r)
  /\ open[r]
  /\ \/ \E updates \in {<<>>, <<"interim">>, <<"final", "interim">>} : Put(r, updates, FALSE)
     \/ Put(r, <<"status">>, TRUE)
  /\ UNCHANGED <<kind, open, queue, worker, stopVars, clientVars, engineVars>>

\* finish consumes the transcriber.
Commit(r) ==
  /\ FromClient(r)
  /\ open[r]
  /\ open' = [open EXCEPT ![r] = FALSE]
  /\ slots' = Freed(r)
  /\ \E item \in {"commit_final", "status"} : Put(r, <<item>>, TRUE)
  /\ UNCHANGED <<kind, queue, worker, stopVars, clientVars, others>>

\* The client cancels, and expects nothing any more.
CancelCall(r) ==
  /\ FromClient(r)
  /\ Quit(r, "cancelled")
  /\ UNCHANGED <<queue, got>>

\* A message out of order; the end of the input before the commit; an input
\* that fails.
InputEnds(r) ==
  /\ Receives(r)
  /\ Put(r, <<"status">>, TRUE)
  /\ UNCHANGED <<kind, open, queue, worker, stopVars, clientVars, engineVars>>

-----------------------------------------------------------------------------
(***************************************************************************)
(* The blocking inference, and what its end does to the waiting call.      *)
(***************************************************************************)
WorkerStart(r) ==
  /\ worker[r] = "queued"
  /\ \/ worker' = [worker EXCEPT ![r] = "error"] /\ UNCHANGED slots
     \/ /\ ~Stopped(r)
        /\ slots[Engine(kind[r])] < MaxConcurrent
        /\ worker' = [worker EXCEPT ![r] = "native"]
        /\ slots' = [slots EXCEPT ![Engine(kind[r])] = @ + 1]
  /\ UNCHANGED <<kind, pc, streamVars, stopVars, clientVars, others>>

WorkerEnds(r) ==
  /\ worker[r] = "native"
  /\ \E over \in IF Stopped(r) THEN {"error", "panicked"} ELSE WorkerOver :
       worker' = [worker EXCEPT ![r] = over]
  /\ slots' = [slots EXCEPT ![Engine(kind[r])] = @ - 1]
  /\ UNCHANGED <<kind, pc, streamVars, stopVars, clientVars, others>>

Answered(r) ==
  /\ pc[r] = "waiting"
  /\ worker[r] \in WorkerOver
  /\ reader[r] # "gone"
  /\ IF worker[r] = "ok" /\ kind[r] = "stream_synthesize"
       THEN /\ \E chunks \in {<<"last_chunk">>, <<"chunk", "last_chunk">>,
                              <<"chunk", "chunk", "last_chunk">>} : Put(r, chunks, TRUE)
            /\ UNCHANGED <<kind, open, worker, stopVars, clientVars, engineVars>>
       ELSE /\ Return(r)
            /\ got' = [got EXCEPT ![r] = "concluded"]
  /\ UNCHANGED queue

-----------------------------------------------------------------------------
(***************************************************************************)
(* The output queue.                                                       *)
(***************************************************************************)
\* Bug: an item that does not fit is dropped, as try_send would.
PutItemOrDrop(r) ==
  /\ pc[r] = "sending"
  /\ outgoing[r] # <<>>
  /\ reader[r] # "gone"
  /\ queue' = IF Len(queue[r]) < OutputQueue
                THEN [queue EXCEPT ![r] = Append(@, Head(outgoing[r]))] ELSE queue
  /\ outgoing' = [outgoing EXCEPT ![r] = Tail(@)]
  /\ UNCHANGED <<kind, pc, open, ending, worker, stopVars, clientVars, engineVars>>

\* sender.send waits for room; only a dropped receiver wakes it otherwise.
PutItem(r) ==
  /\ pc[r] = "sending"
  /\ outgoing[r] # <<>>
  /\ reader[r] # "gone"
  /\ Len(queue[r]) < OutputQueue
  /\ queue' = [queue EXCEPT ![r] = Append(@, Head(outgoing[r]))]
  /\ outgoing' = [outgoing EXCEPT ![r] = Tail(@)]
  /\ UNCHANGED <<kind, pc, open, ending, worker, stopVars, clientVars, engineVars>>

\* Bug: the loop goes on after an error status.
PutDoneGoesOn(r) ==
  /\ pc[r] = "sending"
  /\ outgoing[r] = <<>> \/ reader[r] = "gone"
  /\ IF kind[r] # "stream_transcribe" \/ reader[r] = "gone"
       THEN Return(r)
       ELSE /\ pc' = [pc EXCEPT ![r] = "loop"]
            /\ UNCHANGED <<kind, open, outgoing, ending, worker, stopVars, reader, engineVars>>
  /\ UNCHANGED <<queue, got>>

PutDone(r) ==
  /\ pc[r] = "sending"
  /\ outgoing[r] = <<>> \/ reader[r] = "gone"
  /\ IF ending[r] \/ reader[r] = "gone"
       THEN Return(r)
       ELSE /\ pc' = [pc EXCEPT ![r] = "loop"]
            /\ UNCHANGED <<kind, open, outgoing, ending, worker, stopVars, reader, engineVars>>
  /\ UNCHANGED <<queue, got>>

After(state, item) ==
  IF state \in {"concluded", "disorder"} THEN "disorder"
  ELSE IF item \in Conclusions THEN "concluded" ELSE "items"

\* The response stream takes an item and the client reads it.
Read(r) ==
  /\ reader[r] = "reading"
  /\ queue[r] # <<>>
  /\ got' = [got EXCEPT ![r] = After(@, Head(queue[r]))]
  /\ queue' = [queue EXCEPT ![r] = Tail(@)]
  /\ UNCHANGED <<kind, pc, open, outgoing, ending, worker, stopVars, reader, engineVars>>

-----------------------------------------------------------------------------
(***************************************************************************)
(* Stops: the deadline, the shutdown and the task that passes it on, and   *)
(* clients that stall or go away.                                          *)
(***************************************************************************)
Expire(r) ==
  /\ pc[r] \in Live
  /\ ~expired[r]
  /\ expired' = [expired EXCEPT ![r] = TRUE]
  /\ UNCHANGED <<kind, pc, streamVars, worker, token, shutdown, clientVars, engineVars>>

Shutdown ==
  /\ ~shutdown
  /\ shutdown' = TRUE
  /\ UNCHANGED <<kind, pc, streamVars, worker, token, expired, clientVars, engineVars>>

Link(r) ==
  /\ pc[r] \in Live
  /\ shutdown
  /\ ~token[r]
  /\ token' = [token EXCEPT ![r] = TRUE]
  /\ UNCHANGED <<kind, pc, streamVars, worker, expired, shutdown, clientVars, engineVars>>

Stall(r) ==
  /\ pc[r] \in Live
  /\ reader[r] = "reading"
  /\ reader' = [reader EXCEPT ![r] = "stalled"]
  /\ UNCHANGED <<kind, pc, streamVars, worker, stopVars, got, engineVars>>

\* The receiver is dropped with its queue; a call that still waits for its
\* inference is dropped whole.
Disconnect(r) ==
  /\ pc[r] \in Live
  /\ reader[r] # "gone"
  /\ reader' = [reader EXCEPT ![r] = "gone"]
  /\ queue' = [queue EXCEPT ![r] = <<>>]
  /\ pc' = IF pc[r] = "waiting" THEN [pc EXCEPT ![r] = "done"] ELSE pc
  /\ token' = [token EXCEPT ![r] = @ \/ pc[r] = "waiting"]
  /\ UNCHANGED <<kind, open, outgoing, ending, worker, expired, shutdown, got, engineVars>>

\* Someone else takes a slot of the limiter both sides share, or returns it.
OthersAcquire(e) ==
  /\ slots[e] < MaxConcurrent
  /\ slots' = [slots EXCEPT ![e] = @ + 1]
  /\ others' = [others EXCEPT ![e] = @ + 1]
  /\ UNCHANGED <<kind, pc, streamVars, worker, stopVars, clientVars>>

OthersRelease(e) ==
  /\ others[e] > 0
  /\ slots' = [slots EXCEPT ![e] = @ - 1]
  /\ others' = [others EXCEPT ![e] = @ - 1]
  /\ UNCHANGED <<kind, pc, streamVars, worker, stopVars, clientVars>>

LoopStep(r) ==
  Config(r) \/ Audio(r) \/ Commit(r) \/ CancelCall(r) \/ InputEnds(r)

PutStep(r) == PutItem(r) \/ PutDone(r)

WorkerStep(r) == WorkerStart(r) \/ WorkerEnds(r)

Next ==
  \/ \E r \in Rpcs :
       \/ Call(r) \/ LoopStep(r) \/ StopSeen(r)
       \/ PutStep(r) \/ Read(r)
       \/ WorkerStep(r) \/ Answered(r)
       \/ Link(r) \/ Expire(r) \/ Stall(r) \/ Disconnect(r)
  \/ \E e \in Engines : OthersAcquire(e) \/ OthersRelease(e)
  \/ Shutdown

(***************************************************************************)
(* The executor runs what can run, clocks advance, and the input of a      *)
(* client that is gone ends.  A client need not read or write, and an      *)
(* inference need not end.                                                 *)
(***************************************************************************)
Fairness ==
  \A r \in Rpcs :
    /\ WF_vars(StopSeen(r))
    /\ WF_vars(PutStep(r))
    /\ WF_vars(Answered(r))
    /\ WF_vars(Read(r))
    /\ WF_vars(Link(r))
    /\ WF_vars(Expire(r))
    /\ WF_vars(reader[r] = "gone" /\ InputEnds(r))

Spec == Init /\ [][Next]_vars /\ Fairness

-----------------------------------------------------------------------------
(***************************************************************************)
(* The slots of both engines are those of open transcribers and of native  *)
(* calls under way, also those whose call was dropped.                     *)
(***************************************************************************)
Opened == {r \in Rpcs : open[r]}
NativeOn(e) == {r \in Rpcs : worker[r] = "native" /\ Engine(kind[r]) = e}

SlotsConserved ==
  /\ slots["stt"] = others["stt"] + Cardinality(Opened) + Cardinality(NativeOn("stt"))
  /\ slots["tts"] = others["tts"] + Cardinality(NativeOn("tts"))

(***************************************************************************)
(* Every response is a run of items with one conclusion, which comes last; *)
(* a call that is over has concluded, or its client knows better.          *)
(***************************************************************************)
Concluding(r) == \E i \in 1..Len(queue[r]) : queue[r][i] \in Conclusions

ResponsesConclude ==
  \A r \in Rpcs :
    /\ got[r] # "disorder"
    /\ pc[r] = "done" /\ reader[r] # "gone" => got[r] = "concluded" \/ Concluding(r)

(***************************************************************************)
(* No call leaves its linking task behind: when a call is over its token   *)
(* is cancelled, whichever way it went.                                    *)
(***************************************************************************)
NoLinkLeft == \A r \in Rpcs : pc[r] \in {"done", "cancelled"} => token[r]

(***************************************************************************)
(* How a response gets there: nothing follows a conclusion, neither behind *)
(* it in the queue nor from the task; a task that goes on has not concluded*)
(* and one that is ending has its conclusion on the way.                   *)
(***************************************************************************)
Unconcluded(s) == \A i \in 1..Len(s) : s[i] \notin Conclusions
ConcludesLast(s) == \A i \in 1..Len(s) : s[i] \in Conclusions => i = Len(s)

ResponseInOrder(r) ==
  /\ ConcludesLast(queue[r]) /\ ConcludesLast(outgoing[r])
  /\ Concluding(r) => outgoing[r] = <<>>
  /\ got[r] # "disorder"
  /\ got[r] = "concluded" => queue[r] = <<>> /\ outgoing[r] = <<>>
  /\ pc[r] # "sending" => outgoing[r] = <<>>
  /\ pc[r] \in {"idle", "waiting"} => queue[r] = <<>>
  /\ pc[r] = "idle" => worker[r] = "none"
  /\ pc[r] \in {"idle", "loop", "waiting"} \/ (pc[r] = "sending" /\ ~ending[r]) =>
       got[r] # "concluded" /\ Unconcluded(queue[r]) /\ Unconcluded(outgoing[r])
  /\ (pc[r] = "sending" /\ ending[r]) \/ pc[r] = "done" =>
       \/ reader[r] = "gone" \/ got[r] = "concluded" \/ Concluding(r)
       \/ ~Unconcluded(outgoing[r])

(***************************************************************************)
(* The books of the gRPC plane, whatever ends a call: the engines' slots,  *)
(* the linking tasks and the order of each response.                       *)
(***************************************************************************)
CallInv ==
  /\ TypeOK
  /\ SlotsConserved
  /\ NoLinkLeft
  /\ \A r \in Rpcs : ResponseInOrder(r)

(***************************************************************************)
(* "Wait for queue capacity like interim updates do; the final result must *)
(* not be dropped because the client reads slowly": a client that reads on *)
(* gets the final result of its commit.                                    *)
(***************************************************************************)
FinalIsRead ==
  \A r \in Rpcs :
    outgoing[r] = <<"commit_final">> ~> got[r] = "concluded" \/ reader[r] # "reading"

(***************************************************************************)
(* A stream ends after its deadline or the shutdown, unless its client has *)
(* stalled: only the receiver of the queue ends a send that waits for room.*)
(***************************************************************************)
StreamEnds ==
  \A r \in Rpcs :
    pc[r] \in {"loop", "sending"} ~> pc[r] \in {"done", "cancelled"} \/ reader[r] = "stalled"
=============================================================================
