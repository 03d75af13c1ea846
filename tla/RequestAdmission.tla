-------------------------- MODULE RequestAdmission --------------------------
(***************************************************************************)
(* The life of an HTTP workload request: the policy middleware admits it,  *)
(* bounds it and answers it; its handler hands the inference to a blocking *)
(* thread, which goes on when the request has been given up.  Three        *)
(* resources meet: the shutdown gate (here its contract), the two          *)
(* semaphores of the middleware, and the limiter of the engine, which      *)
(* realtime sessions and RPCs share without passing the middleware.        *)
(***************************************************************************)
EXTENDS Integers, Sequences, FiniteSets

CONSTANTS
  Requests,        \* requests the server receives, one each
  MaxConcurrent,   \* max_concurrent_requests: execution permits
  QueueCapacity,   \* queue_capacity: further admitted requests
  EngineLimit,     \* max_concurrent of the engine; VoiceEngines passes the same
  MaxRequestId     \* u64::MAX, after which no request id is issued

ASSUME AdmissionAssumption ==
  /\ IsFiniteSet(Requests)
  /\ MaxConcurrent \in Nat \ {0}
  /\ QueueCapacity \in Nat \ {0}
  /\ EngineLimit \in Nat \ {0}
  /\ MaxRequestId \in Nat

VARIABLES
  phase, work, stopped, open,   \* the gate, see DrainContract
  pc,          \* where the middleware is with each request
  reply,       \* the answer each request got
  token,       \* the request's CancellationToken is cancelled
  expired,     \* the request's deadline has passed
  admitted,    \* free permits of the admission semaphore
  execution,   \* free permits of the execution semaphore
  line,        \* requests waiting for an execution permit, in order
  issued,      \* the last request id issued
  job,         \* the blocking inference started for each request
  engine,      \* Limiter.active of the engine
  others       \* slots of it that sessions and RPCs hold

gateVars == <<phase, work, stopped, open>>
permitVars == <<admitted, execution, line>>
jobVars == <<job, engine, others>>
vars == <<gateVars, pc, reply, token, expired, permitVars, issued, jobVars>>

Gate == INSTANCE DrainContract WITH Operations <- Requests

\* "polled": inside one poll of the handler, stop and deadline already seen
\* not to have happened.  "leaving", "unwound": the drops on the way out.
Waiting == {"reading", "queued", "running"}
Executing == {"running", "polled"}
PC == Waiting \cup {"idle", "entered", "polled", "leaving", "unwound", "done"}

Refusals == {"cancelled", "deadline", "overloaded", "too_large", "internal"}
JobReply ==
  [ok |-> "ok", invalid |-> "invalid", busy |-> "busy",
   stopped |-> "deadline", failed |-> "engine_error"]
Replies == {"none", "gone", "ok", "invalid", "busy", "engine_error"} \cup Refusals

\* "invalid": the handler refused the input and started no inference.
JobDone == DOMAIN JobReply
JobStates == JobDone \cup {"none", "spawned", "checked", "native"}

MaxAdmitted == MaxConcurrent + QueueCapacity

TypeOK ==
  /\ Gate!ContractTypeOK
  /\ pc \in [Requests -> PC]
  /\ reply \in [Requests -> Replies]
  /\ token \in [Requests -> BOOLEAN]
  /\ expired \in [Requests -> BOOLEAN]
  /\ admitted \in 0..MaxAdmitted
  /\ execution \in 0..MaxConcurrent
  /\ line \in Seq(Requests)
  /\ issued \in 0..MaxRequestId
  /\ job \in [Requests -> JobStates]
  /\ engine \in 0..EngineLimit
  /\ others \in 0..EngineLimit

Init ==
  /\ Gate!ContractInit
  /\ pc = [r \in Requests |-> "idle"]
  /\ reply = [r \in Requests |-> "none"]
  /\ token = [r \in Requests |-> FALSE]
  /\ expired = [r \in Requests |-> FALSE]
  /\ admitted = MaxAdmitted
  /\ execution = MaxConcurrent
  /\ line = <<>>
  /\ issued \in 0..MaxRequestId   \* ids taken by requests long gone
  /\ job = [r \in Requests |-> "none"]
  /\ engine = 0
  /\ others = 0

-----------------------------------------------------------------------------
(***************************************************************************)
(* Admission: gate, then admission permit, then request id.                *)
(***************************************************************************)
Goto(r, where) == pc' = [pc EXCEPT ![r] = where]
Answer(r, what) == reply' = [reply EXCEPT ![r] = what]

EnterGate(r) ==
  /\ pc[r] = "idle"
  /\ Gate!Admit(r)
  /\ Goto(r, "entered")
  /\ UNCHANGED <<reply, token, expired, permitVars, issued, jobVars>>

GateClosed(r) ==
  /\ pc[r] = "idle"
  /\ phase # "Accepting"
  /\ Goto(r, "done")
  /\ Answer(r, "cancelled")
  /\ UNCHANGED <<gateVars, token, expired, permitVars, issued, jobVars>>

\* Bug: the ceiling of the queue is applied to everything that was admitted.
OverloadedTooEarly(r) ==
  /\ pc[r] = "entered"
  /\ admitted <= MaxConcurrent
  /\ Goto(r, "unwound")
  /\ Answer(r, "overloaded")
  /\ UNCHANGED <<gateVars, token, expired, permitVars, issued, jobVars>>

Overloaded(r) ==
  /\ pc[r] = "entered"
  /\ admitted = 0
  /\ Goto(r, "unwound")
  /\ Answer(r, "overloaded")
  /\ UNCHANGED <<gateVars, token, expired, permitVars, issued, jobVars>>

TakeAdmission(r) ==
  /\ pc[r] = "entered"
  /\ admitted > 0
  /\ admitted' = admitted - 1
  /\ \/ /\ issued < MaxRequestId
        /\ issued' = issued + 1
        /\ Goto(r, "reading")
        /\ UNCHANGED reply
     \/ /\ issued = MaxRequestId
        /\ Goto(r, "leaving")
        /\ Answer(r, "internal")
        /\ UNCHANGED issued
  /\ UNCHANGED <<gateVars, token, expired, execution, line, jobVars>>

-----------------------------------------------------------------------------
(***************************************************************************)
(* The three selects.  Each is biased: the stop signal, then the deadline, *)
(* then progress.  Whatever ends a request also gives back its execution   *)
(* permit and its place in the line; cancellation and deadline cancel the  *)
(* request's token in the same breath.                                     *)
(***************************************************************************)
Without(r) ==
  LET place == CHOOSE i \in 1..Len(line) : line[i] = r
  IN  IF pc[r] = "queued"
        THEN SubSeq(line, 1, place - 1) \o SubSeq(line, place + 1, Len(line))
        ELSE line

\* Bug: only a response releases the execution permit.
EndKeepingPermit(r, why) ==
  /\ Goto(r, "leaving")
  /\ Answer(r, why)
  /\ token' = [token EXCEPT ![r] = @ \/ why \in {"cancelled", "deadline"}]
  /\ execution' = IF pc[r] = "polled" THEN execution + 1 ELSE execution
  /\ line' = Without(r)
  /\ UNCHANGED <<gateVars, expired, admitted, issued, jobVars>>

End(r, why) ==
  /\ Goto(r, "leaving")
  /\ Answer(r, why)
  /\ token' = [token EXCEPT ![r] = @ \/ why \in {"cancelled", "deadline"}]
  /\ execution' = IF pc[r] \in Executing THEN execution + 1 ELSE execution
  /\ line' = Without(r)
  /\ UNCHANGED <<gateVars, expired, admitted, issued, jobVars>>

StopWins(r) ==
  /\ pc[r] \in Waiting
  /\ stopped
  /\ End(r, "cancelled")

\* Bug: no deadline around the wait for an execution permit.
DeadlineSkipsLine(r) ==
  /\ pc[r] \in Waiting \ {"queued"}
  /\ ~stopped
  /\ expired[r]
  /\ End(r, "deadline")

DeadlineWins(r) ==
  /\ pc[r] \in Waiting
  /\ ~stopped
  /\ expired[r]
  /\ End(r, "deadline")

\* The client goes away and hyper drops the request's future at its await.
Disconnect(r) ==
  /\ pc[r] \in Waiting
  /\ End(r, "gone")

BodyTooLarge(r) ==
  /\ pc[r] = "reading"
  /\ ~stopped
  /\ End(r, "too_large")

BodyRead(r) ==
  /\ pc[r] = "reading"
  /\ ~stopped
  /\ Goto(r, "queued")
  /\ line' = Append(line, r)
  /\ UNCHANGED <<gateVars, reply, token, expired, admitted, execution, issued, jobVars>>

\* tokio's semaphore hands permits to waiters in the order they came.
AcquireExecution(r) ==
  /\ pc[r] = "queued"
  /\ ~stopped
  /\ Head(line) = r
  /\ execution > 0
  /\ execution' = execution - 1
  /\ line' = Tail(line)
  /\ Goto(r, "running")
  /\ UNCHANGED <<gateVars, reply, token, expired, admitted, issued, jobVars>>

\* One poll of the last select: stop and deadline are looked at, then the
\* handler is polled; its first poll starts the inference or refuses the input.
PollHandler(r) ==
  /\ pc[r] = "running"
  /\ ~stopped
  /\ ~expired[r]
  /\ Goto(r, "polled")
  /\ IF job[r] = "none"
       THEN \E first \in {"spawned", "invalid"} : job' = [job EXCEPT ![r] = first]
       ELSE UNCHANGED job
  /\ UNCHANGED <<gateVars, reply, token, expired, permitVars, issued, engine, others>>

Respond(r) ==
  /\ pc[r] = "polled"
  /\ job[r] \in JobDone
  /\ End(r, JobReply[job[r]])

Pending(r) ==
  /\ pc[r] = "polled"
  /\ job[r] \notin JobDone
  /\ Goto(r, "running")
  /\ UNCHANGED <<gateVars, reply, token, expired, permitVars, issued, jobVars>>

-----------------------------------------------------------------------------
(***************************************************************************)
(* The way out: locals are dropped in reverse order of declaration, so the *)
(* request token is cancelled and the admission permit returned before the *)
(* work guard goes.                                                        *)
(***************************************************************************)

\* Bug: the work guard is declared last and therefore dropped first.
GuardBeforePermit(r) ==
  /\ pc[r] = "leaving"
  /\ Gate!Leave(r)
  /\ Goto(r, "unwound")
  /\ UNCHANGED <<reply, token, expired, permitVars, issued, jobVars>>

DropPermit(r) ==
  /\ pc[r] = "leaving"
  /\ token' = [token EXCEPT ![r] = TRUE]
  /\ admitted' = admitted + 1
  /\ Goto(r, "unwound")
  /\ UNCHANGED <<gateVars, reply, expired, execution, line, issued, jobVars>>

DropGuard(r) ==
  /\ pc[r] = "unwound"
  /\ Gate!Leave(r)
  /\ Goto(r, "done")
  /\ UNCHANGED <<reply, token, expired, permitVars, issued, jobVars>>

-----------------------------------------------------------------------------
(***************************************************************************)
(* The blocking inference.  It reads the request's token and deadline      *)
(* before it asks the limiter and again before it hands its result out;    *)
(* recognition also once before its last native call, after which it ends  *)
(* as if that had returned.  Native work itself cannot be interrupted.     *)
(***************************************************************************)
Inactive(r) == token[r] \/ expired[r]

JobCheck(r) ==
  /\ job[r] = "spawned"
  /\ job' = [job EXCEPT ![r] = IF Inactive(r) THEN "stopped" ELSE "checked"]
  /\ UNCHANGED <<gateVars, pc, reply, token, expired, permitVars, issued, engine, others>>

JobAcquire(r) ==
  /\ job[r] = "checked"
  /\ IF engine < EngineLimit
       THEN job' = [job EXCEPT ![r] = "native"] /\ engine' = engine + 1
       ELSE job' = [job EXCEPT ![r] = "busy"] /\ UNCHANGED engine
  /\ UNCHANGED <<gateVars, pc, reply, token, expired, permitVars, issued, others>>

\* Bug: the permit of the limiter is returned only by a result.
JobFinishLeaksOnError(r) ==
  /\ job[r] = "native"
  /\ \/ job' = [job EXCEPT ![r] = IF Inactive(r) THEN "stopped" ELSE "ok"] /\ engine' = engine - 1
     \/ job' = [job EXCEPT ![r] = "failed"] /\ UNCHANGED engine
  /\ UNCHANGED <<gateVars, pc, reply, token, expired, permitVars, issued, others>>

JobFinish(r) ==
  /\ job[r] = "native"
  /\ \/ job' = [job EXCEPT ![r] = IF Inactive(r) THEN "stopped" ELSE "ok"]
     \/ job' = [job EXCEPT ![r] = "failed"]
  /\ engine' = engine - 1
  /\ UNCHANGED <<gateVars, pc, reply, token, expired, permitVars, issued, others>>

\* A realtime session or an RPC takes a slot of the same engine, or returns it.
Others ==
  /\ \/ engine < EngineLimit /\ engine' = engine + 1 /\ others' = others + 1
     \/ others > 0 /\ engine' = engine - 1 /\ others' = others - 1
  /\ UNCHANGED <<gateVars, pc, reply, token, expired, permitVars, issued, job>>

-----------------------------------------------------------------------------
(***************************************************************************)
(* Time and the drain: a deadline passes, the server starts to drain,      *)
(* forces the stop, and the gate announces it.                             *)
(***************************************************************************)
Timed(r) ==
  \/ pc[r] \in Waiting \cup {"polled"}
  \/ job[r] \in {"spawned", "checked", "native"}

Expire(r) ==
  /\ Timed(r)
  /\ ~expired[r]
  /\ expired' = [expired EXCEPT ![r] = TRUE]
  /\ UNCHANGED <<gateVars, pc, reply, token, permitVars, issued, jobVars>>

\* Bug: a forced stop changes the phase and nobody cancels the token.
DrainSilently ==
  /\ Gate!StartDrain \/ Gate!Force
  /\ UNCHANGED <<pc, reply, token, expired, permitVars, issued, jobVars>>

Drain ==
  /\ Gate!StartDrain \/ Gate!Force \/ (~stopped /\ Gate!Announce)
  /\ UNCHANGED <<pc, reply, token, expired, permitVars, issued, jobVars>>

-----------------------------------------------------------------------------
EnterStep(r) == EnterGate(r) \/ GateClosed(r) \/ Overloaded(r) \/ TakeAdmission(r)

BodyStep(r) == BodyRead(r) \/ BodyTooLarge(r) \/ AcquireExecution(r)

StopStep(r) == StopWins(r) \/ DeadlineWins(r)

HandlerStep(r) == PollHandler(r) \/ Respond(r) \/ Pending(r)

LeaveStep(r) == DropPermit(r) \/ DropGuard(r)

JobStep(r) == JobCheck(r) \/ JobAcquire(r) \/ JobFinish(r)

Next ==
  \/ \E r \in Requests :
       \/ EnterStep(r)
       \/ BodyStep(r)
       \/ StopStep(r)
       \/ Disconnect(r)
       \/ HandlerStep(r)
       \/ LeaveStep(r)
       \/ JobStep(r)
       \/ Expire(r)
  \/ Others
  \/ Drain

(***************************************************************************)
(* The executor polls a request whose signal, timer or handler is ready,   *)
(* and clocks advance.  Nothing makes a body arrive, an inference end, or  *)
(* a drain begin; once begun, its timer fires and the token follows.       *)
(***************************************************************************)
Fairness ==
  /\ \A r \in Requests :
       /\ WF_vars(pc[r] # "idle" /\ EnterStep(r))
       /\ WF_vars(StopStep(r))
       /\ WF_vars(HandlerStep(r))
       /\ WF_vars(LeaveStep(r))
       /\ WF_vars(Expire(r))
  /\ WF_vars(phase # "Accepting" /\ Drain)

Spec == Init /\ [][Next]_vars /\ Fairness

-----------------------------------------------------------------------------
In(stages) == {r \in Requests : pc[r] \in stages}

HoldsAdmission == In(Waiting \cup {"polled", "leaving"})
Native == {r \in Requests : job[r] = "native"}

(***************************************************************************)
(* Permits are conserved on every path out of enforce_workload_policy and  *)
(* of the engine: answers, refusals, timeouts, stops, disconnects, errors. *)
(***************************************************************************)
PermitsConserved ==
  /\ admitted = MaxAdmitted - Cardinality(HoldsAdmission)
  /\ execution = MaxConcurrent - Cardinality(In(Executing))
  /\ engine = Cardinality(Native) + others

(***************************************************************************)
(* The gate's books agree with the middleware: a graceful end of the drain *)
(* finds every semaphore permit returned and nobody in line, although the  *)
(* permits and the guard are dropped one after the other.                  *)
(***************************************************************************)
GracefulReturnsEverything ==
  phase = "Graceful" =>
    /\ admitted = MaxAdmitted
    /\ execution = MaxConcurrent
    /\ line = <<>>

(***************************************************************************)
(* The line holds exactly the requests that wait for a permit, once each:  *)
(* its head can always take a permit that is free.                         *)
(***************************************************************************)
LineIsLive ==
  /\ {line[i] : i \in 1..Len(line)} = In({"queued"})
  /\ \A i, j \in 1..Len(line) : line[i] = line[j] => i = j

(***************************************************************************)
(* The gate's work is every request between its entry and the drop of its  *)
(* guard, and after a graceful end there is none.                          *)
(***************************************************************************)
WorkIsInside ==
  /\ work = Requests \ In({"idle", "done"})
  /\ phase = "Graceful" => work = {}

(***************************************************************************)
(* The books of the middleware, whatever ends a request: its semaphores,   *)
(* the engine's limiter and the line agree with where the requests are.    *)
(***************************************************************************)
AdmissionInv == TypeOK /\ PermitsConserved /\ LineIsLive /\ WorkIsInside

(***************************************************************************)
(* "the service is temporarily overloaded" is true when it is said: max    *)
(* concurrent plus queue capacity other requests are admitted right then.  *)
(***************************************************************************)
OverloadIsReal ==
  [][\A r \in Requests :
       reply'[r] = "overloaded" /\ reply[r] # "overloaded" =>
         Cardinality(HoldsAdmission \ {r}) = MaxAdmitted]_vars

(***************************************************************************)
(* The engine's limiter equals the execution semaphore, so a request that  *)
(* holds an execution permit is refused by the engine only because a slot  *)
(* is with somebody who holds none: an inference that an answered request  *)
(* left behind, a realtime session or an RPC.  Executing requests never    *)
(* crowd each other out, and no way out of an inference loses a slot.      *)
(***************************************************************************)
BusyNeedsOutsider ==
  [][\A r \in Requests :
       job'[r] = "busy" /\ job[r] # "busy" /\ pc[r] \in Executing =>
         others > 0 \/ \E q \in Native : pc[q] \notin Executing]_vars

(***************************************************************************)
(* Every request the gate let in leaves again, even if its body never ends *)
(* and its inference never returns; after a stop all of them do.           *)
(***************************************************************************)
AdmittedIsAnswered == \A r \in Requests : pc[r] = "entered" ~> pc[r] = "done"

(***************************************************************************)
(* A drain that has begun ends: the stop signal goes up and the gate runs  *)
(* empty, whatever the clients and the engines do.                         *)
(***************************************************************************)
DrainEmptiesGate == phase # "Accepting" ~> stopped /\ work = {}
=============================================================================
