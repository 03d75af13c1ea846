----------------------------- MODULE ShutdownGate -----------------------------
(***************************************************************************)
(* The admission gate and bounded shutdown coordinator of the server core: *)
(* a phase and a counter under one mutex, and a stop token that is         *)
(* cancelled only after the mutex is released.  Every critical section is  *)
(* one action and every cancel() of the token is another, so operations    *)
(* and callers interleave between the two as they do in the code.          *)
(***************************************************************************)
EXTENDS Naturals, FiniteSets

CONSTANTS
  Operations,   \* requests that enter and leave the gate
  Callers,      \* tasks that call drain() or stop_now(), once each
  Unbounded,    \* callers whose timeout overflows the clock: no deadline
  MaxActive     \* usize::MAX, where checked_add refuses admission

ASSUME GateAssumption ==
  /\ IsFiniteSet(Operations)
  /\ Unbounded \subseteq Callers
  /\ MaxActive \in Nat

VARIABLES
  phase,     \* State.phase
  active,    \* State.active
  stopped,   \* Inner.stopped is cancelled
  owner,     \* a ShutdownGate handle exists outside guards and calls
  op,        \* program counter of each operation
  call,      \* program counter of each caller
  verdict    \* what drain() returned to each caller

vars == <<phase, active, stopped, owner, op, call, verdict>>

Terminal == {"Graceful", "Forced"}
Phases == {"Accepting", "Draining"} \cup Terminal

\* "completing": its drop finished the drain and has yet to cancel the token.
OpPC == {"outside", "working", "completing"}

\* Before the critical section of stop_now: after a timeout, or for any other
\* reason.  Before the cancel() that follows a critical section: three origins.
StopPC == {"late", "stopping"}
PublishPC == {"drained", "lateForced", "forced"}
CallPC == {"idle", "waiting", "woken", "returned"} \cup StopPC \cup PublishPC

TypeOK ==
  /\ phase \in Phases
  /\ active \in Nat
  /\ stopped \in BOOLEAN
  /\ owner \in BOOLEAN
  /\ op \in [Operations -> OpPC]
  /\ call \in [Callers -> CallPC]
  /\ verdict \in [Callers -> Terminal \cup {"none"}]

Working == {w \in Operations : op[w] = "working"}

\* A call borrows the handle it was made on, so the handle outlives it.
InCall(d) == call[d] \notin {"idle", "returned"}

Init ==
  /\ phase = "Accepting"
  /\ active = 0
  /\ stopped = FALSE
  /\ owner = TRUE
  /\ op = [w \in Operations |-> "outside"]
  /\ call = [d \in Callers |-> "idle"]
  /\ verdict = [d \in Callers |-> "none"]

-----------------------------------------------------------------------------
(***************************************************************************)
(* Operations: try_enter and the drop of the WorkGuard it returned.        *)
(***************************************************************************)

Enter(w, admitting) ==
  /\ owner
  /\ op[w] = "outside"
  /\ admitting
  /\ active < MaxActive
  /\ active' = active + 1
  /\ op' = [op EXCEPT ![w] = "working"]
  /\ UNCHANGED <<phase, stopped, owner, call, verdict>>

\* Bug: admission only looks for a terminal phase.
EnterWhileDraining(w) == Enter(w, phase \notin Terminal)

TryEnter(w) == Enter(w, phase = "Accepting")

Remaining == IF active > 0 THEN active - 1 ELSE 0

Drop(w, completed, next) ==
  /\ op[w] = "working"
  /\ active' = Remaining
  /\ phase' = IF completed THEN "Graceful" ELSE phase
  /\ op' = [op EXCEPT ![w] = IF completed THEN next ELSE "outside"]
  /\ UNCHANGED <<stopped, owner, call, verdict>>

\* Bug: the drop completes the drain and cancels no token.
DropGuardSilently(w) == Drop(w, phase = "Draining" /\ Remaining = 0, "outside")

DropGuard(w) == Drop(w, phase = "Draining" /\ Remaining = 0, "completing")

DropGuardCancel(w) ==
  /\ op[w] = "completing"
  /\ stopped' = TRUE
  /\ op' = [op EXCEPT ![w] = "outside"]
  /\ UNCHANGED <<phase, active, owner, call, verdict>>

-----------------------------------------------------------------------------
(***************************************************************************)
(* drain(timeout): begin_drain is one critical section with three exits.   *)
(***************************************************************************)
Return(d, outcome) ==
  /\ call' = [call EXCEPT ![d] = "returned"]
  /\ verdict' = [verdict EXCEPT ![d] = outcome]

DrainAfterStop(d) ==
  /\ phase \in Terminal
  /\ Return(d, phase)
  /\ UNCHANGED phase

DrainIdleGate(d) ==
  /\ phase \notin Terminal
  /\ active = 0
  /\ phase' = "Graceful"
  /\ call' = [call EXCEPT ![d] = "drained"]
  /\ UNCHANGED verdict

DrainBusyGate(d) ==
  /\ phase \notin Terminal
  /\ active > 0
  /\ phase' = "Draining"
  /\ call' = [call EXCEPT ![d] = "waiting"]
  /\ UNCHANGED verdict

BeginDrain(d) ==
  /\ owner
  /\ call[d] = "idle"
  /\ DrainAfterStop(d) \/ DrainIdleGate(d) \/ DrainBusyGate(d)
  /\ UNCHANGED <<active, stopped, owner, op>>

\* timeout_at polls the token before the timer.
ObserveStop(d) ==
  /\ call[d] = "waiting"
  /\ stopped
  /\ call' = [call EXCEPT ![d] = "woken"]
  /\ UNCHANGED <<phase, active, stopped, owner, op, verdict>>

TerminalOutcome == IF phase \in Terminal THEN phase ELSE "Forced"

ReadOutcome(d) ==
  /\ call[d] = "woken"
  /\ Return(d, TerminalOutcome)
  /\ UNCHANGED <<phase, active, stopped, owner, op>>

\* Bug: no timer is armed for this wait.
NeverTimesOut(d) == FALSE /\ UNCHANGED vars

Timeout(d) ==
  /\ d \notin Unbounded
  /\ call[d] = "waiting"
  /\ ~stopped
  /\ call' = [call EXCEPT ![d] = "late"]
  /\ UNCHANGED <<phase, active, stopped, owner, op, verdict>>

\* The drain future is dropped at its await: DrainCancellationGuard::drop.
AbortDrain(d) ==
  /\ call[d] = "waiting"
  /\ call' = [call EXCEPT ![d] = "stopping"]
  /\ UNCHANGED <<phase, active, stopped, owner, op, verdict>>

-----------------------------------------------------------------------------
(***************************************************************************)
(* stop_now(): called directly, by a drain that timed out, or by the drop  *)
(* of a drain; a critical section and then the token.                      *)
(***************************************************************************)
CallStopNow(d) ==
  /\ owner
  /\ call[d] = "idle"
  /\ call' = [call EXCEPT ![d] = "stopping"]
  /\ UNCHANGED <<phase, active, stopped, owner, op, verdict>>

EndStop(d, outcome) ==
  /\ call[d] \in StopPC
  /\ phase' = outcome
  /\ call' = [call EXCEPT ![d] = IF call[d] = "late" THEN "lateForced" ELSE "forced"]
  /\ UNCHANGED <<active, stopped, owner, op, verdict>>

StopNow(d) == EndStop(d, IF phase \in Terminal THEN phase ELSE "Forced")

PublishedVerdict(pc) ==
  CASE pc = "drained" -> "Graceful"
    [] pc = "lateForced" -> "Forced"
    [] OTHER -> "none"

Publish(d) ==
  /\ call[d] \in PublishPC
  /\ stopped' = TRUE
  /\ Return(d, PublishedVerdict(call[d]))
  /\ UNCHANGED <<phase, active, owner, op>>

-----------------------------------------------------------------------------
(***************************************************************************)
(* Ownership: the gate is an Arc; when the last clone goes, the drop of    *)
(* Inner cancels the token for observers that kept only the token.         *)
(***************************************************************************)
DropOwner ==
  /\ owner
  /\ \A d \in Callers : ~InCall(d)
  /\ owner' = FALSE
  /\ UNCHANGED <<phase, active, stopped, op, call, verdict>>

Unreachable == ~owner /\ \A w \in Operations : op[w] = "outside"

DropInner ==
  /\ Unreachable
  /\ ~stopped
  /\ stopped' = TRUE
  /\ UNCHANGED <<phase, active, owner, op, call, verdict>>

-----------------------------------------------------------------------------
OpStep(w) == TryEnter(w) \/ DropGuard(w) \/ DropGuardCancel(w)

CallStep(d) ==
  \/ BeginDrain(d)
  \/ ObserveStop(d)
  \/ ReadOutcome(d)
  \/ Timeout(d)
  \/ AbortDrain(d)
  \/ CallStopNow(d)
  \/ StopNow(d)
  \/ Publish(d)

Next ==
  \/ \E w \in Operations : OpStep(w)
  \/ \E d \in Callers : CallStep(d)
  \/ DropOwner
  \/ DropInner

(***************************************************************************)
(* A thread inside a call or a drop keeps running and a timer fires.       *)
(* Nothing makes an operation finish, a caller call or an owner let go.    *)
(***************************************************************************)
Fairness ==
  /\ \A w \in Operations : WF_vars(DropGuardCancel(w))
  /\ \A d \in Callers :
       /\ WF_vars(ObserveStop(d))
       /\ WF_vars(ReadOutcome(d))
       /\ WF_vars(Timeout(d))
       /\ WF_vars(StopNow(d))
       /\ WF_vars(Publish(d))
  /\ WF_vars(DropInner)

Spec == Init /\ [][Next]_vars /\ Fairness

-----------------------------------------------------------------------------
(***************************************************************************)
(* The counter the drain decision is taken on is the number of guards that *)
(* are really held (try_enter's checked_add, the drop's saturating_sub).   *)
(***************************************************************************)
GuardsCounted == active = Cardinality(Working)

(***************************************************************************)
(* A draining gate has work in it: otherwise no drop is left to complete   *)
(* the drain and an unbounded drain() would wait forever.                  *)
(***************************************************************************)
DrainingHasWork == phase = "Draining" => Working # {}

(***************************************************************************)
(* DrainOutcome::Graceful: "Every admitted operation completed within the  *)
(* bound", however late guards, timeouts and forced stops race.            *)
(***************************************************************************)
GracefulMeansDrained == phase = "Graceful" => Working = {}

(***************************************************************************)
(* stop_token() is cancelled only for a terminal gate or one that nobody   *)
(* can reach any more: no admitted operation is told to stop by mistake.   *)
(***************************************************************************)
StopSignalIsTerminal == stopped => phase \in Terminal \/ Unreachable

(***************************************************************************)
(* Between the critical section that ends the gate and the cancel() that   *)
(* announces it, somebody is on the way to that cancel().                  *)
(***************************************************************************)
TerminalIsAnnounced ==
  phase \in Terminal /\ ~stopped =>
    \/ \E w \in Operations : op[w] = "completing"
    \/ \E d \in Callers : call[d] \in PublishPC

(***************************************************************************)
(* What drain() returns agrees with the terminal phase, with the one       *)
(* exception the code has: a caller whose own timer fired reports Forced   *)
(* although the last guard may have completed the drain meanwhile.  The    *)
(* defensive branch of terminal_outcome is never taken.                    *)
(***************************************************************************)
VerdictSound ==
  \A d \in Callers :
    /\ verdict[d] = "Graceful" => phase = "Graceful"
    /\ verdict[d] = "Forced" => phase = "Forced" \/ (phase = "Graceful" /\ d \notin Unbounded)
    /\ call[d] = "woken" => phase \in Terminal

(***************************************************************************)
(* What the program counters know about the phase; with the properties     *)
(* above it makes the inductive invariant of the proofs.                   *)
(***************************************************************************)
CallsConsistent ==
  /\ \A w \in Operations : op[w] = "completing" => phase = "Graceful"
  /\ \A d \in Callers :
       /\ InCall(d) => owner
       /\ call[d] = "drained" => phase = "Graceful"
       /\ call[d] \in PublishPC => phase \in Terminal
       /\ call[d] \in {"late", "lateForced"} => d \notin Unbounded

GateInv ==
  /\ TypeOK
  /\ GuardsCounted
  /\ DrainingHasWork
  /\ GracefulMeansDrained
  /\ StopSignalIsTerminal
  /\ TerminalIsAnnounced
  /\ VerdictSound
  /\ CallsConsistent

(***************************************************************************)
(* The phase only advances and a terminal phase is final: stop_now, late   *)
(* guards and further drains leave the recorded outcome alone, and a stop  *)
(* signal is never withdrawn.                                              *)
(***************************************************************************)
Rank == [p \in Phases |-> CASE p = "Accepting" -> 0 [] p = "Draining" -> 1 [] OTHER -> 2]

PhaseOnlyAdvances ==
  [][/\ phase' # phase => Rank[phase'] > Rank[phase]
     /\ stopped => stopped']_vars

(***************************************************************************)
(* drain(timeout) with a representable deadline returns, even if no        *)
(* operation ever leaves (test drain_is_bounded_when_work_is_retained).    *)
(***************************************************************************)
BoundedDrainReturns ==
  \A d \in Callers \ Unbounded : call[d] = "waiting" ~> call[d] = "returned"

(***************************************************************************)
(* The gate implements its contract: the counter stands for a set of       *)
(* operations, and the stop signal follows the terminal phase.             *)
(***************************************************************************)
Contract == INSTANCE DrainContract WITH work <- Working, open <- owner

ImplementsContract == Contract!ContractSpec
=============================================================================
