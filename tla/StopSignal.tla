----------------------------- MODULE StopSignal -----------------------------
(***************************************************************************)
(* The shutdown gate over the token it announces its end with.  The gate's *)
(* stop signal is the flag of a CancellationToken: what ShutdownGate takes *)
(* for one step is the swap of a cancel(), whose notification follows,     *)
(* while requests arm, read and sleep on the token.  Operations, drains    *)
(* and the drop of the gate can all be the one that cancels.               *)
(***************************************************************************)
EXTENDS ShutdownGate

CONSTANTS
  Observers,   \* tasks that hold the stop token and await it
  InnerDrop    \* the canceller that is Inner::drop

VARIABLES epoch, armedAt, waiter, canceller   \* see CancellationToken

tokenVars == <<epoch, armedAt, waiter, canceller>>
signalVars == <<vars, tokenVars>>

\* Who calls cancel(): the last guard, a drain or a forced stop, the drop.
Cancellers == Operations \cup Callers \cup {InnerDrop}

Token == INSTANCE CancellationToken WITH cancelled <- stopped

SignalInit == Init /\ Token!Init

\* Steps of the gate that call cancel() on its token, with who calls it.
Cancels ==
  \/ \E w \in Operations : DropGuardCancel(w) /\ Token!Swap(w)
  \/ \E d \in Callers : Publish(d) /\ Token!Swap(d)
  \/ DropInner /\ Token!Swap(InnerDrop)

GateStep ==
  /\ \/ \E w \in Operations : TryEnter(w) \/ DropGuard(w)
     \/ \E d \in Callers :
          \/ BeginDrain(d) \/ ObserveStop(d) \/ ReadOutcome(d)
          \/ Timeout(d) \/ AbortDrain(d) \/ CallStopNow(d) \/ StopNow(d)
     \/ DropOwner
  /\ UNCHANGED tokenVars

TokenStep ==
  /\ \/ \E c \in Cancellers : Token!NotifyWaiters(c)
     \/ \E o \in Observers : Token!Observe(o) \/ Token!DropFuture(o)
  /\ UNCHANGED vars

SignalNext == Cancels \/ GateStep \/ TokenStep

\* A thread inside a call of the gate or the token keeps running.
SignalSpec ==
  /\ SignalInit /\ [][SignalNext]_signalVars
  /\ Fairness
  /\ Token!Fairness

-----------------------------------------------------------------------------
(***************************************************************************)
(* The token's invariant in its place inside the gate: no missed wake-up   *)
(* and one winner, although the winner can be a guard, a drain, a forced   *)
(* stop or the drop of the gate (cancellation.rs:14).                      *)
(***************************************************************************)
TokenInv == Token!TokenInv

(***************************************************************************)
(* A gate that has ended, gracefully, by force or by being dropped, gets   *)
(* every task that waits for its stop token out of its wait.               *)
(***************************************************************************)
EveryObserverReturns ==
  \A o \in Observers :
    (phase \in Terminal \/ stopped) /\ waiter[o] # "outside"
      ~> waiter[o] \in {"returned", "dropped"}
=============================================================================
