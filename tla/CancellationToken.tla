-------------------------- MODULE CancellationToken --------------------------
(***************************************************************************)
(* The one-way cancellation primitive every other part of the server waits *)
(* on: an atomic flag and a tokio Notify.  The flag swap and the wake-up   *)
(* are two steps of cancel(), and an observer arms its notification before *)
(* it reads the flag.  What has to be right is the race between the two:   *)
(* an observer that read the flag as false must still be woken.            *)
(***************************************************************************)
EXTENDS Naturals, FiniteSets

CONSTANTS
  Observers,   \* tasks that await cancelled()
  Cancellers   \* tasks that call cancel()

VARIABLES
  cancelled,   \* State.cancelled, the atomic flag
  epoch,       \* how often Notify::notify_waiters has been called
  armedAt,     \* armedAt[o]: the epoch at which o created its Notified future
  waiter,      \* program counter of cancelled() in each observer
  canceller    \* program counter of cancel() in each canceller

vars == <<cancelled, epoch, armedAt, waiter, canceller>>

WaiterPC == {"outside", "looping", "armed", "parked", "returned", "dropped"}
CancellerPC == {"outside", "swapped", "true", "false"}

\* Only the call that wins the swap notifies, so the epoch moves once.
TypeOK ==
  /\ cancelled \in BOOLEAN
  /\ epoch \in 0..1
  /\ armedAt \in [Observers -> 0..1]
  /\ waiter \in [Observers -> WaiterPC]
  /\ canceller \in [Cancellers -> CancellerPC]

Init ==
  /\ cancelled = FALSE
  /\ epoch = 0
  /\ armedAt = [o \in Observers |-> 0]
  /\ waiter = [o \in Observers |-> "outside"]
  /\ canceller = [c \in Cancellers |-> "outside"]

-----------------------------------------------------------------------------
(***************************************************************************)
(* cancel(): the swap decides which caller changed the state; only that    *)
(* caller goes on to notify, the others return false at once.              *)
(***************************************************************************)

\* Bug: a plain store, every caller believes it changed the flag.
StoreWithoutTest(c) ==
  /\ canceller[c] = "outside"
  /\ canceller' = [canceller EXCEPT ![c] = "swapped"]
  /\ cancelled' = TRUE
  /\ UNCHANGED <<epoch, armedAt, waiter>>

Swap(c) ==
  /\ canceller[c] = "outside"
  /\ canceller' = [canceller EXCEPT ![c] = IF cancelled THEN "false" ELSE "swapped"]
  /\ cancelled' = TRUE
  /\ UNCHANGED <<epoch, armedAt, waiter>>

NotifyWaiters(c) ==
  /\ canceller[c] = "swapped"
  /\ canceller' = [canceller EXCEPT ![c] = "true"]
  /\ epoch' = epoch + 1
  /\ UNCHANGED <<cancelled, armedAt, waiter>>

-----------------------------------------------------------------------------
(***************************************************************************)
(* cancelled(): arm a notification, read the flag, sleep, start again.     *)
(***************************************************************************)
Arm(o) ==
  /\ waiter[o] \in {"outside", "looping"}
  /\ waiter' = [waiter EXCEPT ![o] = "armed"]
  /\ armedAt' = [armedAt EXCEPT ![o] = epoch]
  /\ UNCHANGED <<cancelled, epoch, canceller>>

Check(o) ==
  /\ waiter[o] = "armed"
  /\ waiter' = [waiter EXCEPT ![o] = IF cancelled THEN "returned" ELSE "parked"]
  /\ UNCHANGED <<cancelled, epoch, armedAt, canceller>>

\* tokio completes a Notified future once notify_waiters has been called after
\* the future was created, whether or not it had been polled.
Woken(o) == epoch > armedAt[o]

Wake(o) ==
  /\ waiter[o] = "parked"
  /\ Woken(o)
  /\ waiter' = [waiter EXCEPT ![o] = "looping"]
  /\ UNCHANGED <<cancelled, epoch, armedAt, canceller>>

\* Bug: the flag is read before the notification is created.
CheckBeforeArm(o) ==
  \/ /\ waiter[o] \in {"outside", "looping"}
     /\ waiter' = [waiter EXCEPT ![o] = IF cancelled THEN "returned" ELSE "armed"]
     /\ UNCHANGED <<cancelled, epoch, armedAt, canceller>>
  \/ /\ waiter[o] = "armed"
     /\ waiter' = [waiter EXCEPT ![o] = "parked"]
     /\ armedAt' = [armedAt EXCEPT ![o] = epoch]
     /\ UNCHANGED <<cancelled, epoch, canceller>>
  \/ Wake(o)

Observe(o) == Arm(o) \/ Check(o) \/ Wake(o)

\* The future is dropped at its await point: it lost a select! or a timeout.
DropFuture(o) ==
  /\ waiter[o] = "parked"
  /\ waiter' = [waiter EXCEPT ![o] = "dropped"]
  /\ UNCHANGED <<cancelled, epoch, armedAt, canceller>>

-----------------------------------------------------------------------------
Next ==
  \/ \E c \in Cancellers : Swap(c) \/ NotifyWaiters(c)
  \/ \E o \in Observers : Observe(o) \/ DropFuture(o)

\* A call that has started is executed by a running thread; nobody has to call.
Fairness ==
  /\ \A c \in Cancellers : WF_vars(NotifyWaiters(c))
  /\ \A o \in Observers : WF_vars(waiter[o] # "outside" /\ Observe(o))

Spec == Init /\ [][Next]_vars /\ Fairness

-----------------------------------------------------------------------------
NotifyPending == \E c \in Cancellers : canceller[c] = "swapped"

(***************************************************************************)
(* "no missed wakeups" (cancellation.rs:14): once the flag is set and the  *)
(* winning cancel() has finished, nobody is asleep without a wake-up that  *)
(* is already on its way.                                                  *)
(***************************************************************************)
NoMissedWakeup ==
  \A o \in Observers :
    waiter[o] = "parked" /\ cancelled /\ ~NotifyPending => Woken(o)

(***************************************************************************)
(* cancel() "returns whether this call changed the state": once the flag   *)
(* is set exactly one call is or was the one that set it, however many     *)
(* race, and no observer returns before it.                                *)
(***************************************************************************)
Winners == {c \in Cancellers : canceller[c] \in {"swapped", "true"}}

OneWinner ==
  /\ \A c, d \in Winners : c = d
  /\ cancelled <=> Winners # {}
  /\ \A o \in Observers : waiter[o] = "returned" => cancelled

\* The swap and the notification in numbers: the epoch moves after the flag, and
\* nobody falls asleep on a notification that was armed after the epoch moved.
EpochFollows ==
  /\ epoch = 1 <=> cancelled /\ ~NotifyPending
  /\ \A o \in Observers : armedAt[o] <= epoch
  /\ \A o \in Observers : waiter[o] = "parked" => armedAt[o] = 0

(***************************************************************************)
(* The invariant of the token, for any number of observers and cancellers. *)
(***************************************************************************)
TokenInv == TypeOK /\ NoMissedWakeup /\ OneWinner /\ EpochFollows

(***************************************************************************)
(* cancel() "cancels all current and future observers": whoever is or gets *)
(* into cancelled() once the flag is set gets out of it again, by a return *)
(* or because its future was dropped.                                      *)
(***************************************************************************)
EveryObserverReturns ==
  \A o \in Observers :
    cancelled /\ waiter[o] # "outside" ~> waiter[o] \in {"returned", "dropped"}
=============================================================================
