---------------------------- MODULE DrainContract ----------------------------
(***************************************************************************)
(* What the admission gate promises the rest of the server, without locks, *)
(* counters or callers: operations are admitted while it accepts, a drain  *)
(* is graceful exactly when the last admitted operation has left, a forced *)
(* stop is possible at any time before that, the terminal phase is final   *)
(* and the stop signal follows it.  ShutdownGate implements this; the      *)
(* request and server modules are built on it.                             *)
(***************************************************************************)
EXTENDS Naturals, FiniteSets

CONSTANT Operations   \* units of work that hold a WorkGuard while they run

VARIABLES
  phase,     \* Accepting, Draining, or the terminal outcome
  work,      \* operations admitted and not yet finished
  stopped,   \* the stop token has been cancelled
  open       \* some handle to the gate still exists outside the guards

contractVars == <<phase, work, stopped, open>>

Terminal == {"Graceful", "Forced"}
Phases == {"Accepting", "Draining"} \cup Terminal

ContractTypeOK ==
  /\ phase \in Phases
  /\ work \subseteq Operations
  /\ stopped \in BOOLEAN
  /\ open \in BOOLEAN

ContractInit ==
  /\ phase = "Accepting"
  /\ work = {}
  /\ stopped = FALSE
  /\ open = TRUE

Admit(w) ==
  /\ open
  /\ phase = "Accepting"
  /\ w \notin work
  /\ work' = work \cup {w}
  /\ UNCHANGED <<phase, stopped, open>>

\* The last operation to leave a draining gate completes the drain.
Leave(w) ==
  /\ w \in work
  /\ work' = work \ {w}
  /\ phase' = IF phase = "Draining" /\ work' = {} THEN "Graceful" ELSE phase
  /\ UNCHANGED <<stopped, open>>

StartDrain ==
  /\ open
  /\ phase = "Accepting"
  /\ phase' = IF work = {} THEN "Graceful" ELSE "Draining"
  /\ UNCHANGED <<work, stopped, open>>

Force ==
  /\ phase \notin Terminal
  /\ phase' = "Forced"
  /\ UNCHANGED <<work, stopped, open>>

Announce ==
  /\ phase \in Terminal
  /\ stopped' = TRUE
  /\ UNCHANGED <<phase, work, open>>

Release ==
  /\ open
  /\ open' = FALSE
  /\ UNCHANGED <<phase, work, stopped>>

\* Nobody is left who could ever stop the gate: its waiters are let go.
Abandon ==
  /\ ~open
  /\ work = {}
  /\ stopped' = TRUE
  /\ UNCHANGED <<phase, work, open>>

ContractNext ==
  \/ \E w \in Operations : Admit(w) \/ Leave(w)
  \/ StartDrain
  \/ Force
  \/ Announce
  \/ Release
  \/ Abandon

ContractSafety == ContractInit /\ [][ContractNext]_contractVars

\* The stop signal is not withheld forever.
ContractSpec ==
  /\ ContractSafety
  /\ WF_contractVars(Announce)
  /\ WF_contractVars(Abandon)
=============================================================================
