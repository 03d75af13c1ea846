------------------------- MODULE ShutdownGateProofs -------------------------
(***************************************************************************)
(* What the admission gate guarantees for every set of operations, every   *)
(* set of callers and every ceiling of the counter, alone and together     *)
(* with the token it announces its end with.                               *)
(***************************************************************************)
EXTENDS StopSignal, FiniteSetTheorems, TLAPS

(***************************************************************************)
(* Three ways the set of guard holders can change, and what each does to   *)
(* its size; the counter follows them in TryEnter and DropGuard.           *)
(***************************************************************************)

\* The guard holders are finitely many and their number is a natural number.
LEMMA WorkingFinite ==
  /\ IsFiniteSet(Working)
  /\ Cardinality(Working) \in Nat
  /\ Cardinality(Working) = 0 <=> Working = {}
<1>1. Working \in SUBSET Operations
  BY DEF Working
<1>2. IsFiniteSet(Working)
  BY <1>1, FS_Subset, GateAssumption
<1> QED
  BY <1>2, FS_CardinalityType, FS_EmptySet

\* One operation more is inside after it was given a guard.
LEMMA WorkingGrows ==
  ASSUME NEW w \in Operations, op \in [Operations -> OpPC], op[w] = "outside",
         op' = [op EXCEPT ![w] = "working"]
  PROVE  /\ Working' = Working \cup {w}
         /\ Cardinality(Working') = Cardinality(Working) + 1
<1>1. Working' = Working \cup {w} /\ w \notin Working
  BY DEF Working, OpPC
<1>2. Cardinality(Working \cup {w}) = Cardinality(Working) + 1
  BY <1>1, WorkingFinite, FS_AddElement
<1> QED
  BY <1>1, <1>2

\* One operation less is inside after it dropped its guard.
LEMMA WorkingShrinks ==
  ASSUME NEW w \in Operations, op \in [Operations -> OpPC], op[w] = "working",
         NEW pc \in {"outside", "completing"},
         op' = [op EXCEPT ![w] = pc]
  PROVE  /\ Working' = Working \ {w}
         /\ Cardinality(Working') = Cardinality(Working) - 1
<1>1. Working' = Working \ {w} /\ w \in Working
  BY DEF Working, OpPC
<1>2. Cardinality(Working \ {w}) = Cardinality(Working) - 1
  BY <1>1, WorkingFinite, FS_RemoveElement
<1> QED
  BY <1>1, <1>2

\* Announcing the end of the drain does not change who is inside.
LEMMA WorkingUnchanged ==
  ASSUME NEW w \in Operations, op \in [Operations -> OpPC], op[w] = "completing",
         op' = [op EXCEPT ![w] = "outside"]
  PROVE  Working' = Working
  BY DEF Working, OpPC

-----------------------------------------------------------------------------
\* The initial state satisfies the invariant: an accepting gate with nobody in.
LEMMA GateInvInit == Init => GateInv
<1> SUFFICES ASSUME Init PROVE GateInv
  OBVIOUS
<1>1. TypeOK
  BY DEF Init, TypeOK, Phases, Terminal, OpPC, CallPC
<1>2. Working = {}
  BY DEF Init, Working
<1>3. GuardsCounted
  BY <1>2, FS_EmptySet DEF Init, GuardsCounted
<1>4. DrainingHasWork /\ GracefulMeansDrained /\ StopSignalIsTerminal /\ TerminalIsAnnounced
  BY DEF Init, DrainingHasWork, GracefulMeansDrained, StopSignalIsTerminal,
         TerminalIsAnnounced, Terminal
<1>5. VerdictSound /\ CallsConsistent
  BY DEF Init, VerdictSound, CallsConsistent, InCall, PublishPC
<1> QED
  BY <1>1, <1>3, <1>4, <1>5 DEF GateInv

\* An operation step keeps the invariant.
LEMMA GateInvOp ==
  ASSUME GateInv, NEW w \in Operations, OpStep(w)
  PROVE  GateInv'
<1> USE DEF GateInv
<1>1. CASE TryEnter(w)
  <2>1. Working' = Working \cup {w} /\ Cardinality(Working') = Cardinality(Working) + 1
    BY <1>1, WorkingGrows DEF TryEnter, Enter, TypeOK
  <2>2. TypeOK'
    BY <1>1 DEF TryEnter, Enter, TypeOK, OpPC
  <2>3. GuardsCounted'
    BY <1>1, <2>1 DEF TryEnter, Enter, GuardsCounted
  <2>4. DrainingHasWork' /\ GracefulMeansDrained' /\ StopSignalIsTerminal' /\ TerminalIsAnnounced'
    BY <1>1, <2>1 DEF TryEnter, Enter, DrainingHasWork, GracefulMeansDrained,
       StopSignalIsTerminal, TerminalIsAnnounced, Terminal, Unreachable
  <2>5. VerdictSound' /\ CallsConsistent'
    BY <1>1 DEF TryEnter, Enter, TypeOK, VerdictSound, CallsConsistent, InCall, OpPC
  <2> QED
    BY <2>2, <2>3, <2>4, <2>5
<1>2. CASE DropGuard(w)
  <2> DEFINE completed == phase = "Draining" /\ Remaining = 0
             pc == IF completed THEN "completing" ELSE "outside"
  <2>1. /\ op[w] = "working"
        /\ active' = Remaining
        /\ phase' = IF completed THEN "Graceful" ELSE phase
        /\ op' = [op EXCEPT ![w] = pc]
        /\ UNCHANGED <<stopped, owner, call, verdict>>
    BY <1>2 DEF DropGuard, Drop
  <2>2. Working' = Working \ {w} /\ Cardinality(Working') = Cardinality(Working) - 1
    BY <2>1, WorkingShrinks DEF TypeOK
  <2>3. active > 0 /\ Remaining = active - 1 /\ Remaining \in Nat
    <3>1. w \in Working
      BY <2>1 DEF Working
    <3> QED
      BY <3>1, WorkingFinite DEF GuardsCounted, Remaining, TypeOK
  <2>4. TypeOK'
    BY <2>1, <2>3 DEF TypeOK, OpPC, Phases, Terminal
  <2>5. GuardsCounted'
    BY <2>1, <2>2, <2>3 DEF GuardsCounted
  <2>6. Remaining = 0 <=> Working' = {}
    <3>1. IsFiniteSet(Working')
      BY <2>2, WorkingFinite, FS_RemoveElement
    <3> QED
      BY <3>1, <2>1, <2>5, FS_EmptySet DEF GuardsCounted
  <2>7. DrainingHasWork' /\ GracefulMeansDrained'
    BY <2>1, <2>2, <2>6 DEF DrainingHasWork, GracefulMeansDrained
  <2>8. StopSignalIsTerminal' /\ TerminalIsAnnounced'
    BY <2>1 DEF StopSignalIsTerminal, TerminalIsAnnounced, Unreachable, Terminal, TypeOK, OpPC
  <2>9. VerdictSound' /\ CallsConsistent'
    BY <2>1 DEF VerdictSound, CallsConsistent, InCall, TypeOK, OpPC, Terminal
  <2> QED
    BY <2>4, <2>5, <2>7, <2>8, <2>9
<1>3. CASE DropGuardCancel(w)
  <2>1. Working' = Working
    BY <1>3, WorkingUnchanged DEF DropGuardCancel, TypeOK
  <2>2. TypeOK' /\ VerdictSound' /\ CallsConsistent'
    BY <1>3 DEF DropGuardCancel, TypeOK, OpPC, VerdictSound, CallsConsistent, InCall
  <2>3. GuardsCounted' /\ DrainingHasWork' /\ GracefulMeansDrained'
    BY <1>3, <2>1 DEF DropGuardCancel, GuardsCounted, DrainingHasWork, GracefulMeansDrained
  <2>4. StopSignalIsTerminal' /\ TerminalIsAnnounced'
    BY <1>3 DEF DropGuardCancel, StopSignalIsTerminal, TerminalIsAnnounced, CallsConsistent,
                Unreachable, Terminal
  <2> QED
    BY <2>2, <2>3, <2>4
<1> QED
  BY <1>1, <1>2, <1>3 DEF OpStep

\* A step of a drain() or stop_now() call keeps the invariant.
LEMMA GateInvCall ==
  ASSUME GateInv, NEW d \in Callers, CallStep(d)
  PROVE  GateInv'
<1> USE DEF GateInv
<1>1. op' = op /\ active' = active /\ owner' = owner
  BY DEF CallStep, BeginDrain, ObserveStop, ReadOutcome, Timeout, AbortDrain, CallStopNow,
         StopNow, EndStop, Publish
<1>2. Working' = Working
  BY <1>1 DEF Working
<1>3. TypeOK'
  BY DEF TypeOK, CallStep, BeginDrain, DrainAfterStop, DrainIdleGate, DrainBusyGate, Return,
         ObserveStop, ReadOutcome, TerminalOutcome, Timeout, AbortDrain, CallStopNow,
         StopNow, EndStop, Publish, PublishedVerdict, CallPC, StopPC, PublishPC, Phases, Terminal
<1>4. GuardsCounted'
  BY <1>1, <1>2 DEF GuardsCounted
<1>5. DrainingHasWork' /\ GracefulMeansDrained'
  <2>1. active = 0 <=> Working = {}
    BY WorkingFinite DEF GuardsCounted
  <2> QED
    BY <1>2, <2>1 DEF TypeOK, DrainingHasWork, GracefulMeansDrained, CallStep, BeginDrain,
                      DrainAfterStop,
       DrainIdleGate, DrainBusyGate, Return, ObserveStop, ReadOutcome, Timeout, AbortDrain,
       CallStopNow, StopNow, EndStop, Publish, Terminal
<1>6. /\ phase \in Terminal => phase' = phase
      /\ stopped' = stopped \/ (stopped' = TRUE /\ phase \in Terminal)
  BY DEF CallStep, BeginDrain, DrainAfterStop, DrainIdleGate, DrainBusyGate, Return, ObserveStop,
         ReadOutcome, Timeout, AbortDrain, CallStopNow, StopNow, EndStop, Publish, CallsConsistent
<1>7. StopSignalIsTerminal'
  BY <1>1, <1>6 DEF StopSignalIsTerminal, Unreachable
<1>8. TerminalIsAnnounced'
  BY <1>1 DEF TypeOK, TerminalIsAnnounced, CallStep, BeginDrain, DrainAfterStop, DrainIdleGate,
     DrainBusyGate, Return, ObserveStop, ReadOutcome, Timeout, AbortDrain, CallStopNow, StopNow,
     EndStop, Publish, Terminal, StopPC, PublishPC
<1>9. CallsConsistent'
  BY <1>1, <1>6 DEF TypeOK, CallsConsistent, InCall, CallStep, BeginDrain, DrainAfterStop,
     DrainIdleGate, DrainBusyGate, Return, ObserveStop, ReadOutcome, Timeout, AbortDrain,
     CallStopNow, StopNow, EndStop, Publish, Terminal, StopPC, PublishPC
<1>10. VerdictSound'
  <2>1. call[d] = "waiting" /\ stopped => phase \in Terminal
    BY DEF CallsConsistent, InCall, StopSignalIsTerminal, Unreachable
  <2> QED
    BY <1>6, <2>1 DEF TypeOK, VerdictSound, CallsConsistent, CallStep, BeginDrain, DrainAfterStop,
       DrainIdleGate, DrainBusyGate, Return, ObserveStop, ReadOutcome, TerminalOutcome, Timeout,
       AbortDrain, CallStopNow, StopNow, EndStop, Publish, PublishedVerdict, Terminal, StopPC,
       PublishPC
<1> QED
  BY <1>3, <1>4, <1>5, <1>7, <1>8, <1>9, <1>10

\* Letting go of the handles keeps the invariant.
LEMMA GateInvOwner ==
  ASSUME GateInv, DropOwner \/ DropInner
  PROVE  GateInv'
<1> USE DEF GateInv
<1>1. /\ phase' = phase /\ active' = active /\ op' = op
      /\ call' = call /\ verdict' = verdict
  BY DEF DropOwner, DropInner
<1>2. Working' = Working
  BY <1>1 DEF Working
<1>3. TypeOK' /\ VerdictSound'
  BY <1>1 DEF DropOwner, DropInner, TypeOK, VerdictSound
<1>4. GuardsCounted' /\ DrainingHasWork' /\ GracefulMeansDrained'
  BY <1>1, <1>2 DEF GuardsCounted, DrainingHasWork, GracefulMeansDrained
<1>5. StopSignalIsTerminal' /\ TerminalIsAnnounced'
  BY <1>1 DEF DropOwner, DropInner, StopSignalIsTerminal, TerminalIsAnnounced, Unreachable, InCall
<1>6. CallsConsistent'
  BY <1>1 DEF DropOwner, DropInner, CallsConsistent, InCall, Unreachable
<1> QED
  BY <1>3, <1>4, <1>5, <1>6

\* Every step of the gate keeps the invariant.
LEMMA GateInvStep == GateInv /\ [Next]_vars => GateInv'
<1> SUFFICES ASSUME GateInv, [Next]_vars PROVE GateInv'
  OBVIOUS
<1>1. CASE UNCHANGED vars
  <2>1. Working' = Working
    BY <1>1 DEF vars, Working
  <2> QED
    BY <1>1, <2>1 DEF GateInv, vars, TypeOK, GuardsCounted, DrainingHasWork,
       GracefulMeansDrained, StopSignalIsTerminal, TerminalIsAnnounced, VerdictSound,
       CallsConsistent, InCall, Unreachable
<1>2. CASE Next
  BY <1>2, GateInvOp, GateInvCall, GateInvOwner DEF Next
<1> QED
  BY <1>1, <1>2

-----------------------------------------------------------------------------
\* The invariant of the gate, for every instance.
THEOREM GateInvariant == Spec => []GateInv
  BY GateInvInit, GateInvStep, PTL DEF Spec

(***************************************************************************)
(* The counter is exact, a draining gate has work left, and a graceful end *)
(* means that nobody is inside (the drop of WorkGuard, begin_drain).       *)
(***************************************************************************)
THEOREM DrainAccounting ==
  Spec => []TypeOK /\ []GuardsCounted /\ []DrainingHasWork /\ []GracefulMeansDrained
<1>1. GateInv => TypeOK /\ GuardsCounted /\ DrainingHasWork /\ GracefulMeansDrained
  BY DEF GateInv
<1> QED
  BY <1>1, GateInvariant, PTL

(***************************************************************************)
(* The stop signal is raised only for a terminal or unreachable gate, and  *)
(* a terminal gate whose signal is down has a thread about to raise it     *)
(* (the cancel() calls after each critical section).                       *)
(***************************************************************************)
THEOREM StopSignal == Spec => []StopSignalIsTerminal /\ []TerminalIsAnnounced
<1>1. GateInv => StopSignalIsTerminal /\ TerminalIsAnnounced
  BY DEF GateInv
<1> QED
  BY <1>1, GateInvariant, PTL

(***************************************************************************)
(* drain() returns Graceful only when the gate is, and Forced only when it *)
(* is or when the caller's own timer has fired, although the last guard    *)
(* may have left just then; the defensive branch of terminal_outcome is    *)
(* unreachable.                                                            *)
(***************************************************************************)
THEOREM DrainVerdict == Spec => []VerdictSound
<1>1. GateInv => VerdictSound
  BY DEF GateInv
<1> QED
  BY <1>1, GateInvariant, PTL

(***************************************************************************)
(* The phase only advances and the first terminal outcome stays (stop_now, *)
(* begin_drain and the drop of WorkGuard all test it under the lock).      *)
(***************************************************************************)
THEOREM PhaseAdvances == Spec => PhaseOnlyAdvances
<1>1. ASSUME TypeOK, [Next]_vars
      PROVE  [/\ phase' # phase => Rank[phase'] > Rank[phase]
              /\ stopped => stopped']_vars
  <2> USE <1>1 DEF TypeOK, Rank, Phases, Terminal
  <2>1. ASSUME NEW w \in Operations, OpStep(w)
        PROVE  /\ phase' # phase => Rank[phase'] > Rank[phase]
               /\ stopped => stopped'
    BY <2>1 DEF OpStep, TryEnter, Enter, DropGuard, Drop, DropGuardCancel
  <2>2. ASSUME NEW d \in Callers, CallStep(d)
        PROVE  /\ phase' # phase => Rank[phase'] > Rank[phase]
               /\ stopped => stopped'
    BY <2>2 DEF CallStep, BeginDrain, DrainAfterStop, DrainIdleGate, DrainBusyGate, Return,
       ObserveStop, ReadOutcome, Timeout, AbortDrain, CallStopNow, StopNow, EndStop, Publish
  <2>3. ASSUME DropOwner \/ DropInner
        PROVE  /\ phase' # phase => Rank[phase'] > Rank[phase]
               /\ stopped => stopped'
    BY <2>3 DEF DropOwner, DropInner
  <2> QED
    BY <1>1, <2>1, <2>2, <2>3 DEF Next
<1> QED
  BY <1>1, DrainAccounting, PTL DEF Spec, PhaseOnlyAdvances

-----------------------------------------------------------------------------
(***************************************************************************)
(* Refinement: every step of the gate is a step of its contract.           *)
(***************************************************************************)

\* Operations map to Admit, Leave and Announce.
LEMMA OpRefines ==
  ASSUME GateInv, NEW w \in Operations, OpStep(w)
  PROVE  [Contract!ContractNext]_(Contract!contractVars)
<1> USE DEF GateInv
<1>1. CASE TryEnter(w)
  <2>1. Working' = Working \cup {w}
    BY <1>1, WorkingGrows DEF TryEnter, Enter, TypeOK
  <2>2. Contract!Admit(w)
    BY <1>1, <2>1 DEF TryEnter, Enter, Contract!Admit, Working
  <2> QED
    BY <2>2 DEF Contract!ContractNext
<1>2. CASE DropGuard(w)
  <2>1. Working' = Working \ {w} /\ w \in Working /\ Cardinality(Working') = Cardinality(Working) - 1
    BY <1>2, WorkingShrinks DEF DropGuard, Drop, TypeOK, Working
  <2>2. IsFiniteSet(Working')
    BY <2>1, WorkingFinite, FS_RemoveElement
  <2>3. Remaining = 0 <=> Working' = {}
    BY <2>1, <2>2, WorkingFinite, FS_EmptySet DEF Remaining, GuardsCounted
  <2>4. Contract!Leave(w)
    BY <1>2, <2>1, <2>3 DEF DropGuard, Drop, Contract!Leave
  <2> QED
    BY <2>4 DEF Contract!ContractNext
<1>3. CASE DropGuardCancel(w)
  <2>1. Working' = Working
    BY <1>3, WorkingUnchanged DEF DropGuardCancel, TypeOK
  <2>2. Contract!Announce
    BY <1>3, <2>1 DEF DropGuardCancel, Contract!Announce, Contract!Terminal, CallsConsistent
  <2> QED
    BY <2>2 DEF Contract!ContractNext
<1> QED
  BY <1>1, <1>2, <1>3 DEF OpStep

\* Calls map to StartDrain, Force, Announce or nothing.
LEMMA CallRefines ==
  ASSUME GateInv, NEW d \in Callers, CallStep(d)
  PROVE  [Contract!ContractNext]_(Contract!contractVars)
<1> USE DEF GateInv, Contract!contractVars
<1>1. op' = op /\ owner' = owner
  BY DEF CallStep, BeginDrain, ObserveStop, ReadOutcome, Timeout, AbortDrain, CallStopNow,
         StopNow, EndStop, Publish
<1>2. Working' = Working
  BY <1>1 DEF Working
<1>3. active = 0 <=> Working = {}
  BY WorkingFinite DEF GuardsCounted
<1>4. CASE BeginDrain(d)
  <2>1. CASE DrainAfterStop(d)
    BY <1>1, <1>2, <1>4, <2>1 DEF BeginDrain, DrainAfterStop
  <2>2. CASE DrainIdleGate(d)
    <3>1. phase = "Accepting"
      BY <1>3, <2>2 DEF DrainIdleGate, TypeOK, Phases, DrainingHasWork
    <3>2. Contract!StartDrain
      BY <1>1, <1>2, <1>3, <1>4, <2>2, <3>1 DEF BeginDrain, DrainIdleGate, Contract!StartDrain
    <3> QED
      BY <3>2 DEF Contract!ContractNext
  <2>3. CASE DrainBusyGate(d)
    <3>1. active # 0
      BY <2>3 DEF DrainBusyGate
    <3>2. CASE phase = "Accepting"
      <4>1. Contract!StartDrain
        BY <1>1, <1>2, <1>3, <1>4, <2>3, <3>1, <3>2 DEF BeginDrain, DrainBusyGate,
                                                        Contract!StartDrain
      <4> QED
        BY <4>1 DEF Contract!ContractNext
    <3>3. CASE phase = "Draining"
      BY <1>1, <1>2, <1>4, <2>3, <3>3 DEF BeginDrain, DrainBusyGate
    <3> QED
      BY <2>3, <3>2, <3>3 DEF DrainBusyGate, TypeOK, Phases
  <2> QED
    BY <1>4, <2>1, <2>2, <2>3 DEF BeginDrain
<1>5. CASE StopNow(d)
  <2>1. CASE phase \in Terminal
    BY <1>1, <1>2, <1>5, <2>1 DEF StopNow, EndStop
  <2>2. CASE phase \notin Terminal
    <3>1. Contract!Force
      BY <1>1, <1>2, <1>5, <2>2 DEF StopNow, EndStop, Contract!Force, Contract!Terminal, Terminal
    <3> QED
      BY <3>1 DEF Contract!ContractNext
  <2> QED
    BY <2>1, <2>2
<1>6. CASE Publish(d)
  <2>1. Contract!Announce
    BY <1>1, <1>2, <1>6 DEF Publish, Contract!Announce, Contract!Terminal, Terminal,
                            CallsConsistent
  <2> QED
    BY <2>1 DEF Contract!ContractNext
<1>7. CASE ObserveStop(d) \/ ReadOutcome(d) \/ Timeout(d) \/ AbortDrain(d) \/ CallStopNow(d)
  BY <1>1, <1>2, <1>7 DEF ObserveStop, ReadOutcome, Timeout, AbortDrain, CallStopNow
<1> QED
  BY <1>4, <1>5, <1>6, <1>7 DEF CallStep

\* Ownership maps to Release and Abandon.
LEMMA OwnerRefines ==
  ASSUME DropOwner \/ DropInner
  PROVE  Contract!ContractNext
<1>1. Working' = Working
  BY DEF DropOwner, DropInner, Working
<1>2. CASE DropOwner
  BY <1>1, <1>2 DEF DropOwner, Contract!Release, Contract!ContractNext
<1>3. CASE DropInner
  <2>1. Working = {}
    BY <1>3 DEF DropInner, Unreachable, Working
  <2>2. Contract!Abandon
    BY <1>1, <1>3, <2>1 DEF DropInner, Unreachable, Contract!Abandon
  <2> QED
    BY <2>2 DEF Contract!ContractNext
<1> QED
  BY <1>2, <1>3

(***************************************************************************)
(* The lock, the counter and the late token implement the contract: the    *)
(* safety half of ImplementsContract, for every instance.                  *)
(***************************************************************************)
THEOREM GateImplementsContract == Spec => Contract!ContractSafety
<1>1. Init => Contract!ContractInit
  BY DEF Init, Contract!ContractInit, Working
<1>2. GateInv /\ [Next]_vars => [Contract!ContractNext]_(Contract!contractVars)
  <2> SUFFICES ASSUME GateInv, [Next]_vars
               PROVE  [Contract!ContractNext]_(Contract!contractVars)
    OBVIOUS
  <2>1. CASE UNCHANGED vars
    BY <2>1 DEF vars, Contract!contractVars, Working
  <2>2. CASE Next
    BY <2>2, OpRefines, CallRefines, OwnerRefines DEF Next
  <2> QED
    BY <2>1, <2>2
<1> QED
  BY <1>1, <1>2, GateInvariant, PTL DEF Spec, Contract!ContractSafety

-----------------------------------------------------------------------------
(***************************************************************************)
(* The token.  Its proof uses nothing of the gate, and nothing of who the  *)
(* cancellers are.                                                         *)
(***************************************************************************)
\* Nobody has called anything yet: the flag is clear, the epoch is 0.
LEMMA TokenInvInit == Token!Init => Token!TokenInv
<1> SUFFICES ASSUME Token!Init  PROVE  Token!TokenInv
  OBVIOUS
<1>1. ~stopped /\ epoch = 0 /\ Token!Winners = {} /\ ~Token!NotifyPending
  BY DEF Token!Init, Token!Winners, Token!NotifyPending
<1>2. \A o \in Observers : waiter[o] = "outside" /\ armedAt[o] = 0
  BY DEF Token!Init
<1>3. Token!TypeOK
  <2>1. stopped \in BOOLEAN
    BY DEF Token!Init
  <2>2. armedAt \in [Observers -> 0..1] /\ waiter \in [Observers -> Token!WaiterPC]
    BY DEF Token!Init, Token!WaiterPC
  <2>3. canceller \in [Cancellers -> Token!CancellerPC]
    BY DEF Token!Init, Token!CancellerPC
  <2> QED  BY <1>1, <2>1, <2>2, <2>3 DEF Token!TypeOK
<1>4. Token!NoMissedWakeup /\ Token!OneWinner
  BY <1>1, <1>2 DEF Token!NoMissedWakeup, Token!OneWinner
<1>5. Token!EpochFollows
  BY <1>1, <1>2 DEF Token!EpochFollows
<1> QED  BY <1>3, <1>4, <1>5 DEF Token!TokenInv

\* The swap of cancel(): only the first one becomes a winner.
LEMMA TokenInvSwap ==
  ASSUME Token!TokenInv, NEW c \in Cancellers, Token!Swap(c)
  PROVE  Token!TokenInv'
<1> USE DEF Token!TokenInv, Token!CancellerPC, Token!Winners, Token!NotifyPending
<1>1. Token!TypeOK'
  BY DEF Token!TypeOK, Token!Swap
<1>2. Token!OneWinner'
  BY DEF Token!TypeOK, Token!OneWinner, Token!Swap
<1>3. Token!EpochFollows' /\ Token!NoMissedWakeup'
  <2>1. CASE stopped
    <3>1. \A d \in Cancellers : canceller'[d] = "swapped" <=> canceller[d] = "swapped"
      BY <2>1 DEF Token!TypeOK, Token!Swap
    <3> QED  BY <2>1, <3>1 DEF Token!TypeOK, Token!EpochFollows, Token!NoMissedWakeup,
                               Token!Woken, Token!Swap
  <2>2. CASE ~stopped
    <3>1. canceller'[c] = "swapped" /\ epoch = 0
      BY <2>2 DEF Token!TypeOK, Token!EpochFollows, Token!Swap
    <3> QED  BY <2>2, <3>1 DEF Token!TypeOK, Token!EpochFollows, Token!NoMissedWakeup,
                               Token!Woken, Token!Swap
  <2> QED  BY <2>1, <2>2
<1> QED  BY <1>1, <1>2, <1>3

\* The winner calls notify_waiters: everybody armed before is woken.
LEMMA TokenInvNotify ==
  ASSUME Token!TokenInv, NEW c \in Cancellers, Token!NotifyWaiters(c)
  PROVE  Token!TokenInv'
<1> USE DEF Token!TokenInv, Token!CancellerPC, Token!Winners, Token!NotifyPending
<1>1. stopped /\ epoch = 0
  BY DEF Token!TypeOK, Token!OneWinner, Token!EpochFollows, Token!NotifyWaiters
<1>2. Token!TypeOK'
  BY <1>1 DEF Token!TypeOK, Token!NotifyWaiters
<1>3. Token!OneWinner'
  BY DEF Token!TypeOK, Token!OneWinner, Token!NotifyWaiters
<1>4. \A d \in Cancellers : canceller'[d] # "swapped"
  BY DEF Token!TypeOK, Token!OneWinner, Token!NotifyWaiters
<1>5. Token!EpochFollows' /\ Token!NoMissedWakeup'
  BY <1>1, <1>4 DEF Token!TypeOK, Token!EpochFollows, Token!NoMissedWakeup, Token!Woken,
                    Token!NotifyWaiters
<1> QED  BY <1>2, <1>3, <1>5

\* A step of an observer: it arms before it reads the flag.
LEMMA TokenInvObserver ==
  ASSUME Token!TokenInv, NEW o \in Observers, Token!Observe(o) \/ Token!DropFuture(o)
  PROVE  Token!TokenInv'
<1> USE DEF Token!TokenInv, Token!WaiterPC
<1>1. CASE Token!Arm(o)
  <2>1. Token!TypeOK' /\ Token!OneWinner'
    BY <1>1 DEF Token!TypeOK, Token!OneWinner, Token!Winners, Token!Arm
  <2>2. Token!EpochFollows' /\ Token!NoMissedWakeup'
    BY <1>1 DEF Token!TypeOK, Token!EpochFollows, Token!NoMissedWakeup, Token!NotifyPending,
                Token!Woken, Token!Arm
  <2> QED  BY <2>1, <2>2
<1>2. CASE Token!Check(o)
  <2>1. Token!TypeOK' /\ Token!OneWinner'
    BY <1>2 DEF Token!TypeOK, Token!OneWinner, Token!Winners, Token!Check
  <2>2. waiter'[o] = "parked" => armedAt[o] = 0 /\ ~stopped
    BY <1>2 DEF Token!TypeOK, Token!EpochFollows, Token!NotifyPending, Token!Check
  <2>3. Token!EpochFollows' /\ Token!NoMissedWakeup'
    BY <1>2, <2>2 DEF Token!TypeOK, Token!EpochFollows, Token!NoMissedWakeup,
                      Token!NotifyPending, Token!Woken, Token!Check
  <2> QED  BY <2>1, <2>3
<1>3. CASE Token!Wake(o) \/ Token!DropFuture(o)
  <2>1. Token!TypeOK' /\ Token!OneWinner'
    BY <1>3 DEF Token!TypeOK, Token!OneWinner, Token!Winners, Token!Wake, Token!DropFuture
  <2>2. Token!EpochFollows' /\ Token!NoMissedWakeup'
    BY <1>3 DEF Token!TypeOK, Token!EpochFollows, Token!NoMissedWakeup, Token!NotifyPending,
                Token!Woken, Token!Wake, Token!DropFuture
  <2> QED  BY <2>1, <2>2
<1> QED  BY <1>1, <1>2, <1>3 DEF Token!Observe

\* Any step of the token, or none.
LEMMA TokenInvStep == Token!TokenInv /\ [Token!Next]_(Token!vars) => Token!TokenInv'
<1> SUFFICES ASSUME Token!TokenInv, [Token!Next]_(Token!vars)
             PROVE  Token!TokenInv'
  OBVIOUS
<1>1. ASSUME NEW c \in Cancellers, Token!Swap(c) \/ Token!NotifyWaiters(c)
      PROVE  Token!TokenInv'
  BY <1>1, TokenInvSwap, TokenInvNotify
<1>2. ASSUME NEW o \in Observers, Token!Observe(o) \/ Token!DropFuture(o)
      PROVE  Token!TokenInv'
  BY <1>2, TokenInvObserver
<1>3. CASE UNCHANGED Token!vars
  BY <1>3 DEF Token!vars, Token!TokenInv, Token!TypeOK, Token!NoMissedWakeup, Token!OneWinner,
              Token!EpochFollows,
              Token!NotifyPending, Token!Winners, Token!Woken
<1> QED  BY <1>1, <1>2, <1>3 DEF Token!Next

(***************************************************************************)
(* The token's invariant holds for every instance, and with it the two     *)
(* promises of cancellation.rs: no missed wakeups, and cancel() tells      *)
(* exactly one caller that it changed the state.                           *)
(***************************************************************************)
THEOREM TokenInvariant ==
  Token!Spec => []Token!TokenInv /\ []Token!NoMissedWakeup /\ []Token!OneWinner
<1>1. Token!TokenInv => Token!NoMissedWakeup /\ Token!OneWinner
  BY DEF Token!TokenInv
<1> QED  BY TokenInvInit, TokenInvStep, <1>1, PTL DEF Token!Spec

-----------------------------------------------------------------------------
(***************************************************************************)
(* The gate over its token: each of the two takes its own steps only.      *)
(***************************************************************************)
LEMMA GateUnderSignal == [SignalNext]_signalVars => [Next]_vars
BY DEF SignalNext, Cancels, GateStep, TokenStep, signalVars, Next, OpStep, CallStep

\* Only a cancel() sets the flag, and every other step of the gate leaves it.
LEMMA TokenUnderSignal == [SignalNext]_signalVars => [Token!Next]_(Token!vars)
<1> SUFFICES ASSUME [SignalNext]_signalVars
             PROVE  [Token!Next]_(Token!vars)
  OBVIOUS
<1>1. CASE Cancels
  BY <1>1 DEF Cancels, Cancellers, Token!Next
<1>2. CASE GateStep
  <2>1. UNCHANGED stopped
    BY <1>2 DEF GateStep, TryEnter, Enter, DropGuard, Drop, BeginDrain, ObserveStop, ReadOutcome,
                Timeout, AbortDrain, CallStopNow, StopNow, EndStop, DropOwner
  <2> QED
    BY <1>2, <2>1 DEF GateStep, tokenVars, Token!vars
<1>3. CASE TokenStep
  BY <1>3 DEF TokenStep, Token!Next
<1>4. CASE UNCHANGED signalVars
  BY <1>4 DEF signalVars, vars, tokenVars, Token!vars
<1> QED
  BY <1>1, <1>2, <1>3, <1>4 DEF SignalNext

(***************************************************************************)
(* The gate keeps its books and its token misses nobody when both run      *)
(* together: guards, drains, forced stops and the drop of the gate cancel  *)
(* the token that tasks await (shutdown.rs, cancellation.rs).              *)
(***************************************************************************)
THEOREM SignalInvariant == SignalSpec => []GateInv /\ []TokenInv
<1>1. SignalInit => GateInv /\ TokenInv
  BY GateInvInit, TokenInvInit DEF SignalInit, TokenInv
<1>2. GateInv /\ TokenInv /\ [SignalNext]_signalVars => GateInv' /\ TokenInv'
  <2> SUFFICES ASSUME GateInv, TokenInv, [SignalNext]_signalVars
               PROVE  GateInv' /\ TokenInv'
    OBVIOUS
  <2>1. GateInv'
    BY GateUnderSignal, GateInvStep
  <2>2. TokenInv'
    BY TokenUnderSignal, TokenInvStep DEF TokenInv
  <2> QED
    BY <2>1, <2>2
<1> QED
  BY <1>1, <1>2, PTL DEF SignalSpec
=============================================================================
