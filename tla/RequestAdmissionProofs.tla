----------------------- MODULE RequestAdmissionProofs -----------------------
(***************************************************************************)
(* What the admission middleware guarantees for any number of requests and *)
(* any sizes of its semaphores, of its queue and of the engine's limiter.  *)
(***************************************************************************)
EXTENDS RequestAdmission, FiniteSetTheorems, SequenceTheorems, TLAPS

Distinct(s) == \A i, j \in 1..Len(s) : s[i] = s[j] => i = j
Members(s) == {s[i] : i \in 1..Len(s)}

(***************************************************************************)
(* How the line changes: at its end, at its head, and anywhere.            *)
(***************************************************************************)
LEMMA JoinLine ==
  ASSUME NEW s \in Seq(Requests), NEW r \in Requests, Distinct(s), r \notin Members(s)
  PROVE  /\ Append(s, r) \in Seq(Requests)
         /\ Distinct(Append(s, r))
         /\ Members(Append(s, r)) = Members(s) \cup {r}
<1>1. /\ Append(s, r) \in Seq(Requests) /\ Len(s) \in Nat
      /\ Len(Append(s, r)) = Len(s) + 1
      /\ \A i \in 1..Len(s) : Append(s, r)[i] = s[i]
      /\ Append(s, r)[Len(s) + 1] = r
  BY AppendProperties, LenProperties
<1>2. \A i \in 1..(Len(s) + 1) : i \in 1..Len(s) \/ i = Len(s) + 1
  BY <1>1
<1>3. Distinct(Append(s, r))
  BY <1>1, <1>2 DEF Distinct, Members
<1>4. Members(Append(s, r)) = Members(s) \cup {r}
  <2>1. \A i \in 1..Len(s) : i \in 1..(Len(s) + 1)
    BY <1>1
  <2>2. Len(s) + 1 \in 1..(Len(s) + 1)
    BY <1>1
  <2> QED
    BY <1>1, <1>2, <2>1, <2>2 DEF Members
<1> QED
  BY <1>1, <1>3, <1>4

LEMMA LeaveLine ==
  ASSUME NEW s \in Seq(Requests), Distinct(s), NEW p \in 1..Len(s),
         NEW t, t = SubSeq(s, 1, p - 1) \o SubSeq(s, p + 1, Len(s))
  PROVE  t \in Seq(Requests) /\ Distinct(t) /\ Members(t) = Members(s) \ {s[p]}
<1> DEFINE a == SubSeq(s, 1, p - 1)
           b == SubSeq(s, p + 1, Len(s))
           n == Len(s)
           At(i) == IF i < p THEN i ELSE i + 1
<1>1. n \in Nat /\ p \in Int /\ 1 <= p /\ p <= n /\ \A i \in 1..n : s[i] \in Requests
  BY LenProperties, ElementOfSeq
<1>2. /\ a \in Seq(Requests) /\ Len(a) = p - 1 /\ \A i \in 1..(p - 1) : a[i] = s[i]
  <2>1. \A i \in 1..(p - 1) : s[i] \in Requests
    BY <1>1
  <2>2. /\ a \in Seq(Requests) /\ Len(a) = IF 1 <= p - 1 THEN p - 1 - 1 + 1 ELSE 0
        /\ \A i \in 1..(p - 1 - 1 + 1) : a[i] = s[1 + i - 1]
    BY <1>1, <2>1, SubSeqProperties
  <2> QED
    BY <1>1, <2>2
<1>3. /\ b \in Seq(Requests) /\ Len(b) = n - p /\ \A i \in 1..(n - p) : b[i] = s[p + i]
  <2>1. \A i \in (p + 1)..n : s[i] \in Requests
    BY <1>1
  <2>2. /\ b \in Seq(Requests) /\ Len(b) = IF p + 1 <= n THEN n - (p + 1) + 1 ELSE 0
        /\ \A i \in 1..(n - (p + 1) + 1) : b[i] = s[p + 1 + i - 1]
    BY <1>1, <2>1, SubSeqProperties
  <2> QED
    BY <1>1, <2>2
<1>0. /\ \A i \in 1..(n - 1) : (i < p => At(i) = i) /\ (i >= p => At(i) = i + 1)
      /\ \A i \in 1..(n - 1) : At(i) \in 1..n /\ At(i) # p
      /\ \A i, j \in 1..(n - 1) : At(i) = At(j) => i = j
      /\ \A k \in 1..n : k < p => k \in 1..(n - 1) /\ At(k) = k
      /\ \A k \in 1..n : k > p => k - 1 \in 1..(n - 1) /\ At(k - 1) = k
  BY <1>1
<1> HIDE DEF a, b, At
<1>4. /\ t \in Seq(Requests) /\ Len(t) = n - 1
      /\ \A i \in 1..(n - 1) : t[i] = IF i <= p - 1 THEN a[i] ELSE b[i - (p - 1)]
  <2>1. t = a \o b
    BY DEF a, b
  <2>2. /\ a \o b \in Seq(Requests) /\ Len(a \o b) = Len(a) + Len(b)
        /\ \A i \in 1..(Len(a) + Len(b)) : (a \o b)[i] = IF i <= Len(a) THEN a[i] ELSE b[i - Len(a)]
    BY <1>2, <1>3, ConcatProperties
  <2>3. Len(a) = p - 1 /\ Len(a) + Len(b) = n - 1
    BY <1>1, <1>2, <1>3
  <2> QED
    BY <2>1, <2>2, <2>3
<1>5. \A i \in 1..(n - 1) : t[i] = s[At(i)]
  <2> SUFFICES ASSUME NEW i \in 1..(n - 1) PROVE t[i] = s[At(i)]
    OBVIOUS
  <2>1. CASE i < p
    <3>1. i \in 1..(p - 1) /\ i <= p - 1
      BY <1>1, <2>1
    <3>2. t[i] = s[i]
      BY <1>2, <1>4, <3>1
    <3> QED
      BY <1>0, <2>1, <3>2
  <2>2. CASE i >= p
    <3>1. ~(i <= p - 1) /\ i - (p - 1) \in 1..(n - p) /\ p + (i - (p - 1)) = i + 1
      BY <1>1, <2>2
    <3>2. t[i] = s[i + 1]
      BY <1>3, <1>4, <3>1
    <3> QED
      BY <1>0, <2>2, <3>2
  <2>3. i < p \/ i >= p
    BY <1>1
  <2> QED
    BY <2>1, <2>2, <2>3
<1>6. \A k \in 1..n : k # p => \E i \in 1..(n - 1) : At(i) = k
  <2>1. \A k \in 1..n : k < p \/ k = p \/ k > p
    BY <1>1
  <2> QED
    BY <1>0, <2>1
<1>7. Distinct(t)
  <2> SUFFICES ASSUME NEW i \in 1..(n - 1), NEW j \in 1..(n - 1), t[i] = t[j] PROVE i = j
    BY <1>4 DEF Distinct
  <2>1. s[At(i)] = s[At(j)] /\ At(i) \in 1..n /\ At(j) \in 1..n
    BY <1>0, <1>5
  <2>2. At(i) = At(j)
    BY <2>1 DEF Distinct
  <2> QED
    BY <1>0, <2>2
<1>9. Members(t) = Members(s) \ {s[p]}
  <2>1. ASSUME NEW i \in 1..(n - 1) PROVE t[i] \in Members(s) \ {s[p]}
    <3>1. At(i) \in 1..n /\ At(i) # p /\ t[i] = s[At(i)] /\ p \in 1..n
      BY <1>0, <1>5, <2>1
    <3>2. s[At(i)] # s[p]
      BY <3>1, Zenon DEF Distinct
    <3> QED
      BY <3>1, <3>2, Zenon DEF Members
  <2>2. ASSUME NEW k \in 1..n, k # p PROVE s[k] \in Members(t)
    <3>1. PICK i \in 1..(n - 1) : At(i) = k
      BY <1>6, <2>2, Zenon
    <3>2. t[i] = s[k] /\ i \in 1..Len(t)
      BY <1>4, <1>5, <3>1
    <3> QED
      BY <3>2, Zenon DEF Members
  <2>3. \A x \in Members(t) : \E i \in 1..(n - 1) : x = t[i]
    BY <1>4 DEF Members
  <2>4. \A x \in Members(s) \ {s[p]} : \E k \in 1..n : k # p /\ x = s[k]
    BY DEF Members
  <2>5. Members(t) \subseteq Members(s) \ {s[p]}
    BY <2>1, <2>3
  <2>6. Members(s) \ {s[p]} \subseteq Members(t)
    BY <2>2, <2>4
  <2> QED
    BY <2>5, <2>6
<1> QED
  BY <1>4, <1>7, <1>9

-----------------------------------------------------------------------------
(***************************************************************************)
(* How the sets of requests change whose sizes the permits must match.     *)
(***************************************************************************)
LEMMA Counted ==
  ASSUME NEW S, S \subseteq Requests
  PROVE  /\ Cardinality(S) \in Nat
         /\ Cardinality(S) = 0 <=> S = {}
         /\ \A r \in S : Cardinality(S \ {r}) = Cardinality(S) - 1
         /\ \A r \in Requests \ S : Cardinality(S \cup {r}) = Cardinality(S) + 1
<1>1. IsFiniteSet(S)
  BY FS_Subset, AdmissionAssumption
<1> QED
  BY <1>1, FS_CardinalityType, FS_EmptySet, FS_AddElement, FS_RemoveElement

\* The sets of requests are read off the program counters.
LEMMA AtIn == ASSUME NEW r \in Requests, NEW stages PROVE r \in In(stages) <=> pc[r] \in stages
BY DEF In

\* An idle middleware: every permit is free, the line is empty, the gate has no work.
LEMMA AdmissionInvInit == Init => AdmissionInv
<1> SUFFICES ASSUME Init PROVE AdmissionInv
  OBVIOUS
<1>1. TypeOK
  <2>1. admitted \in 0..MaxAdmitted /\ execution \in 0..MaxConcurrent /\ engine \in 0..EngineLimit
    BY AdmissionAssumption DEF Init, MaxAdmitted
  <2>2. line \in Seq(Requests)
    BY EmptySeq DEF Init
  <2>3. Gate!ContractTypeOK
    BY DEF Init, Gate!ContractInit, Gate!ContractTypeOK, Gate!Phases
  <2> QED
    BY <2>1, <2>2, <2>3 DEF Init, TypeOK, PC, Replies, JobStates
<1>2. \A stages : "idle" \notin stages => In(stages) = {}
  BY DEF Init, In
<1>3. PermitsConserved
  <2>1. HoldsAdmission = {} /\ In(Executing) = {} /\ Native = {}
    BY <1>2 DEF Init, Native, HoldsAdmission, Executing, Waiting
  <2>2. Cardinality({}) = 0
    BY FS_EmptySet
  <2> QED
    BY <2>1, <2>2, AdmissionAssumption DEF Init, PermitsConserved, MaxAdmitted
<1>4. LineIsLive
  <2>1. Len(line) = 0
    BY EmptySeq DEF Init
  <2> QED
    BY <1>2, <2>1 DEF LineIsLive
<1>5. WorkIsInside
  BY DEF Init, Gate!ContractInit, WorkIsInside, In
<1> QED
  BY <1>1, <1>3, <1>4, <1>5 DEF AdmissionInv

-----------------------------------------------------------------------------
\* Into the gate, or out again before an admission permit was taken.
LEMMA AdmissionInvEnter ==
  ASSUME AdmissionInv, NEW r \in Requests, EnterGate(r) \/ GateClosed(r) \/ Overloaded(r)
  PROVE  AdmissionInv'
<1> USE DEF AdmissionInv
<1>1. /\ UNCHANGED <<token, expired, permitVars, issued, jobVars, stopped, open>>
      /\ \/ pc[r] = "idle" /\ Goto(r, "entered") /\ phase = "Accepting" /\ work' = work \cup {r}
         \/ pc[r] = "idle" /\ Goto(r, "done") /\ work' = work
         \/ pc[r] = "entered" /\ Goto(r, "unwound") /\ work' = work
      /\ phase' = phase
      /\ UNCHANGED reply \/ Answer(r, "cancelled") \/ Answer(r, "overloaded")
  BY DEF EnterGate, GateClosed, Overloaded, Gate!Admit, gateVars
<1>2. pc \in [Requests -> PC]
  BY DEF TypeOK
<1>3. TypeOK'
  <2>1. pc' \in [Requests -> PC] /\ reply' \in [Requests -> Replies]
    BY <1>1 DEF TypeOK, Goto, Answer, PC, Waiting, Replies, Refusals
  <2>2. Gate!ContractTypeOK'
    BY <1>1 DEF TypeOK, Gate!ContractTypeOK
  <2> QED
    BY <1>1, <2>1, <2>2 DEF TypeOK, permitVars, jobVars
<1>4. \A stages : stages \cap {"idle", "entered", "unwound", "done"} = {} => In(stages)' = In(stages)
  <2> SUFFICES ASSUME NEW stages, stages \cap {"idle", "entered", "unwound", "done"} = {}
               PROVE  In(stages)' = In(stages)
    OBVIOUS
  <2> QED
    BY <1>1, <1>2 DEF In, Goto
<1>5. /\ HoldsAdmission' = HoldsAdmission /\ In(Executing)' = In(Executing)
      /\ In({"queued"})' = In({"queued"}) /\ Native' = Native
  BY <1>1, <1>4 DEF HoldsAdmission, Executing, Waiting, Native, jobVars
<1>6. PermitsConserved' /\ LineIsLive'
  BY <1>1, <1>5 DEF PermitsConserved, LineIsLive, permitVars, jobVars
<1>7. WorkIsInside'
  BY <1>1, <1>2 DEF WorkIsInside, In, Goto
<1> QED
  BY <1>3, <1>6, <1>7

LEMMA AdmissionInvTake ==
  ASSUME AdmissionInv, NEW r \in Requests, TakeAdmission(r)
  PROVE  AdmissionInv'
<1> USE DEF AdmissionInv
<1> PICK where \in {"reading", "leaving"} : Goto(r, where)
  BY DEF TakeAdmission
<1>1. /\ pc[r] = "entered" /\ admitted > 0 /\ admitted' = admitted - 1
      /\ UNCHANGED <<gateVars, token, expired, execution, line, jobVars>>
      /\ UNCHANGED reply \/ Answer(r, "internal")
  BY DEF TakeAdmission
<1>9. issued' \in 0..MaxRequestId
  <2>1. issued \in 0..MaxRequestId /\ (issued' = issued \/ (issued < MaxRequestId /\ issued' = issued + 1))
    BY DEF TypeOK, TakeAdmission
  <2> QED
    BY <2>1, AdmissionAssumption
<1>2. pc \in [Requests -> PC]
  BY DEF TypeOK
<1>3. TypeOK'
  <2>1. pc' \in [Requests -> PC] /\ reply' \in [Requests -> Replies]
    BY <1>1 DEF TypeOK, Goto, Answer, PC, Waiting, Replies, Refusals
  <2>2. admitted' \in 0..MaxAdmitted
    BY <1>1, AdmissionAssumption DEF TypeOK, MaxAdmitted
  <2>3. Gate!ContractTypeOK'
    BY <1>1 DEF TypeOK, Gate!ContractTypeOK, gateVars
  <2> QED
    BY <1>1, <1>9, <2>1, <2>2, <2>3 DEF TypeOK, jobVars
<1>4. HoldsAdmission' = HoldsAdmission \cup {r} /\ r \notin HoldsAdmission
  BY <1>1, <1>2 DEF HoldsAdmission, In, Goto, Waiting
<1>5. /\ In(Executing)' = In(Executing) /\ In({"queued"})' = In({"queued"}) /\ Native' = Native
  BY <1>1, <1>2 DEF Executing, In, Goto, Native, jobVars
<1>6. PermitsConserved'
  <2>1. Cardinality(HoldsAdmission) \in Nat
        /\ Cardinality(HoldsAdmission \cup {r}) = Cardinality(HoldsAdmission) + 1
    BY <1>4, Counted DEF HoldsAdmission, In
  <2> QED
    BY <1>1, <1>4, <1>5, <2>1, AdmissionAssumption DEF PermitsConserved, MaxAdmitted, jobVars
<1>7. LineIsLive'
  BY <1>1, <1>5 DEF LineIsLive
<1>8. WorkIsInside'
  BY <1>1, <1>2 DEF WorkIsInside, In, Goto, gateVars
<1> QED
  BY <1>3, <1>6, <1>7, <1>8

\* Whatever ends a request at one of its awaits, or answers it.
LEMMA AdmissionInvEnd ==
  ASSUME AdmissionInv, NEW r \in Requests, NEW why \in Replies,
         pc[r] \in Waiting \cup {"polled"}, End(r, why)
  PROVE  AdmissionInv'
<1> USE DEF AdmissionInv
<1>1. /\ Goto(r, "leaving") /\ Answer(r, why)
      /\ token' = [token EXCEPT ![r] = @ \/ why \in {"cancelled", "deadline"}]
      /\ line' = Without(r)
      /\ UNCHANGED <<gateVars, expired, admitted, issued, jobVars>>
  BY DEF End
<1>2. pc \in [Requests -> PC] /\ line \in Seq(Requests) /\ Distinct(line)
      /\ Members(line) = In({"queued"})
  BY DEF TypeOK, LineIsLive, Distinct, Members
<1>3. /\ HoldsAdmission' = HoldsAdmission /\ Native' = Native
      /\ In(Executing)' = In(Executing) \ {r} /\ In({"queued"})' = In({"queued"}) \ {r}
  BY <1>1, <1>2 DEF HoldsAdmission, Executing, Waiting, In, Goto, Native, jobVars
<1>4. Len(line) \in Nat /\ line' \in Seq(Requests) /\ Distinct(line') /\ Members(line') = Members(line) \ {r}
  <2>1. CASE pc[r] = "queued"
    <3>1. r \in Members(line)
      BY <1>2, <2>1, AtIn
    <3>2. PICK p \in 1..Len(line) : p = CHOOSE i \in 1..Len(line) : line[i] = r
      BY <3>1 DEF Members
    <3>3. line[p] = r
      BY <3>1, <3>2 DEF Members
    <3>4. line' = SubSeq(line, 1, p - 1) \o SubSeq(line, p + 1, Len(line))
      BY <1>1, <2>1, <3>2 DEF Without
    <3> QED
      BY <1>2, <3>3, <3>4, LeaveLine, LenProperties
  <2>2. CASE pc[r] # "queued"
    <3>1. r \notin Members(line) /\ line' = line
      BY <1>1, <1>2, <2>2, AtIn DEF Without
    <3> QED
      BY <1>2, <3>1, LenProperties
  <2> QED
    BY <2>1, <2>2
<1>5. PermitsConserved'
  <2>1. CASE pc[r] \in Executing
    <3>1. execution' = execution + 1 /\ r \in In(Executing)
      BY <2>1, AtIn DEF End
    <3>2. Cardinality(In(Executing)) \in Nat
          /\ Cardinality(In(Executing) \ {r}) = Cardinality(In(Executing)) - 1
      BY <3>1, Counted DEF In
    <3> QED
      BY <1>1, <1>3, <3>1, <3>2, AdmissionAssumption DEF PermitsConserved, jobVars
  <2>2. CASE pc[r] \notin Executing
    <3>1. execution' = execution /\ In(Executing) \ {r} = In(Executing)
      BY <2>2, AtIn DEF End
    <3> QED
      BY <1>1, <1>3, <3>1 DEF PermitsConserved, jobVars
  <2> QED
    BY <2>1, <2>2
<1>6. TypeOK'
  <2>1. execution' \in 0..MaxConcurrent
    <3>1. execution' \in Int /\ execution' <= MaxConcurrent
      <4>1. In(Executing) \ {r} \subseteq Requests
        BY DEF In
      <4>2. Cardinality(In(Executing)') \in Nat
        BY <1>3, <4>1, Counted
      <4> QED
        BY <1>5, <4>2, AdmissionAssumption DEF PermitsConserved
    <3>2. execution' >= 0
      BY DEF End, TypeOK
    <3> QED
      BY <3>1, <3>2
  <2>2. /\ pc' \in [Requests -> PC] /\ reply' \in [Requests -> Replies]
        /\ token' \in [Requests -> BOOLEAN]
    BY <1>1 DEF TypeOK, Goto, Answer, PC
  <2>3. Gate!ContractTypeOK'
    BY <1>1 DEF TypeOK, Gate!ContractTypeOK, gateVars
  <2> QED
    BY <1>1, <1>4, <2>1, <2>2, <2>3 DEF TypeOK, jobVars
<1>7. LineIsLive'
  BY <1>2, <1>3, <1>4 DEF LineIsLive, Members, Distinct
<1>8. WorkIsInside'
  BY <1>1, <1>2 DEF WorkIsInside, In, Goto, gateVars, Waiting
<1> QED
  BY <1>5, <1>6, <1>7, <1>8

\* The line grows at its end.
LEMMA AdmissionInvBody ==
  ASSUME AdmissionInv, NEW r \in Requests, BodyRead(r)
  PROVE  AdmissionInv'
<1> USE DEF AdmissionInv
<1>1. /\ pc[r] = "reading" /\ Goto(r, "queued") /\ line' = Append(line, r)
      /\ UNCHANGED <<gateVars, reply, token, expired, admitted, execution, issued, jobVars>>
  BY DEF BodyRead
<1>2. pc \in [Requests -> PC] /\ line \in Seq(Requests) /\ Distinct(line)
      /\ Members(line) = In({"queued"})
  BY DEF TypeOK, LineIsLive, Distinct, Members
<1>3. /\ HoldsAdmission' = HoldsAdmission /\ In(Executing)' = In(Executing) /\ Native' = Native
      /\ In({"queued"})' = In({"queued"}) \cup {r} /\ r \notin In({"queued"})
  BY <1>1, <1>2 DEF HoldsAdmission, Executing, Waiting, In, Goto, Native, jobVars
<1>4. line' \in Seq(Requests) /\ Distinct(line') /\ Members(line') = Members(line) \cup {r}
  BY <1>1, <1>2, <1>3, JoinLine
<1>5. TypeOK'
  <2>1. pc' \in [Requests -> PC]
    BY <1>1 DEF TypeOK, Goto, PC, Waiting
  <2>2. Gate!ContractTypeOK'
    BY <1>1 DEF TypeOK, Gate!ContractTypeOK, gateVars
  <2> QED
    BY <1>1, <1>4, <2>1, <2>2 DEF TypeOK, jobVars
<1>6. PermitsConserved'
  BY <1>1, <1>3 DEF PermitsConserved, jobVars
<1>7. LineIsLive'
  BY <1>2, <1>3, <1>4 DEF LineIsLive, Members, Distinct
<1>8. WorkIsInside'
  BY <1>1, <1>2 DEF WorkIsInside, In, Goto, gateVars
<1> QED
  BY <1>5, <1>6, <1>7, <1>8

\* The line shrinks at its head.
LEMMA AdmissionInvAcquire ==
  ASSUME AdmissionInv, NEW r \in Requests, AcquireExecution(r)
  PROVE  AdmissionInv'
<1> USE DEF AdmissionInv
<1>1. /\ pc[r] = "queued" /\ Goto(r, "running") /\ line' = Tail(line) /\ Head(line) = r
      /\ execution > 0 /\ execution' = execution - 1
      /\ UNCHANGED <<gateVars, reply, token, expired, admitted, issued, jobVars>>
  BY DEF AcquireExecution
<1>2. pc \in [Requests -> PC] /\ line \in Seq(Requests) /\ Distinct(line)
      /\ Members(line) = In({"queued"})
  BY DEF TypeOK, LineIsLive, Distinct, Members
<1>3. /\ HoldsAdmission' = HoldsAdmission /\ Native' = Native
      /\ In(Executing)' = In(Executing) \cup {r} /\ r \notin In(Executing)
      /\ In({"queued"})' = In({"queued"}) \ {r} /\ r \in In({"queued"})
  BY <1>1, <1>2 DEF HoldsAdmission, Executing, Waiting, In, Goto, Native, jobVars
<1>4. line' \in Seq(Requests) /\ Distinct(line') /\ Members(line') = Members(line) \ {r}
  <2>1. Len(line) \in Nat /\ Len(line) # 0
    BY <1>2, <1>3, LenProperties DEF Members
  <2>2. line # <<>> /\ 1 \in 1..Len(line) /\ line[1] = r
    BY <1>1, <2>1, EmptySeq
  <2>3. /\ line' \in Seq(Requests) /\ Len(line') = Len(line) - 1
        /\ \A i \in 1..Len(line') : line'[i] = line[i + 1]
    BY <1>1, <1>2, <2>2, HeadTailProperties
  <2>4. \A i \in 1..Len(line') : i + 1 \in 1..Len(line) /\ i + 1 # 1
    BY <2>1, <2>3
  <2>5. \A k \in 1..Len(line) : k # 1 => k - 1 \in 1..Len(line') /\ (k - 1) + 1 = k
    BY <2>1, <2>3
  <2>6. Distinct(line')
    <3> SUFFICES ASSUME NEW i \in 1..Len(line'), NEW j \in 1..Len(line'), line'[i] = line'[j]
                 PROVE  i = j
      BY DEF Distinct
    <3>1. i + 1 = j + 1
      BY <1>2, <2>3, <2>4 DEF Distinct
    <3> QED
      BY <2>1, <2>3, <3>1
  <2>7. ASSUME NEW i \in 1..Len(line') PROVE line'[i] \in Members(line) \ {r}
    BY <1>2, <2>2, <2>3, <2>4 DEF Members, Distinct
  <2>8. ASSUME NEW k \in 1..Len(line), line[k] # r PROVE line[k] \in Members(line')
    <3>1. k - 1 \in 1..Len(line') /\ (k - 1) + 1 = k
      BY <2>2, <2>5, <2>8
    <3>2. line'[k - 1] = line[k]
      BY <2>3, <3>1
    <3> QED
      BY <3>1, <3>2 DEF Members
  <2>9. Members(line') = Members(line) \ {r}
    BY <2>7, <2>8 DEF Members
  <2> QED
    BY <2>3, <2>6, <2>9
<1>5. TypeOK'
  <2>1. pc' \in [Requests -> PC]
    BY <1>1 DEF TypeOK, Goto, PC, Waiting
  <2>2. execution' \in 0..MaxConcurrent
    BY <1>1, AdmissionAssumption DEF TypeOK
  <2>3. Gate!ContractTypeOK'
    BY <1>1 DEF TypeOK, Gate!ContractTypeOK, gateVars
  <2> QED
    BY <1>1, <1>4, <2>1, <2>2, <2>3 DEF TypeOK, jobVars
<1>6. PermitsConserved'
  <2>1. Cardinality(In(Executing)) \in Nat
        /\ Cardinality(In(Executing) \cup {r}) = Cardinality(In(Executing)) + 1
    BY <1>3, Counted DEF In
  <2> QED
    BY <1>1, <1>3, <2>1, AdmissionAssumption DEF PermitsConserved, jobVars
<1>7. LineIsLive'
  BY <1>2, <1>3, <1>4 DEF LineIsLive, Members, Distinct
<1>8. WorkIsInside'
  BY <1>1, <1>2 DEF WorkIsInside, In, Goto, gateVars
<1> QED
  BY <1>5, <1>6, <1>7, <1>8

\* A poll of the handler moves no permit.
LEMMA AdmissionInvPoll ==
  ASSUME AdmissionInv, NEW r \in Requests, PollHandler(r) \/ Pending(r)
  PROVE  AdmissionInv'
<1> USE DEF AdmissionInv
<1>1. /\ UNCHANGED <<gateVars, reply, token, expired, permitVars, issued, engine, others>>
      /\ \/ pc[r] = "running" /\ Goto(r, "polled")
         \/ pc[r] = "polled" /\ Goto(r, "running")
      /\ \/ UNCHANGED job
         \/ job[r] = "none" /\ \E first \in {"spawned", "invalid"} : job' = [job EXCEPT ![r] = first]
  BY DEF PollHandler, Pending, jobVars
<1>2. pc \in [Requests -> PC] /\ job \in [Requests -> JobStates]
  BY DEF TypeOK
<1>3. TypeOK'
  <2>1. pc' \in [Requests -> PC]
    BY <1>1, <1>2 DEF Goto, PC, Waiting
  <2>2. job' \in [Requests -> JobStates]
    BY <1>1, <1>2 DEF JobStates, JobDone, JobReply
  <2>3. Gate!ContractTypeOK'
    BY <1>1 DEF TypeOK, Gate!ContractTypeOK, gateVars
  <2> QED
    BY <1>1, <2>1, <2>2, <2>3 DEF TypeOK, permitVars
<1>4. /\ HoldsAdmission' = HoldsAdmission /\ In(Executing)' = In(Executing)
      /\ In({"queued"})' = In({"queued"}) /\ In({"idle", "done"})' = In({"idle", "done"})
  BY <1>1, <1>2 DEF HoldsAdmission, Executing, Waiting, In, Goto
<1>5. Native' = Native
  BY <1>1, <1>2 DEF Native
<1>6. PermitsConserved' /\ LineIsLive' /\ WorkIsInside'
  BY <1>1, <1>4, <1>5 DEF PermitsConserved, LineIsLive, WorkIsInside, permitVars, gateVars
<1> QED
  BY <1>3, <1>6

\* The way out: the admission permit, then the guard.
LEMMA AdmissionInvDropPermit ==
  ASSUME AdmissionInv, NEW r \in Requests, DropPermit(r)
  PROVE  AdmissionInv'
<1> USE DEF AdmissionInv
<1>1. /\ pc[r] = "leaving" /\ Goto(r, "unwound") /\ token' = [token EXCEPT ![r] = TRUE]
      /\ admitted' = admitted + 1
      /\ UNCHANGED <<gateVars, reply, expired, execution, line, issued, jobVars>>
  BY DEF DropPermit
<1>2. pc \in [Requests -> PC]
  BY DEF TypeOK
<1>3. /\ HoldsAdmission' = HoldsAdmission \ {r} /\ r \in HoldsAdmission
      /\ In(Executing)' = In(Executing) /\ In({"queued"})' = In({"queued"}) /\ Native' = Native
      /\ In({"idle", "done"})' = In({"idle", "done"})
  BY <1>1, <1>2 DEF HoldsAdmission, Executing, Waiting, In, Goto, Native, jobVars
<1>4. /\ HoldsAdmission \subseteq Requests /\ Cardinality(HoldsAdmission) \in Nat
      /\ Cardinality(HoldsAdmission \ {r}) = Cardinality(HoldsAdmission) - 1
      /\ Cardinality(HoldsAdmission \ {r}) \in Nat
  <2>1. HoldsAdmission \subseteq Requests /\ HoldsAdmission \ {r} \subseteq Requests
    BY DEF HoldsAdmission, In
  <2> QED
    BY <1>3, <2>1, Counted
<1>5. PermitsConserved'
  BY <1>1, <1>3, <1>4, AdmissionAssumption DEF PermitsConserved, MaxAdmitted, jobVars
<1>6. TypeOK'
  <2>1. admitted' \in 0..MaxAdmitted
    BY <1>1, <1>3, <1>4, AdmissionAssumption DEF PermitsConserved, MaxAdmitted, TypeOK
  <2>2. pc' \in [Requests -> PC] /\ token' \in [Requests -> BOOLEAN]
    BY <1>1 DEF TypeOK, Goto, PC
  <2>3. Gate!ContractTypeOK'
    BY <1>1 DEF TypeOK, Gate!ContractTypeOK, gateVars
  <2> QED
    BY <1>1, <2>1, <2>2, <2>3 DEF TypeOK, jobVars
<1>7. LineIsLive' /\ WorkIsInside'
  BY <1>1, <1>3 DEF LineIsLive, WorkIsInside, gateVars
<1> QED
  BY <1>5, <1>6, <1>7

LEMMA AdmissionInvDropGuard ==
  ASSUME AdmissionInv, NEW r \in Requests, DropGuard(r)
  PROVE  AdmissionInv'
<1> USE DEF AdmissionInv
<1>1. /\ pc[r] = "unwound" /\ Goto(r, "done") /\ Gate!Leave(r)
      /\ UNCHANGED <<reply, token, expired, permitVars, issued, jobVars>>
  BY DEF DropGuard
<1>2. pc \in [Requests -> PC]
  BY DEF TypeOK
<1>3. /\ HoldsAdmission' = HoldsAdmission /\ In(Executing)' = In(Executing)
      /\ In({"queued"})' = In({"queued"}) /\ Native' = Native
      /\ In({"idle", "done"})' = In({"idle", "done"}) \cup {r}
  BY <1>1, <1>2 DEF HoldsAdmission, Executing, Waiting, In, Goto, Native, jobVars
<1>4. TypeOK'
  <2>1. pc' \in [Requests -> PC]
    BY <1>1 DEF TypeOK, Goto, PC
  <2>2. Gate!ContractTypeOK'
    BY <1>1 DEF TypeOK, Gate!ContractTypeOK, Gate!Leave, Gate!Phases, Gate!Terminal
  <2> QED
    BY <1>1, <2>1, <2>2 DEF TypeOK, permitVars, jobVars
<1>5. PermitsConserved' /\ LineIsLive'
  BY <1>1, <1>3 DEF PermitsConserved, LineIsLive, permitVars, jobVars
<1>6. WorkIsInside'
  BY <1>1, <1>3 DEF WorkIsInside, Gate!Leave
<1> QED
  BY <1>4, <1>5, <1>6

-----------------------------------------------------------------------------
\* The inference: its limiter counts the threads inside native code.
LEMMA AdmissionInvJob ==
  ASSUME AdmissionInv, NEW r \in Requests, JobStep(r)
  PROVE  AdmissionInv'
<1> USE DEF AdmissionInv
<1>1. UNCHANGED <<gateVars, pc, reply, token, expired, permitVars, issued, others>>
  BY DEF JobStep, JobCheck, JobAcquire, JobFinish
<1>2. /\ engine \in Nat /\ engine <= EngineLimit /\ job \in [Requests -> JobStates]
      /\ Native \subseteq Requests /\ engine = Cardinality(Native) + others /\ others \in Nat
  BY AdmissionAssumption DEF TypeOK, Native, PermitsConserved
<1>3. /\ job' \in [Requests -> JobStates]
      /\ engine' \in 0..EngineLimit
      /\ engine' = Cardinality(Native') + others
  <2>1. CASE job[r] = "checked" /\ engine < EngineLimit /\ JobAcquire(r)
    <3>1. /\ job' = [job EXCEPT ![r] = "native"] /\ engine' = engine + 1
      BY <2>1 DEF JobAcquire
    <3>2. Native' = Native \cup {r} /\ r \notin Native
      BY <1>2, <2>1, <3>1 DEF Native
    <3>3. Cardinality(Native \cup {r}) = Cardinality(Native) + 1 /\ Cardinality(Native) \in Nat
      BY <1>2, <3>2, Counted
    <3>4. engine' \in 0..EngineLimit
      BY <1>2, <2>1, <3>1, AdmissionAssumption
    <3> QED
      BY <1>2, <3>1, <3>2, <3>3, <3>4 DEF JobStates
  <2>2. CASE JobFinish(r)
    <3>1. job[r] = "native" /\ engine' = engine - 1
      BY <2>2 DEF JobFinish
    <3>2. PICK s \in JobDone : job' = [job EXCEPT ![r] = s]
      BY <2>2 DEF JobFinish, JobDone, JobReply
    <3>3. "native" \notin JobDone
      BY DEF JobDone, JobReply
    <3>4. Native' = Native \ {r} /\ r \in Native
      BY <1>2, <3>1, <3>2, <3>3 DEF Native
    <3>5. Cardinality(Native \ {r}) = Cardinality(Native) - 1 /\ Cardinality(Native \ {r}) \in Nat
      <4>1. Native \ {r} \subseteq Requests
        BY <1>2
      <4> QED
        BY <1>2, <3>4, <4>1, Counted
    <3>6. engine' = Cardinality(Native') + others
      <4>1. \A c \in Nat, n \in Nat, e, o \in Nat : e = n + o /\ c = n - 1 => e - 1 = c + o
        OBVIOUS
      <4>2. Cardinality(Native) \in Nat
        BY <1>2, Counted
      <4> QED
        BY <1>2, <3>1, <3>4, <3>5, <4>1, <4>2
    <3>7. engine' \in 0..EngineLimit
      <4>1. Cardinality(Native') \in Nat
        BY <3>4, <3>5
      <4>2. engine' >= 0
        BY <1>2, <3>6, <4>1
      <4> QED
        BY <1>2, <3>1, <4>2, AdmissionAssumption
    <3> QED
      BY <1>2, <3>2, <3>6, <3>7 DEF JobStates
  <2>3. CASE JobCheck(r) \/ (JobAcquire(r) /\ ~(engine < EngineLimit))
    <3>1. /\ job[r] # "native" /\ engine' = engine
          /\ \E s \in {"stopped", "checked", "busy"} : job' = [job EXCEPT ![r] = s]
      BY <2>3 DEF JobCheck, JobAcquire
    <3>2. Native' = Native
      BY <1>2, <3>1 DEF Native
    <3>3. {"stopped", "checked", "busy"} \subseteq JobStates
      BY DEF JobStates, JobDone, JobReply
    <3>4. engine' \in 0..EngineLimit
      BY <1>2, <3>1, AdmissionAssumption
    <3> QED
      BY <1>2, <3>1, <3>2, <3>3, <3>4
  <2> QED
    BY <2>1, <2>2, <2>3 DEF JobStep, JobAcquire
<1>4. TypeOK'
  <2>1. Gate!ContractTypeOK'
    BY <1>1 DEF TypeOK, Gate!ContractTypeOK, gateVars
  <2> QED
    BY <1>1, <1>3, <2>1 DEF TypeOK, permitVars
<1>5. \A stages : In(stages)' = In(stages)
  BY <1>1 DEF In
<1>6. HoldsAdmission' = HoldsAdmission
  BY <1>1 DEF HoldsAdmission, In
<1>7. PermitsConserved'
  BY <1>1, <1>3, <1>5, <1>6 DEF PermitsConserved, permitVars
<1>8. LineIsLive' /\ WorkIsInside'
  BY <1>1, <1>5 DEF LineIsLive, WorkIsInside, permitVars, gateVars
<1> QED
  BY <1>4, <1>7, <1>8

\* A session or an RPC takes a slot or returns one; no request notices.
LEMMA AdmissionInvOthers ==
  ASSUME AdmissionInv, Others
  PROVE  AdmissionInv'
<1> USE DEF AdmissionInv
<1>1. UNCHANGED <<gateVars, pc, reply, token, expired, permitVars, issued, job>>
  BY DEF Others
<1>2. \A stages : In(stages)' = In(stages)
  BY <1>1 DEF In
<1>3. HoldsAdmission' = HoldsAdmission /\ Native' = Native
  BY <1>1 DEF HoldsAdmission, In, Native
<1>4. /\ engine \in 0..EngineLimit /\ others \in 0..EngineLimit /\ EngineLimit \in Nat
      /\ engine = Cardinality(Native) + others
      /\ Native \subseteq Requests
  BY AdmissionAssumption DEF TypeOK, PermitsConserved, Native
<1>5. Cardinality(Native) \in Nat
  BY <1>4, Counted
<1>6. /\ engine' \in 0..EngineLimit /\ others' \in 0..EngineLimit
      /\ engine' = Cardinality(Native) + others'
  BY <1>4, <1>5 DEF Others
<1>7. TypeOK'
  <2>1. Gate!ContractTypeOK'
    BY <1>1 DEF TypeOK, Gate!ContractTypeOK, gateVars
  <2> QED
    BY <1>1, <1>6, <2>1 DEF TypeOK, permitVars
<1>8. PermitsConserved'
  BY <1>1, <1>2, <1>3, <1>6 DEF PermitsConserved, permitVars
<1>9. LineIsLive' /\ WorkIsInside'
  BY <1>1, <1>2 DEF LineIsLive, WorkIsInside, permitVars, gateVars
<1> QED
  BY <1>7, <1>8, <1>9

\* Clocks and the drain touch neither requests nor permits.
LEMMA AdmissionInvOutside ==
  ASSUME AdmissionInv, Drain \/ (\E r \in Requests : Expire(r)) \/ UNCHANGED vars
  PROVE  AdmissionInv'
<1> USE DEF AdmissionInv
<1>1. UNCHANGED <<pc, reply, token, permitVars, issued, jobVars, work, open>>
  BY DEF Drain, Expire, vars, gateVars, Gate!StartDrain, Gate!Force, Gate!Announce
<1>2. expired' \in [Requests -> BOOLEAN]
  BY DEF TypeOK, Drain, Expire, vars
<1>3. /\ Gate!ContractTypeOK'
      /\ phase' = "Graceful" => work = {}
  <2>1. CASE UNCHANGED gateVars
    BY <2>1 DEF TypeOK, WorkIsInside, Gate!ContractTypeOK, gateVars
  <2>2. CASE Drain
    BY <2>2, <1>1 DEF TypeOK, WorkIsInside, Drain, Gate!ContractTypeOK, Gate!StartDrain,
                      Gate!Force, Gate!Announce, Gate!Phases, Gate!Terminal
  <2> QED
    BY <2>1, <2>2 DEF Expire, vars
<1>4. \A stages : In(stages)' = In(stages)
  BY <1>1 DEF In
<1>5. HoldsAdmission' = HoldsAdmission /\ Native' = Native
  BY <1>1 DEF HoldsAdmission, In, Native, jobVars
<1>6. TypeOK'
  BY <1>1, <1>2, <1>3 DEF TypeOK, permitVars, jobVars
<1>7. PermitsConserved' /\ LineIsLive' /\ WorkIsInside'
  BY <1>1, <1>3, <1>4, <1>5 DEF PermitsConserved, LineIsLive, WorkIsInside, permitVars, jobVars
<1> QED
  BY <1>6, <1>7

LEMMA AdmissionInvStep == AdmissionInv /\ [Next]_vars => AdmissionInv'
<1> SUFFICES ASSUME AdmissionInv, [Next]_vars PROVE AdmissionInv'
  OBVIOUS
<1>1. CASE Drain \/ (\E r \in Requests : Expire(r)) \/ UNCHANGED vars
  BY <1>1, AdmissionInvOutside
<1>3. CASE Others
  BY <1>3, AdmissionInvOthers
<1>2. ASSUME NEW r \in Requests,
             \/ EnterStep(r) \/ BodyStep(r) \/ StopStep(r) \/ Disconnect(r)
             \/ HandlerStep(r) \/ LeaveStep(r) \/ JobStep(r)
      PROVE  AdmissionInv'
  <2>1. CASE EnterStep(r)
    BY <2>1, AdmissionInvEnter, AdmissionInvTake DEF EnterStep
  <2>2. CASE BodyRead(r) \/ AcquireExecution(r)
    BY <2>2, AdmissionInvBody, AdmissionInvAcquire
  <2>3. CASE BodyTooLarge(r) \/ StopStep(r) \/ Disconnect(r) \/ Respond(r)
    <3>1. pc[r] \in Waiting \cup {"polled"}
      BY <2>3 DEF BodyTooLarge, StopStep, StopWins, DeadlineWins, Disconnect, Respond, Waiting
    <3>2. \A s \in JobDone : JobReply[s] \in Replies
      BY DEF JobDone, JobReply, Replies, Refusals
    <3>3. PICK why \in Replies : End(r, why)
      BY <2>3, <3>2 DEF BodyTooLarge, StopStep, StopWins, DeadlineWins, Disconnect, Respond,
                        Replies, Refusals
    <3> QED
      BY <3>1, <3>3, AdmissionInvEnd
  <2>4. CASE PollHandler(r) \/ Pending(r)
    BY <2>4, AdmissionInvPoll
  <2>5. CASE LeaveStep(r)
    BY <2>5, AdmissionInvDropPermit, AdmissionInvDropGuard DEF LeaveStep
  <2>6. CASE JobStep(r)
    BY <2>6, AdmissionInvJob
  <2> QED
    BY <1>2, <2>1, <2>2, <2>3, <2>4, <2>5, <2>6 DEF BodyStep, HandlerStep
<1> QED
  BY <1>1, <1>2, <1>3 DEF Next

(***************************************************************************)
(* Whatever ends a request - an answer, a refusal, the deadline, the stop, *)
(* a client that went away - and whatever its orphaned inference does, the *)
(* semaphores, the engine's limiter, the line and the gate's work agree    *)
(* with where the requests are.                                            *)
(***************************************************************************)
THEOREM AdmissionInvariant == Spec => []AdmissionInv
<1>1. Init => AdmissionInv
  BY AdmissionInvInit
<1>2. AdmissionInv /\ [Next]_vars => AdmissionInv'
  BY AdmissionInvStep
<1> QED
  BY <1>1, <1>2, PTL DEF Spec

(***************************************************************************)
(* A drain that ends gracefully finds every permit returned and nobody in  *)
(* line: the guard is the last thing a request drops.                      *)
(***************************************************************************)
THEOREM GracefulReturns == Spec => []GracefulReturnsEverything
<1>1. AdmissionInv => GracefulReturnsEverything
  <2> SUFFICES ASSUME AdmissionInv, phase = "Graceful"
               PROVE  /\ admitted = MaxAdmitted /\ execution = MaxConcurrent /\ line = <<>>
    BY DEF GracefulReturnsEverything
  <2>1. \A r \in Requests : pc[r] \in {"idle", "done"}
    BY DEF AdmissionInv, WorkIsInside, In
  <2>2. HoldsAdmission = {} /\ In(Executing) = {} /\ In({"queued"}) = {}
    BY <2>1 DEF HoldsAdmission, Executing, Waiting, In
  <2>3. Cardinality({}) = 0
    BY FS_EmptySet
  <2>4. admitted = MaxAdmitted /\ execution = MaxConcurrent
    BY <2>2, <2>3, AdmissionAssumption DEF AdmissionInv, PermitsConserved, MaxAdmitted
  <2>5. line \in Seq(Requests) /\ {line[i] : i \in 1..Len(line)} = {}
    BY <2>2 DEF AdmissionInv, TypeOK, LineIsLive
  <2>6. Len(line) \in Nat
    BY <2>5, LenProperties
  <2>7. Len(line) = 0
    BY <2>5, <2>6
  <2> QED
    BY <2>4, <2>5, <2>7, EmptySeq
<1> QED
  BY <1>1, AdmissionInvariant, PTL

(***************************************************************************)
(* A request is told that the service is overloaded only while as many     *)
(* others as the limits allow are admitted (enforce_workload_policy).      *)
(***************************************************************************)
THEOREM OverloadTellsTheTruth == Spec => OverloadIsReal
<1> DEFINE Real(r) ==
      reply'[r] = "overloaded" /\ reply[r] # "overloaded" =>
        Cardinality(HoldsAdmission \ {r}) = MaxAdmitted
<1>1. AdmissionInv /\ [Next]_vars => [\A r \in Requests : Real(r)]_vars
  <2> SUFFICES ASSUME AdmissionInv, Next, NEW r \in Requests,
                      reply'[r] = "overloaded", reply[r] # "overloaded"
               PROVE  Cardinality(HoldsAdmission \ {r}) = MaxAdmitted
    OBVIOUS
  <2>1. reply \in [Requests -> Replies]
    BY DEF AdmissionInv, TypeOK
  <2>2. ~UNCHANGED reply
    OBVIOUS
  <2>3. ASSUME NEW q \in Requests, NEW why, End(q, why)
        PROVE  why = "overloaded"
    BY <2>1, <2>3 DEF End, Answer
  <2>4. Overloaded(r)
    <3>1. ASSUME NEW q \in Requests, EnterStep(q)
          PROVE  Overloaded(r)
      <4>1. CASE Overloaded(q)
        <5>1. q = r
          BY <2>1, <4>1 DEF Overloaded, Answer
        <5> QED
          BY <4>1, <5>1
      <4>2. CASE EnterGate(q) \/ GateClosed(q) \/ TakeAdmission(q)
        BY <2>1, <2>2, <4>2 DEF EnterGate, GateClosed, TakeAdmission, Answer
      <4> QED
        BY <3>1, <4>1, <4>2 DEF EnterStep
    <3>2. ASSUME NEW q \in Requests, BodyStep(q) \/ StopStep(q) \/ Disconnect(q)
          PROVE  FALSE
      BY <2>2, <2>3, <3>2 DEF BodyStep, StopStep, Disconnect, BodyRead, BodyTooLarge,
                              AcquireExecution, StopWins, DeadlineWins
    <3>3. ASSUME NEW q \in Requests, HandlerStep(q)
          PROVE  FALSE
      <4>1. \A done \in JobDone : JobReply[done] # "overloaded"
        BY DEF JobDone, JobReply
      <4> QED
        BY <2>2, <2>3, <3>3, <4>1 DEF HandlerStep, PollHandler, Respond, Pending
    <3>4. ASSUME NEW q \in Requests, LeaveStep(q) \/ JobStep(q) \/ Expire(q) \/ Drain \/ Others
          PROVE  FALSE
      BY <2>2, <3>4 DEF LeaveStep, JobStep, Expire, Drain, Others, DropPermit, DropGuard, JobCheck,
                        JobAcquire, JobFinish
    <3> QED
      BY <3>1, <3>2, <3>3, <3>4 DEF Next
  <2>5. HoldsAdmission \ {r} = HoldsAdmission
    BY <2>4 DEF Overloaded, HoldsAdmission, In, Waiting
  <2>6. admitted = 0 /\ admitted = MaxAdmitted - Cardinality(HoldsAdmission)
    BY <2>4 DEF Overloaded, AdmissionInv, PermitsConserved
  <2>7. Cardinality(HoldsAdmission) \in Nat /\ MaxAdmitted \in Nat
    BY Counted, AdmissionAssumption DEF HoldsAdmission, In, MaxAdmitted
  <2>8. Cardinality(HoldsAdmission) = MaxAdmitted
    <3> HIDE DEF Real
    <3> QED
      BY <2>6, <2>7
  <2> QED
    BY <2>5, <2>8
<1> QED
  BY <1>1, AdmissionInvInit, AdmissionInvStep, PTL DEF Spec, OverloadIsReal

(***************************************************************************)
(* Where the engine has as many slots as there are execution permits, it   *)
(* refuses a request that has a permit only while a slot is with a session *)
(* or an RPC, or with an inference whose request has lost its own permit   *)
(* (VoiceEngines::load and Limiter::acquire).                              *)
(***************************************************************************)
THEOREM BusyMeansOutsider ==
  ASSUME EngineLimit = MaxConcurrent
  PROVE  Spec => BusyNeedsOutsider
<1> DEFINE Explained(r) ==
      job'[r] = "busy" /\ job[r] # "busy" /\ pc[r] \in Executing =>
        others > 0 \/ \E q \in Native : pc[q] \notin Executing
<1>1. AdmissionInv /\ [Next]_vars => [\A r \in Requests : Explained(r)]_vars
  <2> SUFFICES ASSUME AdmissionInv, Next, NEW r \in Requests,
                      job'[r] = "busy", job[r] # "busy", pc[r] \in Executing
               PROVE  others > 0 \/ \E q \in Native : pc[q] \notin Executing
    OBVIOUS
  <2>1. job \in [Requests -> JobStates]
    BY DEF AdmissionInv, TypeOK
  <2>2. ~UNCHANGED job
    OBVIOUS
  <2>3. job[r] = "checked" /\ engine = EngineLimit
    <3>1. ASSUME NEW q \in Requests, JobStep(q)
          PROVE  job[r] = "checked" /\ engine = EngineLimit
      <4>1. CASE JobAcquire(q)
        <5>1. q = r
          BY <2>1, <4>1 DEF JobAcquire
        <5>2. engine \in 0..EngineLimit /\ EngineLimit \in Nat
          BY AdmissionAssumption DEF AdmissionInv, TypeOK
        <5>3. ~(engine < EngineLimit)
          BY <2>1, <4>1, <5>1 DEF JobAcquire
        <5> QED
          BY <4>1, <5>1, <5>2, <5>3 DEF JobAcquire
      <4>2. CASE JobCheck(q) \/ JobFinish(q)
        BY <2>1, <4>2 DEF JobCheck, JobFinish
      <4> QED
        BY <3>1, <4>1, <4>2 DEF JobStep
    <3>2. ASSUME NEW q \in Requests, PollHandler(q)
          PROVE  FALSE
      BY <2>1, <2>2, <3>2 DEF PollHandler
    <3>3. ASSUME NEW q \in Requests,
                 \/ EnterStep(q) \/ BodyStep(q) \/ StopStep(q) \/ Disconnect(q)
                 \/ Respond(q) \/ Pending(q) \/ LeaveStep(q) \/ Expire(q)
          PROVE  FALSE
      BY <2>2, <3>3 DEF EnterStep, BodyStep, StopStep, Disconnect, LeaveStep, EnterGate, GateClosed,
           Overloaded, TakeAdmission, BodyRead, BodyTooLarge, AcquireExecution, StopWins,
           DeadlineWins, End, Respond, Pending, DropPermit, DropGuard, Expire, jobVars
    <3>4. CASE Drain \/ Others
      BY <2>2, <3>4 DEF Drain, Others, jobVars
    <3> QED
      BY <3>1, <3>2, <3>3, <3>4 DEF Next, HandlerStep
  <2>4. SUFFICES ASSUME Native \subseteq In(Executing), ~(others > 0)
                 PROVE  FALSE
    BY DEF Native, In
  <2>5. Native \subseteq In(Executing) \ {r} /\ r \in In(Executing)
    BY <2>3, <2>4 DEF Native, In
  <2>6. IsFiniteSet(In(Executing) \ {r}) /\ IsFiniteSet(In(Executing))
    BY AdmissionAssumption, FS_Subset DEF In
  <2>7. Cardinality(Native) <= Cardinality(In(Executing) \ {r})
    BY <2>5, <2>6, FS_Subset
  <2>8. /\ Cardinality(In(Executing) \ {r}) = Cardinality(In(Executing)) - 1
        /\ Cardinality(In(Executing)) \in Nat /\ Cardinality(Native) \in Nat
    BY <2>5, <2>6, FS_RemoveElement, FS_CardinalityType, FS_Subset, Counted DEF Native, In
  <2>9. /\ engine = Cardinality(Native) + others /\ others \in 0..EngineLimit
        /\ execution = MaxConcurrent - Cardinality(In(Executing))
        /\ execution \in 0..MaxConcurrent /\ MaxConcurrent \in Nat
    BY AdmissionAssumption DEF AdmissionInv, PermitsConserved, TypeOK
  <2>10. Cardinality(Native) = MaxConcurrent
    BY <2>3, <2>4, <2>8, <2>9
  <2>11. Cardinality(In(Executing)) <= MaxConcurrent
    BY <2>8, <2>9
  <2> QED
    BY <2>7, <2>8, <2>9, <2>10, <2>11
<1> QED
  BY <1>1, AdmissionInvInit, AdmissionInvStep, PTL DEF Spec, BusyNeedsOutsider
=============================================================================
