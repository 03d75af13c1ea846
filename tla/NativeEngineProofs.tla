-------------------------- MODULE NativeEngineProofs --------------------------
(***************************************************************************)
(* What the native engines guarantee for any number of calls, slots and    *)
(* worker threads and any decoding bound: gates are owned by whoever is    *)
(* inside, and references, slots and native streams are accounted for.     *)
(***************************************************************************)
EXTENDS NativeEngine, FiniteSetTheorems, TLAPS

\* The references and slots aside, what an action may do to the other calls.
CallStays(d) ==
  /\ at'[d] = at[d] /\ op'[d] = op[d] /\ stream'[d] = stream[d] /\ spare'[d] = spare[d]
  /\ closing'[d] = closing[d] /\ result'[d] = result[d]

GateOf(c) ==
  \/ UNCHANGED mutex
  \/ mutex[Engine(c)] \in {c, Nobody} /\ \E m \in {c, Nobody} : mutex' = [mutex EXCEPT ![Engine(c)] = m]

\* Calls that stay are as they were, whatever another call does with its gate.
LEMMA OthersStay ==
  ASSUME NativeInv, NEW c \in Calls, GateOf(c), \A d \in Calls \ {c} : CallStays(d)
  PROVE  \A d \in Calls \ {c} : SerializedCall(d)' /\ StreamFollowsCall(d)'
<1> SUFFICES ASSUME NEW d \in Calls \ {c} PROVE SerializedCall(d)' /\ StreamFollowsCall(d)'
  OBVIOUS
<1>1. /\ SerializedCall(d) /\ StreamFollowsCall(d) /\ CallStays(d)
      /\ mutex \in [Engines -> Calls \cup {Nobody}]
  BY DEF NativeInv, TypeOK, Serialized, StreamsFollowCalls
<1>2. StreamFollowsCall(d)'
  BY <1>1 DEF StreamFollowsCall, CallStays
<1>3. \A e \in Engines : mutex'[e] = d <=> mutex[e] = d
  BY <1>1, EngineAssumption DEF GateOf
<1>4. Engine(d) \in Engines /\ OtherEngine(d) \in Engines
  BY DEF Engine, OtherEngine, Engines
<1>5. SerializedCall(d)'
  BY <1>1, <1>3, <1>4 DEF SerializedCall, CallStays
<1> QED
  BY <1>2, <1>5

\* The steps of a call that take or return no reference, slot or stream.
PlainStep(c) ==
  \/ c \in Streams /\ (Push(c) \/ Commit(c) \/ DropSession(c))
  \/ Stopped(c) \/ Accept(c) \/ Finish(c)
  \/ TakeGate(c) \/ NativeFails(c)
  \/ Decode(c) \/ Decoded(c) \/ DecodeGivesUp(c) \/ GetResult(c) \/ CopyResult(c)

LEMMA PlainKeepsOthers ==
  ASSUME NativeInv, NEW c \in Calls, PlainStep(c)
  PROVE  /\ \A d \in Calls \ {c} : CallStays(d)
         /\ GateOf(c)
         /\ UNCHANGED <<spare, slots, handles, process>>
<1>1. /\ at \in [Calls -> Started \cup {"idle", "done"}]
      /\ op \in [Calls -> Gated \cup Ungated]
      /\ stream \in [Calls -> {"none", "open", "finished"}]
      /\ closing \in [Calls -> BOOLEAN] /\ result \in [Calls -> BOOLEAN]
      /\ SerializedCall(c)
  BY DEF NativeInv, TypeOK, Serialized
<1> USE DEF Goto, Proceed, Lock, Unwind, Unlock, CallStays, GateOf, SerializedCall, Continue
<1>2. CASE c \in Streams /\ (Push(c) \/ Commit(c) \/ DropSession(c))
  BY <1>1, <1>2 DEF Push, Commit, DropSession
<1>3. CASE Stopped(c) \/ Accept(c) \/ Finish(c)
  BY <1>1, <1>3 DEF Stopped, Accept, Finish
<1>4. CASE TakeGate(c)
  BY <1>1, <1>4 DEF TakeGate
<1>5. CASE NativeFails(c) \/ Decode(c) \/ DecodeGivesUp(c) \/ GetResult(c)
  BY <1>1, <1>5 DEF NativeFails, Decode, DecodeGivesUp, GetResult, Inside
<1>6. CASE Decoded(c)
  BY <1>1, <1>6 DEF Decoded, Inside
<1>7. CASE CopyResult(c)
  BY <1>1, <1>7 DEF CopyResult
<1> QED
  BY <1>2, <1>3, <1>4, <1>5, <1>6, <1>7 DEF PlainStep

LEMMA PlainKeepsCall ==
  ASSUME NativeInv, NEW c \in Calls, PlainStep(c)
  PROVE  SerializedCall(c)' /\ StreamFollowsCall(c)'
<1>1. /\ SerializedCall(c) /\ StreamFollowsCall(c)
      /\ at \in [Calls -> Started \cup {"idle", "done"}]
      /\ op \in [Calls -> Gated \cup Ungated]
      /\ stream \in [Calls -> {"none", "open", "finished"}]
      /\ spare \in [Calls -> BOOLEAN] /\ closing \in [Calls -> BOOLEAN]
      /\ result \in [Calls -> BOOLEAN]
      /\ mutex \in [Engines -> Calls \cup {Nobody}]
  BY DEF NativeInv, TypeOK, Serialized, StreamsFollowCalls
<1>2. /\ Engine(c) \in Engines /\ OtherEngine(c) \in Engines /\ Engine(c) # OtherEngine(c)
      /\ c # Nobody /\ (c \in Streams => c \notin Speeches)
  BY EngineAssumption DEF Engine, OtherEngine, Engines, Calls
<1> USE DEF Goto, Proceed, Lock, Unwind, Unlock, Continue, SerializedCall, StreamFollowsCall,
            Gated, Ungated, Started, OnThread
<1>3. CASE c \in Streams /\ Push(c)
  BY <1>1, <1>2, <1>3 DEF Push
<1>4. CASE c \in Streams /\ Commit(c)
  BY <1>1, <1>2, <1>4 DEF Commit
<1>5. CASE c \in Streams /\ DropSession(c)
  BY <1>1, <1>2, <1>5 DEF DropSession
<1>6. CASE Stopped(c)
  BY <1>1, <1>2, <1>6 DEF Stopped
<1>7. CASE Accept(c)
  BY <1>1, <1>2, <1>7 DEF Accept
<1>8. CASE Finish(c)
  BY <1>1, <1>2, <1>8 DEF Finish
<1>9. CASE TakeGate(c)
  BY <1>1, <1>2, <1>9 DEF TakeGate
<1>10. CASE NativeFails(c)
  BY <1>1, <1>2, <1>10 DEF NativeFails
<1>11. CASE Decode(c)
  BY <1>1, <1>2, <1>11 DEF Decode
<1>12. CASE Decoded(c)
  BY <1>1, <1>2, <1>12 DEF Decoded, Inside
<1>13. CASE DecodeGivesUp(c)
  BY <1>1, <1>2, <1>13 DEF DecodeGivesUp, Inside
<1>14. CASE GetResult(c)
  BY <1>1, <1>2, <1>14 DEF GetResult
<1>15. CASE CopyResult(c)
  BY <1>1, <1>2, <1>15 DEF CopyResult
<1> QED
  BY <1>3, <1>4, <1>5, <1>6, <1>7, <1>8, <1>9, <1>10, <1>11, <1>12, <1>13, <1>14, <1>15
     DEF PlainStep

-----------------------------------------------------------------------------
(***************************************************************************)
(* The accounts.                                                           *)
(***************************************************************************)
LEMMA Counted ==
  ASSUME NEW S, S \subseteq Calls
  PROVE  /\ Cardinality(S) \in Nat
         /\ \A c \in S : Cardinality(S \ {c}) = Cardinality(S) - 1
         /\ \A c \in Calls \ S : Cardinality(S \cup {c}) = Cardinality(S) + 1
         /\ Cardinality(S) = 0 <=> S = {}
<1>1. IsFiniteSet(S)
  BY FS_Subset, EngineAssumption
<1> QED
  BY <1>1, FS_CardinalityType, FS_AddElement, FS_RemoveElement, FS_EmptySet

\* What the accounts of both engines add up.
LEMMA Numbers ==
  ASSUME TypeOK
  PROVE  /\ Cardinality(Using("stt")) \in Nat /\ Cardinality(Using("tts")) \in Nat
         /\ Cardinality(Holding("stt")) \in Nat /\ Cardinality(Holding("tts")) \in Nat
         /\ Cardinality(WithStream) \in Nat /\ Cardinality(WithSpare) \in Nat
         /\ slots["stt"] \in 0..MaxConcurrent /\ slots["tts"] \in 0..MaxConcurrent
         /\ handles["stt"] \in Nat /\ handles["tts"] \in Nat
         /\ MaxConcurrent \in Nat
<1>1. \A e \in Engines : Using(e) \subseteq Calls /\ Holding(e) \subseteq Calls
  BY DEF Using, Holding
<1>2. WithStream \subseteq Calls /\ WithSpare \subseteq Calls
  BY DEF WithStream, WithSpare
<1>3. "stt" \in Engines /\ "tts" \in Engines
  BY DEF Engines
<1> QED
  BY <1>1, <1>2, <1>3, Counted, EngineAssumption DEF TypeOK

LEMMA PlainKeepsAccounts ==
  ASSUME NativeInv, NEW c \in Calls, PlainStep(c)
  PROVE  TypeOK' /\ Accounted'
<1>1. TypeOK /\ Accounted /\ StreamFollowsCall(c)
  BY DEF NativeInv, StreamsFollowCalls
<1>2. /\ \A d \in Calls \ {c} : CallStays(d)
      /\ UNCHANGED <<spare, slots, handles, process>>
  BY PlainKeepsOthers
<1>3. at[c] \in Started /\ at'[c] \in Started /\ (stream'[c] = "none" <=> stream[c] = "none")
  <2> USE DEF Goto, Proceed, Lock, Unwind, Continue, Started, OnThread, StreamFollowsCall
  <2>1. /\ at \in [Calls -> Started \cup {"idle", "done"}]
        /\ stream \in [Calls -> {"none", "open", "finished"}]
    BY <1>1 DEF TypeOK
  <2>2. CASE c \in Streams /\ (Push(c) \/ Commit(c) \/ DropSession(c))
    BY <2>1, <2>2 DEF Push, Commit, DropSession
  <2>3. CASE Stopped(c) \/ Accept(c) \/ Finish(c)
    BY <1>1, <2>1, <2>3 DEF Stopped, Accept, Finish
  <2>4. CASE TakeGate(c) \/ NativeFails(c) \/ Decode(c) \/ DecodeGivesUp(c) \/ GetResult(c)
    BY <2>1, <2>4 DEF TakeGate, NativeFails, Decode, DecodeGivesUp, GetResult, Inside
  <2>5. CASE Decoded(c) \/ CopyResult(c)
    BY <2>1, <2>5 DEF Decoded, CopyResult, Inside
  <2> QED
    BY <2>2, <2>3, <2>4, <2>5 DEF PlainStep
<1>4. /\ \A e \in Engines : Using(e)' = Using(e) /\ Holding(e)' = Holding(e)
      /\ WithStream' = WithStream /\ WithSpare' = WithSpare
  <2>1. \A d \in Calls : /\ at'[d] \in Started <=> at[d] \in Started
                         /\ stream'[d] = "none" <=> stream[d] = "none"
    BY <1>2, <1>3 DEF CallStays
  <2> QED
    BY <1>2, <2>1 DEF Using, Holding, WithStream, WithSpare
<1>5. Accounted'
  BY <1>1, <1>2, <1>4 DEF Accounted, Engines
<1>6. TypeOK'
  <2> USE DEF Goto, Proceed, Lock, Unwind, Unlock, Continue, Started, OnThread, Gated, Ungated
  <2>1. /\ at \in [Calls -> Started \cup {"idle", "done"}]
        /\ op \in [Calls -> Gated \cup Ungated]
        /\ stream \in [Calls -> {"none", "open", "finished"}]
        /\ closing \in [Calls -> BOOLEAN] /\ result \in [Calls -> BOOLEAN]
        /\ mutex \in [Engines -> Calls \cup {Nobody}] /\ Engine(c) \in Engines
    BY <1>1 DEF TypeOK, Engine, Engines
  <2>2. /\ at' \in [Calls -> Started \cup {"idle", "done"}]
        /\ op' \in [Calls -> Gated \cup Ungated]
        /\ stream' \in [Calls -> {"none", "open", "finished"}]
        /\ closing' \in [Calls -> BOOLEAN] /\ result' \in [Calls -> BOOLEAN]
        /\ mutex' \in [Engines -> Calls \cup {Nobody}]
    <3>1. CASE c \in Streams /\ (Push(c) \/ Commit(c) \/ DropSession(c))
      BY <2>1, <3>1 DEF Push, Commit, DropSession
    <3>2. CASE Stopped(c) \/ Accept(c) \/ Finish(c)
      BY <2>1, <3>2 DEF Stopped, Accept, Finish
    <3>3. CASE TakeGate(c) \/ NativeFails(c)
      BY <2>1, <3>3 DEF TakeGate, NativeFails
    <3>4. CASE Decode(c) \/ DecodeGivesUp(c) \/ GetResult(c)
      BY <2>1, <3>4 DEF Decode, DecodeGivesUp, GetResult, Inside
    <3>5. CASE Decoded(c) \/ CopyResult(c)
      BY <2>1, <3>5 DEF Decoded, CopyResult, Inside
    <3> QED
      BY <3>1, <3>2, <3>3, <3>4, <3>5 DEF PlainStep
  <2>3. steps' \in [Calls -> 0..MaxDecodeSteps]
    <3>1. MaxDecodeSteps \in Nat /\ steps \in [Calls -> 0..MaxDecodeSteps]
      BY <1>1, EngineAssumption DEF TypeOK
    <3>2. \/ steps' = steps
          \/ steps' = [steps EXCEPT ![c] = 0]
          \/ steps[c] < MaxDecodeSteps /\ steps' = [steps EXCEPT ![c] = steps[c] + 1]
      BY DEF PlainStep, Push, Commit, DropSession, Stopped, Accept, Finish, TakeGate, NativeFails,
             Decode, DecodeGivesUp, GetResult, Decoded, CopyResult
    <3>3. 0 \in 0..MaxDecodeSteps /\ (steps[c] < MaxDecodeSteps => steps[c] + 1 \in 0..MaxDecodeSteps)
      BY <3>1
    <3> QED
      BY <3>1, <3>2, <3>3
  <2>4. frames' \in [Calls -> 0..MaxFrames]
    <3>1. MaxFrames \in Nat \ {0} /\ frames \in [Calls -> 0..MaxFrames]
      BY <1>1, EngineAssumption DEF TypeOK
    <3>2. \/ frames' = frames
          \/ \E n \in 1..MaxFrames : frames' = [frames EXCEPT ![c] = n]
          \/ frames' = [frames EXCEPT ![c] = IF @ > 0 THEN @ - 1 ELSE 0]
          \/ frames' = [frames EXCEPT ![c] = 1]
      BY DEF PlainStep, Push, Commit, DropSession, Stopped, Accept, Finish, TakeGate, NativeFails,
             Decode, DecodeGivesUp, GetResult, Decoded, CopyResult
    <3>3. /\ 1 \in 0..MaxFrames /\ \A n \in 1..MaxFrames : n \in 0..MaxFrames
          /\ (IF frames[c] > 0 THEN frames[c] - 1 ELSE 0) \in 0..MaxFrames
      BY <3>1
    <3> QED
      BY <3>1, <3>2, <3>3
  <2> QED
    BY <1>1, <1>2, <2>2, <2>3, <2>4 DEF TypeOK
<1> QED
  BY <1>5, <1>6

\* Types at hand, and the engines a call belongs to and holds.
LEMMA Facts ==
  ASSUME NativeInv, NEW c \in Calls
  PROVE  /\ at \in [Calls -> Started \cup {"idle", "done"}]
         /\ op \in [Calls -> Gated \cup Ungated]
         /\ stream \in [Calls -> {"none", "open", "finished"}]
         /\ spare \in [Calls -> BOOLEAN]
         /\ frames \in [Calls -> 0..MaxFrames]
         /\ mutex \in [Engines -> Calls \cup {Nobody}]
         /\ slots \in [Engines -> 0..MaxConcurrent]
         /\ handles \in [Engines -> Nat]
         /\ SerializedCall(c) /\ StreamFollowsCall(c)
         /\ Engine(c) \in Shared(c) /\ Shared(c) \subseteq Engines /\ "stt" \in Shared(c)
         /\ Engine(c) \in Engines /\ OtherEngine(c) \in Engines /\ Engine(c) # OtherEngine(c)
         /\ c # Nobody /\ (c \in Streams => c \notin Speeches)
         /\ Engines = {"stt", "tts"}
BY EngineAssumption DEF NativeInv, TypeOK, Serialized, StreamsFollowCalls, Engine, OtherEngine,
   Shared, Engines, Calls

\* A call that starts enters the accounts of the engines it holds.
LEMMA BeginKeeps ==
  ASSUME NativeInv, NEW c \in Calls, Begin(c)
  PROVE  NativeInv'
<1>1. TypeOK /\ Accounted
  BY DEF NativeInv
<1>2. /\ at[c] = "idle"
      /\ UNCHANGED <<stream, spare, steps, frames, closing, result, mutex, process>>
      /\ \E where \in {"waiting", "done"}, what \in Gated \cup Ungated : Goto(c, where, what)
  BY Facts DEF Begin, Lock, Gated
<1>3. /\ at' \in [Calls -> Started \cup {"idle", "done"}] /\ op' \in [Calls -> Gated \cup Ungated]
      /\ \A d \in Calls \ {c} : CallStays(d)
      /\ GateOf(c)
  BY <1>2, Facts DEF Goto, Started, OnThread, CallStays, GateOf
<1>4. CASE slots[Engine(c)] < MaxConcurrent
  <2>1. /\ slots' = [slots EXCEPT ![Engine(c)] = @ + 1] /\ Clone(Shared(c))
        /\ at'[c] = "waiting" /\ op'[c] = IF c \in Speeches THEN "generate" ELSE "create"
    BY <1>4, Facts DEF Begin, Lock, Goto
  <2>2. SerializedCall(c)' /\ StreamFollowsCall(c)'
    BY <1>2, <2>1, Facts DEF SerializedCall, StreamFollowsCall, Started, OnThread, Gated, Ungated
  <2>3. /\ \A e \in Engines : Using(e)' = IF e = Engine(c) THEN Using(e) \cup {c} ELSE Using(e)
        /\ \A e \in Engines : Holding(e)' = IF e \in Shared(c) THEN Holding(e) \cup {c} ELSE Holding(e)
        /\ \A e \in Engines : c \notin Using(e) /\ c \notin Holding(e)
        /\ WithStream' = WithStream /\ WithSpare' = WithSpare
    BY <1>2, <1>3, <2>1 DEF Using, Holding, WithStream, WithSpare, CallStays, Started, OnThread
  <2>4. \A e \in Engines :
          /\ Cardinality(Using(e)') = Cardinality(Using(e)) + (IF e = Engine(c) THEN 1 ELSE 0)
          /\ Cardinality(Holding(e)') = Cardinality(Holding(e)) + (IF e \in Shared(c) THEN 1 ELSE 0)
    <3> SUFFICES ASSUME NEW e \in Engines
                 PROVE  /\ Cardinality(Using(e)') = Cardinality(Using(e)) + (IF e = Engine(c) THEN 1 ELSE 0)
                        /\ Cardinality(Holding(e)') = Cardinality(Holding(e)) + (IF e \in Shared(c) THEN 1 ELSE 0)
      OBVIOUS
    <3>1. Using(e) \subseteq Calls /\ Holding(e) \subseteq Calls
      BY DEF Using, Holding
    <3>2. /\ Cardinality(Using(e) \cup {c}) = Cardinality(Using(e)) + 1
          /\ Cardinality(Holding(e) \cup {c}) = Cardinality(Holding(e)) + 1
          /\ Cardinality(Using(e)) \in Nat /\ Cardinality(Holding(e)) \in Nat
      BY <2>3, <3>1, Counted
    <3> QED
      BY <2>3, <3>2
  <2>5. \A e \in Engines :
          /\ slots'[e] = slots[e] + (IF e = Engine(c) THEN 1 ELSE 0)
          /\ handles'[e] = handles[e] + (IF e \in Shared(c) THEN 1 ELSE 0)
    BY <1>1, <2>1, Numbers, Facts DEF Clone
  <2>6. Accounted'
    <3>1. \A e \in Engines : slots'[e] = Cardinality(Using(e)')
      BY <1>1, <2>4, <2>5 DEF Accounted
    <3>2. /\ handles'["tts"] = handles["tts"] + (IF "tts" \in Shared(c) THEN 1 ELSE 0)
          /\ Cardinality(Holding("tts")') = Cardinality(Holding("tts")) + (IF "tts" \in Shared(c) THEN 1 ELSE 0)
          /\ handles'["stt"] = handles["stt"] + 1
          /\ Cardinality(Holding("stt")') = Cardinality(Holding("stt")) + 1
      BY <2>4, <2>5, Facts
    <3>3. /\ handles'["tts"] = Cardinality(Holding("tts")') + (IF process' = "serving" THEN 1 ELSE 0)
          /\ handles'["stt"] = Cardinality(Holding("stt")') + (IF process' = "serving" THEN 1 ELSE 0)
                              + Cardinality(WithStream') + Cardinality(WithSpare')
      BY <1>1, <1>2, <2>3, <3>2, Numbers DEF Accounted
    <3> QED
      BY <3>1, <3>3 DEF Accounted
  <2>7. /\ slots' \in [Engines -> 0..MaxConcurrent] /\ handles' \in [Engines -> Nat]
    <3>1. slots[Engine(c)] + 1 \in 0..MaxConcurrent
      BY <1>1, <1>4, Numbers, Facts
    <3>2. \A e \in Engines : handles[e] + 1 \in Nat /\ handles[e] \in Nat
      BY Facts
    <3> QED
      BY <2>1, <3>1, <3>2, Facts DEF Clone
  <2>8. TypeOK'
    BY <1>1, <1>2, <1>3, <2>7 DEF TypeOK
  <2> QED
    BY <1>3, <2>2, <2>6, <2>8, OthersStay DEF NativeInv, Serialized, StreamsFollowCalls
<1>5. CASE ~(slots[Engine(c)] < MaxConcurrent)
  <2>1. UNCHANGED <<slots, handles>> /\ at'[c] = "done" /\ op'[c] = op[c]
    BY <1>5, Facts DEF Begin, Goto
  <2>2. SerializedCall(c)' /\ StreamFollowsCall(c)'
    BY <1>2, <2>1, Facts DEF SerializedCall, StreamFollowsCall, Started, OnThread
  <2>3. /\ \A e \in Engines : Using(e)' = Using(e) /\ Holding(e)' = Holding(e)
        /\ WithStream' = WithStream /\ WithSpare' = WithSpare
    BY <1>2, <1>3, <2>1 DEF Using, Holding, WithStream, WithSpare, CallStays, Started, OnThread
  <2>4. Accounted' /\ TypeOK'
    BY <1>1, <1>2, <1>3, <2>1, <2>3, Facts DEF Accounted, TypeOK
  <2> QED
    BY <1>3, <2>2, <2>4, OthersStay DEF NativeInv, Serialized, StreamsFollowCalls
<1> QED
  BY <1>4, <1>5

\* A call that is over leaves them.
LEMMA ReturnKeeps ==
  ASSUME NativeInv, NEW c \in Calls, Return(c)
  PROVE  NativeInv'
<1>1. TypeOK /\ Accounted
  BY DEF NativeInv
<1>2. /\ at[c] = "unwound" /\ at'[c] = "done" /\ op'[c] = op[c]
      /\ slots' = [slots EXCEPT ![Engine(c)] = @ - 1] /\ Release(Shared(c))
      /\ UNCHANGED <<stream, spare, steps, frames, closing, result, mutex, process>>
  BY Facts DEF Return, Goto
<1>3. /\ at' \in [Calls -> Started \cup {"idle", "done"}] /\ op' \in [Calls -> Gated \cup Ungated]
      /\ \A d \in Calls \ {c} : CallStays(d)
      /\ GateOf(c)
  BY Facts DEF Return, Goto, Started, OnThread, CallStays, GateOf
<1>4. SerializedCall(c)' /\ StreamFollowsCall(c)'
  BY <1>2, Facts DEF SerializedCall, StreamFollowsCall, Started, OnThread
<1>5. /\ \A e \in Engines : Using(e)' = IF e = Engine(c) THEN Using(e) \ {c} ELSE Using(e)
      /\ \A e \in Engines : Holding(e)' = IF e \in Shared(c) THEN Holding(e) \ {c} ELSE Holding(e)
      /\ c \in Using(Engine(c)) /\ \A e \in Shared(c) : c \in Holding(e)
      /\ WithStream' = WithStream /\ WithSpare' = WithSpare
  BY <1>2, <1>3 DEF Using, Holding, WithStream, WithSpare, CallStays, Started, OnThread
<1>6. \A e \in Engines :
        /\ Cardinality(Using(e)') = Cardinality(Using(e)) - (IF e = Engine(c) THEN 1 ELSE 0)
        /\ Cardinality(Holding(e)') = Cardinality(Holding(e)) - (IF e \in Shared(c) THEN 1 ELSE 0)
        /\ Cardinality(Using(e)') \in Nat /\ Cardinality(Holding(e)') \in Nat
  <2> SUFFICES ASSUME NEW e \in Engines
               PROVE  /\ Cardinality(Using(e)') = Cardinality(Using(e)) - (IF e = Engine(c) THEN 1 ELSE 0)
                      /\ Cardinality(Holding(e)') = Cardinality(Holding(e)) - (IF e \in Shared(c) THEN 1 ELSE 0)
                      /\ Cardinality(Using(e)') \in Nat /\ Cardinality(Holding(e)') \in Nat
    OBVIOUS
  <2>1. /\ Using(e) \subseteq Calls /\ Holding(e) \subseteq Calls
        /\ Using(e)' \subseteq Calls /\ Holding(e)' \subseteq Calls
    BY DEF Using, Holding
  <2>2. /\ Cardinality(Using(e)) \in Nat /\ Cardinality(Holding(e)) \in Nat
        /\ Cardinality(Using(e)') \in Nat /\ Cardinality(Holding(e)') \in Nat
    BY <2>1, Counted
  <2>3. Cardinality(Using(e)') = Cardinality(Using(e)) - (IF e = Engine(c) THEN 1 ELSE 0)
    <3>1. CASE e = Engine(c)
      BY <1>5, <2>1, <2>2, <3>1, Counted
    <3>2. CASE e # Engine(c)
      BY <1>5, <2>2, <3>2
    <3> QED
      BY <3>1, <3>2
  <2>4. Cardinality(Holding(e)') = Cardinality(Holding(e)) - (IF e \in Shared(c) THEN 1 ELSE 0)
    <3>1. CASE e \in Shared(c)
      BY <1>5, <2>1, <2>2, <3>1, Counted
    <3>2. CASE e \notin Shared(c)
      BY <1>5, <2>2, <3>2
    <3> QED
      BY <3>1, <3>2
  <2> QED
    BY <2>2, <2>3, <2>4
<1>7. \A e \in Engines :
        /\ slots'[e] = slots[e] - (IF e = Engine(c) THEN 1 ELSE 0)
        /\ handles'[e] = handles[e] - (IF e \in Shared(c) THEN 1 ELSE 0)
  BY <1>1, <1>2, Numbers, Facts DEF Release
<1>8. Accounted'
  <2>1. \A e \in Engines : slots'[e] = Cardinality(Using(e)')
    BY <1>1, <1>6, <1>7 DEF Accounted
  <2>2. /\ handles'["tts"] = handles["tts"] - (IF "tts" \in Shared(c) THEN 1 ELSE 0)
        /\ Cardinality(Holding("tts")') = Cardinality(Holding("tts")) - (IF "tts" \in Shared(c) THEN 1 ELSE 0)
        /\ handles'["stt"] = handles["stt"] - 1
        /\ Cardinality(Holding("stt")') = Cardinality(Holding("stt")) - 1
    BY <1>6, <1>7, Facts
  <2>3. /\ handles'["tts"] = Cardinality(Holding("tts")') + (IF process' = "serving" THEN 1 ELSE 0)
        /\ handles'["stt"] = Cardinality(Holding("stt")') + (IF process' = "serving" THEN 1 ELSE 0)
                            + Cardinality(WithStream') + Cardinality(WithSpare')
    BY <1>1, <1>2, <1>5, <2>2, Numbers DEF Accounted
  <2> QED
    BY <2>1, <2>3 DEF Accounted
<1>9. slots' \in [Engines -> 0..MaxConcurrent] /\ handles' \in [Engines -> Nat]
  <2>1. \A e \in Engines : slots'[e] \in 0..MaxConcurrent
    <3> SUFFICES ASSUME NEW e \in Engines PROVE slots'[e] \in 0..MaxConcurrent
      OBVIOUS
    <3>1. slots[e] \in 0..MaxConcurrent /\ slots'[e] = Cardinality(Using(e)') /\ MaxConcurrent \in Nat
      BY <1>1, <1>8, Numbers, Facts DEF Accounted
    <3> QED
      BY <1>6, <1>7, <3>1
  <2>2. handles'["stt"] \in Nat /\ handles'["tts"] \in Nat
    BY <1>1, <1>5, <1>6, <1>8, Numbers, Facts DEF Accounted
  <2>3. /\ slots' = [e \in Engines |-> slots'[e]] /\ handles' = [e \in Engines |-> handles'[e]]
    BY <1>2, Facts DEF Release
  <2> QED
    BY <2>1, <2>2, <2>3, Facts
<1>10. TypeOK'
  BY <1>1, <1>2, <1>3, <1>9 DEF TypeOK
<1> QED
  BY <1>3, <1>4, <1>8, <1>10, OthersStay DEF NativeInv, Serialized, StreamsFollowCalls

\* A native stream is made, replaces another, or is destroyed: each holds one
\* reference to the recognizer, and no call starts or ends with it.
LEMMA StreamAccounts ==
  ASSUME NativeInv, NEW n \in {-1, 0, 1},
         UNCHANGED <<slots, process>>,
         \A e \in Engines : Using(e)' = Using(e) /\ Holding(e)' = Holding(e),
         Cardinality(WithStream') + Cardinality(WithSpare')
           = Cardinality(WithStream) + Cardinality(WithSpare) + n,
         handles' \in [Engines -> Int],
         handles'["stt"] = handles["stt"] + n, handles'["tts"] = handles["tts"]
  PROVE  Accounted' /\ handles' \in [Engines -> Nat]
<1>1. TypeOK /\ Accounted /\ Engines = {"stt", "tts"}
  BY DEF NativeInv, Engines
<1>2. \A e \in Engines : slots'[e] = Cardinality(Using(e)')
  BY <1>1 DEF Accounted
<1>3. /\ handles'["tts"] = Cardinality(Holding("tts")') + (IF process' = "serving" THEN 1 ELSE 0)
      /\ handles'["stt"] = Cardinality(Holding("stt")') + (IF process' = "serving" THEN 1 ELSE 0)
                          + (Cardinality(WithStream') + Cardinality(WithSpare'))
  BY <1>1, Numbers DEF Accounted
<1>4. WithStream' \subseteq Calls /\ WithSpare' \subseteq Calls
  BY DEF WithStream, WithSpare
<1>5. Cardinality(WithStream') \in Nat /\ Cardinality(WithSpare') \in Nat
  BY <1>4, Counted
<1>6. Accounted'
  BY <1>1, <1>2, <1>3, <1>5, Numbers DEF Accounted
<1>7. handles'["stt"] \in Nat /\ handles'["tts"] \in Nat
  <2>1. Cardinality(Holding("stt")') \in Nat
    BY <1>1, Numbers
  <2> QED
    BY <1>1, <1>3, <1>5, <2>1, Numbers
<1> QED
  BY <1>1, <1>6, <1>7

LEMMA CreateKeeps ==
  ASSUME NativeInv, NEW c \in Calls, Create(c)
  PROVE  NativeInv'
<1>1. TypeOK /\ Accounted
  BY DEF NativeInv
<1>2. /\ at[c] = "inside" /\ op[c] = "create" /\ mutex' = [mutex EXCEPT ![Engine(c)] = Nobody]
      /\ stream' = [stream EXCEPT ![c] = "open"] /\ spare' = [spare EXCEPT ![c] = (stream[c] # "none")]
      /\ handles' = [e \in Engines |-> IF e \in {"stt"} THEN handles[e] + 1 ELSE handles[e]]
      /\ UNCHANGED <<steps, frames, closing, result, slots, process>>
  BY DEF Create, Inside, Unlock, Clone
<1>3. /\ at'[c] \in {"outside", "between"} /\ (at'[c] = "between" => op'[c] = "create" /\ stream[c] = "none")
      /\ at'[c] = "outside" => op'[c] = IF stream[c] # "none" THEN "replace" ELSE "accept"
      /\ at' \in [Calls -> Started \cup {"idle", "done"}] /\ op' \in [Calls -> Gated \cup Ungated]
      /\ \A d \in Calls \ {c} : CallStays(d)
      /\ GateOf(c)
  <2>1. c \in Batches => stream[c] = "none"
    BY <1>2, Facts, EngineAssumption DEF StreamFollowsCall, Gated
  <2>2. \E where \in {"outside", "between"}, what \in {"accept", "create", "replace"} :
          /\ Goto(c, where, what)
          /\ where = "between" => what = "create" /\ stream[c] = "none"
          /\ where = "outside" => what = IF stream[c] # "none" THEN "replace" ELSE "accept"
    BY <1>2, <2>1 DEF Create, Proceed
  <2>3. GateOf(c)
    BY <1>2, Facts DEF GateOf, SerializedCall
  <2>4. \A d \in Calls \ {c} : CallStays(d)
    BY <1>2, <2>2, Facts DEF CallStays, Goto
  <2> QED
    BY <2>2, <2>3, <2>4, Facts DEF Goto, Started, OnThread, Gated, Ungated
<1>4. SerializedCall(c)' /\ StreamFollowsCall(c)'
  <2>0. spare'[c] = (stream[c] # "none") /\ stream'[c] = "open"
    BY <1>2, Facts
  <2>1. /\ stream'[c] = "open" /\ (spare'[c] <=> stream[c] # "none") /\ ~result[c]
        /\ ~closing[c] /\ (stream[c] # "none" => c \in Streams) /\ c \notin Speeches
    BY <1>2, <2>0, Facts DEF SerializedCall, StreamFollowsCall, OnThread, Gated
  <2>2. mutex'[Engine(c)] = Nobody /\ mutex'[OtherEngine(c)] # c
    BY <1>2, Facts DEF SerializedCall
  <2>3. SerializedCall(c)'
    BY <1>2, <1>3, <2>1, <2>2, Facts DEF SerializedCall
  <2>4. StreamFollowsCall(c)'
    BY <1>2, <1>3, <2>1 DEF StreamFollowsCall, Started, OnThread, Gated, Ungated
  <2> QED
    BY <2>3, <2>4
<1>5. \A e \in Engines : Using(e)' = Using(e) /\ Holding(e)' = Holding(e)
  BY <1>2, <1>3 DEF Using, Holding, CallStays, Started, OnThread
<1>6. Cardinality(WithStream') + Cardinality(WithSpare')
        = Cardinality(WithStream) + Cardinality(WithSpare) + 1
  <2>1. WithStream \subseteq Calls /\ WithSpare \subseteq Calls
    BY DEF WithStream, WithSpare
  <2>2. ~spare[c]
    BY <1>2, Facts DEF StreamFollowsCall
  <2>3. CASE stream[c] = "none"
    <3>1. WithStream' = WithStream \cup {c} /\ c \notin WithStream /\ WithSpare' = WithSpare
      BY <1>2, <1>3, <2>2, <2>3, Facts DEF WithStream, WithSpare
    <3>2. Cardinality(WithStream') = Cardinality(WithStream) + 1
      BY <2>1, <3>1, Counted
    <3> QED
      BY <1>1, <3>1, <3>2, Numbers
  <2>4. CASE stream[c] # "none"
    <3>0. spare' = [spare EXCEPT ![c] = TRUE]
      BY <1>2, <2>4
    <3>1. WithSpare' = WithSpare \cup {c} /\ c \notin WithSpare /\ WithStream' = WithStream
      BY <1>2, <1>3, <2>2, <2>4, <3>0, Facts DEF WithStream, WithSpare
    <3>2. Cardinality(WithSpare') = Cardinality(WithSpare) + 1
      BY <2>1, <3>1, Counted
    <3> QED
      BY <1>1, <3>1, <3>2, Numbers
  <2> QED
    BY <2>3, <2>4
<1>7. Accounted' /\ handles' \in [Engines -> Nat]
  <2>1. /\ handles' \in [Engines -> Int]
        /\ handles'["stt"] = handles["stt"] + 1 /\ handles'["tts"] = handles["tts"]
    BY <1>2, Facts
  <2> QED
    BY <1>2, <1>5, <1>6, <2>1, StreamAccounts
<1>8. TypeOK'
  BY <1>1, <1>2, <1>3, <1>7, Facts DEF TypeOK
<1> QED
  BY <1>3, <1>4, <1>7, <1>8, OthersStay DEF NativeInv, Serialized, StreamsFollowCalls

\* The stream a session has replaced goes.
LEMMA ReplaceKeeps ==
  ASSUME NativeInv, NEW c \in Calls, Replace(c)
  PROVE  NativeInv'
<1>1. TypeOK /\ Accounted
  BY DEF NativeInv
<1>2. /\ at[c] = "outside" /\ op[c] = "replace" /\ spare' = [spare EXCEPT ![c] = FALSE]
      /\ handles' = [e \in Engines |-> IF e \in {"stt"} THEN handles[e] - 1 ELSE handles[e]]
      /\ UNCHANGED <<stream, steps, frames, closing, result, mutex, slots, process>>
  BY DEF Replace, Release
<1>3. /\ \/ at'[c] = "outside" /\ op'[c] = "accept"
         \/ at'[c] = "between" /\ op'[c] = "replace"
      /\ at' \in [Calls -> Started \cup {"idle", "done"}] /\ op' \in [Calls -> Gated \cup Ungated]
      /\ \A d \in Calls \ {c} : CallStays(d)
      /\ GateOf(c)
  BY <1>2, Facts DEF Replace, Continue, Proceed, Goto, Started, OnThread, Gated, Ungated, CallStays,
     GateOf
<1>4. SerializedCall(c)' /\ StreamFollowsCall(c)'
  BY <1>2, <1>3, Facts DEF SerializedCall, StreamFollowsCall, Started, OnThread, Gated, Ungated
<1>5. \A e \in Engines : Using(e)' = Using(e) /\ Holding(e)' = Holding(e)
  BY <1>2, <1>3 DEF Using, Holding, CallStays, Started, OnThread
<1>6. Cardinality(WithStream') + Cardinality(WithSpare')
        = Cardinality(WithStream) + Cardinality(WithSpare) + (-1)
  <2>1. WithSpare \subseteq Calls
    BY DEF WithSpare
  <2>2. WithSpare' = WithSpare \ {c} /\ c \in WithSpare /\ WithStream' = WithStream
    BY <1>2, <1>3, Facts DEF WithStream, WithSpare, StreamFollowsCall
  <2>3. Cardinality(WithSpare') = Cardinality(WithSpare) - 1
    BY <2>1, <2>2, Counted
  <2> QED
    BY <1>1, <2>2, <2>3, Numbers
<1>7. Accounted' /\ handles' \in [Engines -> Nat]
  <2>1. /\ handles' \in [Engines -> Int]
        /\ handles'["stt"] = handles["stt"] + (-1) /\ handles'["tts"] = handles["tts"]
    BY <1>2, Facts
  <2> QED
    BY <1>2, <1>5, <1>6, <2>1, StreamAccounts
<1>8. TypeOK'
  BY <1>1, <1>2, <1>3, <1>7, Facts DEF TypeOK
<1> QED
  BY <1>3, <1>4, <1>7, <1>8, OthersStay DEF NativeInv, Serialized, StreamsFollowCalls

\* The last drop but one of a call: its stream, before its references.
LEMMA DropStreamKeeps ==
  ASSUME NativeInv, NEW c \in Calls, DropStream(c)
  PROVE  NativeInv'
<1>1. TypeOK /\ Accounted
  BY DEF NativeInv
<1>2. /\ at[c] = "unwinding" /\ at'[c] = "unwound" /\ op'[c] = op[c]
      /\ stream' = [stream EXCEPT ![c] = "none"]
      /\ handles' = IF stream[c] # "none"
                      THEN [e \in Engines |-> IF e \in {"stt"} THEN handles[e] - 1 ELSE handles[e]]
                      ELSE handles
      /\ UNCHANGED <<spare, steps, frames, closing, result, mutex, slots, process>>
  BY Facts DEF DropStream, Release, Goto
<1>3. /\ at' \in [Calls -> Started \cup {"idle", "done"}] /\ op' \in [Calls -> Gated \cup Ungated]
      /\ \A d \in Calls \ {c} : CallStays(d)
      /\ GateOf(c)
  BY <1>2, Facts DEF DropStream, Goto, Started, CallStays, GateOf
<1>4. SerializedCall(c)' /\ StreamFollowsCall(c)'
  BY <1>2, <1>3, Facts DEF SerializedCall, StreamFollowsCall, Started, OnThread
<1>5. \A e \in Engines : Using(e)' = Using(e) /\ Holding(e)' = Holding(e)
  BY <1>2, <1>3 DEF Using, Holding, CallStays, Started, OnThread
<1>6. CASE stream[c] # "none"
  <2>1. WithStream \subseteq Calls
    BY DEF WithStream
  <2>2. WithStream' = WithStream \ {c} /\ c \in WithStream /\ WithSpare' = WithSpare
    BY <1>2, <1>3, <1>6, Facts DEF WithStream, WithSpare
  <2>3. Cardinality(WithStream') = Cardinality(WithStream) - 1
    BY <2>1, <2>2, Counted
  <2>4. Cardinality(WithStream') + Cardinality(WithSpare')
          = Cardinality(WithStream) + Cardinality(WithSpare) + (-1)
    BY <1>1, <2>2, <2>3, Numbers
  <2>5. /\ handles' \in [Engines -> Int]
        /\ handles'["stt"] = handles["stt"] + (-1) /\ handles'["tts"] = handles["tts"]
    BY <1>2, <1>6, Facts
  <2>6. Accounted' /\ handles' \in [Engines -> Nat]
    BY <1>2, <1>5, <2>4, <2>5, StreamAccounts
  <2>7. TypeOK'
    BY <1>1, <1>2, <1>3, <2>6, Facts DEF TypeOK
  <2> QED
    BY <1>3, <1>4, <2>6, <2>7, OthersStay DEF NativeInv, Serialized, StreamsFollowCalls
<1>7. CASE stream[c] = "none"
  <2>1. WithStream' = WithStream /\ WithSpare' = WithSpare /\ handles' = handles
    BY <1>2, <1>3, <1>7, Facts DEF WithStream, WithSpare
  <2>2. Accounted'
    BY <1>1, <1>2, <1>5, <2>1 DEF Accounted, Engines
  <2>3. TypeOK'
    BY <1>1, <1>2, <1>3, <2>1, Facts DEF TypeOK
  <2> QED
    BY <1>3, <1>4, <2>2, <2>3, OthersStay DEF NativeInv, Serialized, StreamsFollowCalls
<1> QED
  BY <1>6, <1>7

\* Main gives back its references to both engines; later the process goes.
LEMMA ProcessKeeps ==
  ASSUME NativeInv, MainReturns \/ RuntimeDropped \/ UNCHANGED vars
  PROVE  NativeInv'
<1>1. TypeOK /\ Accounted /\ Engines = {"stt", "tts"} /\ handles \in [Engines -> Nat]
  BY DEF NativeInv, TypeOK, Engines
<1>2. UNCHANGED <<callVars, mutex, slots>> /\ process' \in {"serving", "returned", "exited"}
  BY <1>1 DEF MainReturns, RuntimeDropped, vars, TypeOK
<1>3. /\ \A e \in Engines : Using(e)' = Using(e) /\ Holding(e)' = Holding(e)
      /\ WithStream' = WithStream /\ WithSpare' = WithSpare
      /\ Serialized' /\ StreamsFollowCalls'
  <2>1. /\ \A e \in Engines : Using(e)' = Using(e) /\ Holding(e)' = Holding(e)
        /\ WithStream' = WithStream /\ WithSpare' = WithSpare
    BY <1>2 DEF Using, Holding, WithStream, WithSpare, callVars
  <2>2. Serialized'
    BY <1>2 DEF NativeInv, Serialized, SerializedCall, callVars
  <2>3. StreamsFollowCalls'
    BY <1>2 DEF NativeInv, StreamsFollowCalls, StreamFollowsCall, callVars
  <2> QED
    BY <2>1, <2>2, <2>3
<1>4. Accounted' /\ handles' \in [Engines -> Nat]
  <2>1. CASE MainReturns
    <3>1. /\ process = "serving" /\ process' = "returned" /\ slots' = slots
          /\ handles' = [e \in Engines |-> IF e \in Engines THEN handles[e] - 1 ELSE handles[e]]
      BY <2>1 DEF MainReturns, Release
    <3>2. /\ handles'["stt"] = handles["stt"] - 1 /\ handles'["tts"] = handles["tts"] - 1
      BY <1>1, <3>1
    <3>3. /\ handles["stt"] - 1 \in Nat /\ handles["tts"] - 1 \in Nat
      BY <1>1, <3>1, Numbers DEF Accounted
    <3>4. handles' \in [Engines -> Nat]
      BY <1>1, <3>1, <3>2, <3>3
    <3>5. /\ handles'["tts"] = Cardinality(Holding("tts")') + (IF process' = "serving" THEN 1 ELSE 0)
          /\ handles'["stt"] = Cardinality(Holding("stt")') + (IF process' = "serving" THEN 1 ELSE 0)
                              + Cardinality(WithStream') + Cardinality(WithSpare')
      BY <1>1, <1>3, <3>1, <3>2, Numbers DEF Accounted
    <3> QED
      BY <1>1, <1>3, <3>1, <3>4, <3>5 DEF Accounted
  <2>2. CASE ~MainReturns
    <3>1. UNCHANGED <<slots, handles>> /\ (process' = "serving" <=> process = "serving")
      BY <2>2 DEF RuntimeDropped, vars
    <3> QED
      BY <1>1, <1>3, <3>1 DEF Accounted
  <2> QED
    BY <2>1, <2>2
<1>5. TypeOK'
  BY <1>1, <1>2, <1>4 DEF TypeOK, callVars
<1> QED
  BY <1>3, <1>4, <1>5 DEF NativeInv

-----------------------------------------------------------------------------
LEMMA NativeInvInit == Init => NativeInv
<1> SUFFICES ASSUME Init PROVE NativeInv
  OBVIOUS
<1>1. TypeOK
  <2>1. 0 \in 0..MaxDecodeSteps /\ 0 \in 0..MaxFrames /\ 0 \in 0..MaxConcurrent /\ 1 \in Nat
    BY EngineAssumption
  <2> QED
    BY <2>1 DEF Init, TypeOK, Gated
<1>2. /\ \A e \in Engines : Using(e) = {} /\ Holding(e) = {}
      /\ WithStream = {} /\ WithSpare = {} /\ Cardinality({}) = 0
  BY FS_EmptySet DEF Init, Using, Holding, WithStream, WithSpare, Started, OnThread
<1>3. Accounted
  <2>1. /\ \A e \in Engines : slots[e] = 0 /\ handles[e] = 1
        /\ "stt" \in Engines /\ "tts" \in Engines /\ process = "serving"
    BY DEF Init, Engines
  <2> QED
    <3>1. /\ Using("stt") = {} /\ Using("tts") = {} /\ Holding("stt") = {} /\ Holding("tts") = {}
          /\ slots["stt"] = 0 /\ slots["tts"] = 0 /\ handles["stt"] = 1 /\ handles["tts"] = 1
      BY <1>2, <2>1
    <3>2. \A e \in Engines : slots[e] = Cardinality(Using(e))
      BY <1>2, <2>1
    <3>3. /\ handles["tts"] = Cardinality(Holding("tts")) + 1
          /\ handles["stt"] = Cardinality(Holding("stt")) + 1
                             + Cardinality(WithStream) + Cardinality(WithSpare)
      BY <1>2, <3>1
    <3> QED
      BY <2>1, <3>2, <3>3 DEF Accounted
<1>4. Serialized
  <2> SUFFICES ASSUME NEW c \in Calls PROVE SerializedCall(c)
    BY DEF Serialized
  <2>1. Engine(c) \in Engines /\ OtherEngine(c) \in Engines /\ c # Nobody
    BY EngineAssumption DEF Engine, OtherEngine, Engines
  <2> QED
    BY <2>1 DEF Init, SerializedCall
<1>5. StreamsFollowCalls
  BY DEF Init, StreamsFollowCalls, StreamFollowsCall
<1> QED
  BY <1>1, <1>3, <1>4, <1>5 DEF NativeInv

(***************************************************************************)
(* Whoever is inside an engine owns its gate and nobody else does; an      *)
(* engine has exactly the references of main, of the calls under way and   *)
(* of their native streams, so it is destroyed after all of them.          *)
(***************************************************************************)
THEOREM NativeInvariant == Spec => []NativeInv
<1>1. Init => NativeInv
  BY NativeInvInit
<1>2. ASSUME NativeInv, [Next]_vars PROVE NativeInv'
  <2>1. ASSUME NEW c \in Calls, PlainStep(c) PROVE NativeInv'
    BY <1>2, <2>1, PlainKeepsOthers, PlainKeepsCall, PlainKeepsAccounts, OthersStay
       DEF NativeInv, Serialized, StreamsFollowCalls
  <2>2. ASSUME NEW c \in Calls, Begin(c) \/ Stopped(c) \/ ThreadStep(c) PROVE NativeInv'
    BY <1>2, <2>1, <2>2, BeginKeeps, ReturnKeeps, CreateKeeps, ReplaceKeeps, DropStreamKeeps
       DEF ThreadStep, PlainStep
  <2>3. ASSUME NEW c \in Streams, Push(c) \/ Commit(c) \/ DropSession(c) PROVE NativeInv'
    BY <2>1, <2>3 DEF PlainStep, Calls
  <2>4. CASE MainReturns \/ RuntimeDropped \/ UNCHANGED vars
    BY <1>2, <2>4, ProcessKeeps
  <2> QED
    BY <1>2, <2>2, <2>3, <2>4 DEF Next
<1> QED
  BY <1>1, <1>2, PTL DEF Spec
=============================================================================
