--------------------------- MODULE GrpcVoiceProofs ---------------------------
(***************************************************************************)
(* What the gRPC plane guarantees for any number of calls, any number of   *)
(* engine slots and any size of the output queue: its books balance and    *)
(* every response is concluded once, at its end.                           *)
(***************************************************************************)
EXTENDS GrpcVoice, FiniteSetTheorems, SequenceTheorems, TLAPS

Item == Items \cup Conclusions

(***************************************************************************)
(* Runs of items: taking the first, adding one, and the bursts that a task *)
(* puts into the queue.                                                    *)
(***************************************************************************)
LEMMA TakeFirst ==
  ASSUME NEW s \in Seq(Item), s # <<>>
  PROVE  /\ Head(s) \in Item /\ Tail(s) \in Seq(Item)
         /\ Len(s) \in Nat /\ Len(s) > 0 /\ Len(Tail(s)) = Len(s) - 1
         /\ ConcludesLast(s) =>
              ConcludesLast(Tail(s)) /\ (Head(s) \in Conclusions => Tail(s) = <<>>)
         /\ Unconcluded(s) => Unconcluded(Tail(s)) /\ Head(s) \notin Conclusions
         /\ Unconcluded(Tail(s)) /\ Head(s) \notin Conclusions => Unconcluded(s)
<1> DEFINE t == Tail(s)
<1>1. /\ Len(s) \in Nat /\ Len(s) > 0 /\ Head(s) \in Item /\ Head(s) = s[1]
  BY EmptySeq, LenProperties, HeadTailProperties
<1>2. /\ t \in Seq(Item) /\ Len(t) = Len(s) - 1 /\ \A i \in 1..Len(t) : t[i] = s[i + 1]
  BY HeadTailProperties
<1> HIDE DEF t
<1>3. \A i \in 1..Len(t) : i + 1 \in 1..Len(s) /\ (i + 1 = Len(s) => i = Len(t))
  BY <1>1, <1>2
<1>4. \A k \in 1..Len(s) : k = 1 \/ (k - 1 \in 1..Len(t) /\ (k - 1) + 1 = k)
  BY <1>1, <1>2
<1>5. 1 \in 1..Len(s) /\ (1 = Len(s) => Len(t) = 0)
  BY <1>1, <1>2
<1>6. Len(t) = 0 => t = <<>>
  BY <1>2, EmptySeq
<1>7. ConcludesLast(s) => ConcludesLast(t) /\ (Head(s) \in Conclusions => t = <<>>)
  BY <1>1, <1>2, <1>3, <1>5, <1>6 DEF ConcludesLast
<1>8. Unconcluded(s) => Unconcluded(t) /\ Head(s) \notin Conclusions
  BY <1>1, <1>2, <1>3, <1>5 DEF Unconcluded
<1>9. Unconcluded(t) /\ Head(s) \notin Conclusions => Unconcluded(s)
  BY <1>1, <1>2, <1>4 DEF Unconcluded
<1> QED
  BY <1>1, <1>2, <1>7, <1>8, <1>9 DEF t

LEMMA AddLast ==
  ASSUME NEW s \in Seq(Item), NEW x \in Item, Unconcluded(s)
  PROVE  /\ Append(s, x) \in Seq(Item) /\ Len(Append(s, x)) = Len(s) + 1 /\ Len(s) \in Nat
         /\ ConcludesLast(Append(s, x))
         /\ Unconcluded(Append(s, x)) <=> x \notin Conclusions
<1> DEFINE t == Append(s, x)
<1>1. /\ t \in Seq(Item) /\ Len(s) \in Nat /\ Len(t) = Len(s) + 1
      /\ \A i \in 1..Len(s) : t[i] = s[i]
      /\ t[Len(s) + 1] = x
  BY AppendProperties, LenProperties
<1> HIDE DEF t
<1>2. /\ \A i \in 1..Len(t) : i \in 1..Len(s) \/ i = Len(s) + 1
      /\ \A i \in 1..Len(s) : i \in 1..Len(t)
      /\ Len(s) + 1 \in 1..Len(t)
  BY <1>1
<1>3. ConcludesLast(t)
  BY <1>1, <1>2 DEF ConcludesLast, Unconcluded
<1>4. Unconcluded(t) <=> x \notin Conclusions
  BY <1>1, <1>2 DEF Unconcluded
<1> QED
  BY <1>1, <1>3, <1>4 DEF t

Updates == {<<>>, <<"interim">>, <<"final", "interim">>}
Endings == {<<"status">>, <<"commit_final">>, <<"last_chunk">>, <<"chunk", "last_chunk">>,
            <<"chunk", "chunk", "last_chunk">>}

\* Updates conclude nothing, endings conclude at their end.
LEMMA Bursts ==
  /\ \A s \in Updates : s \in Seq(Item) /\ Unconcluded(s) /\ ConcludesLast(s)
  /\ \A s \in Endings : s \in Seq(Item) /\ ~Unconcluded(s) /\ ConcludesLast(s)
<1>1. \A x \in Item : <<x>> \in Seq(Item) /\ Len(<<x>>) = 1 /\ <<x>>[1] = x
  OBVIOUS
<1>2. \A x, y \in Item : <<x, y>> \in Seq(Item) /\ Len(<<x, y>>) = 2
                          /\ <<x, y>>[1] = x /\ <<x, y>>[2] = y
  OBVIOUS
<1>3. \A x, y, z \in Item :
        /\ <<x, y, z>> \in Seq(Item) /\ Len(<<x, y, z>>) = 3
        /\ <<x, y, z>>[1] = x /\ <<x, y, z>>[2] = y /\ <<x, y, z>>[3] = z
  OBVIOUS
<1>4. /\ {"interim", "final", "chunk"} \subseteq Item \ Conclusions
      /\ {"status", "commit_final", "last_chunk"} \subseteq Item \cap Conclusions
  BY DEF Item, Items, Conclusions
<1>5. <<>> \in Seq(Item) /\ Unconcluded(<<>>) /\ ConcludesLast(<<>>)
  BY EmptySeq DEF Unconcluded, ConcludesLast
<1>6. \A x \in Item \ Conclusions : Unconcluded(<<x>>) /\ ConcludesLast(<<x>>)
  BY <1>1 DEF Unconcluded, ConcludesLast
<1>7. \A x \in Item \cap Conclusions : ~Unconcluded(<<x>>) /\ ConcludesLast(<<x>>)
  BY <1>1 DEF Unconcluded, ConcludesLast
<1>8. \A x, y \in Item \ Conclusions : Unconcluded(<<x, y>>) /\ ConcludesLast(<<x, y>>)
  BY <1>2 DEF Unconcluded, ConcludesLast
<1>9. \A x \in Item \ Conclusions, y \in Item \cap Conclusions :
        ~Unconcluded(<<x, y>>) /\ ConcludesLast(<<x, y>>)
  <2> SUFFICES ASSUME NEW x \in Item \ Conclusions, NEW y \in Item \cap Conclusions
               PROVE  ~Unconcluded(<<x, y>>) /\ ConcludesLast(<<x, y>>)
    OBVIOUS
  <2>1. 2 \in 1..Len(<<x, y>>) /\ \A i \in 1..Len(<<x, y>>) : i = 1 \/ i = 2
    BY <1>2
  <2> QED
    BY <1>2, <2>1 DEF Unconcluded, ConcludesLast
<1>10. \A x \in Item \ Conclusions, y \in Item \cap Conclusions :
         ~Unconcluded(<<x, x, y>>) /\ ConcludesLast(<<x, x, y>>)
  <2> SUFFICES ASSUME NEW x \in Item \ Conclusions, NEW y \in Item \cap Conclusions
               PROVE  ~Unconcluded(<<x, x, y>>) /\ ConcludesLast(<<x, x, y>>)
    OBVIOUS
  <2>1. 3 \in 1..Len(<<x, x, y>>) /\ \A i \in 1..Len(<<x, x, y>>) : i = 1 \/ i = 2 \/ i = 3
    BY <1>3
  <2> QED
    BY <1>3, <2>1 DEF Unconcluded, ConcludesLast
<1>11. \A x \in {"interim", "final", "chunk"} : x \in Item \ Conclusions
  BY <1>4
<1>12. \A x \in {"status", "commit_final", "last_chunk"} : x \in Item \cap Conclusions /\ x \in Item
  BY <1>4
<1> DEFINE Update(s) == s \in Seq(Item) /\ Unconcluded(s) /\ ConcludesLast(s)
           Ending(s) == s \in Seq(Item) /\ ~Unconcluded(s) /\ ConcludesLast(s)
<1>13. \A x \in Item \ Conclusions, y \in Item \ Conclusions :
         Update(<<x>>) /\ Update(<<x, y>>)
  BY <1>1, <1>2, <1>6, <1>8
<1>14. \A x \in Item \ Conclusions, y \in Item \cap Conclusions :
         Ending(<<y>>) /\ Ending(<<x, y>>) /\ Ending(<<x, x, y>>)
  BY <1>1, <1>2, <1>3, <1>7, <1>9, <1>10
<1>15. Update(<<>>)
  BY <1>5
<1> HIDE DEF Update, Ending
<1>16. Update(<<"interim">>) /\ Update(<<"final", "interim">>)
  BY <1>11, <1>13
<1>17. Ending(<<"status">>) /\ Ending(<<"commit_final">>) /\ Ending(<<"last_chunk">>)
  BY <1>11, <1>12, <1>14
<1>18. Ending(<<"chunk", "last_chunk">>) /\ Ending(<<"chunk", "chunk", "last_chunk">>)
  BY <1>11, <1>12, <1>14
<1>19. (\A s \in Updates : Update(s)) /\ (\A s \in Endings : Ending(s))
  BY <1>15, <1>16, <1>17, <1>18, Zenon DEF Updates, Endings
<1> QED
  BY <1>19 DEF Update, Ending

-----------------------------------------------------------------------------
(***************************************************************************)
(* The books of the engines.                                               *)
(***************************************************************************)
LEMMA Counted ==
  ASSUME NEW S, S \subseteq Rpcs
  PROVE  /\ Cardinality(S) \in Nat
         /\ \A r \in S : Cardinality(S \ {r}) = Cardinality(S) - 1
         /\ \A r \in Rpcs \ S : Cardinality(S \cup {r}) = Cardinality(S) + 1
<1>1. IsFiniteSet(S)
  BY FS_Subset, GrpcAssumption
<1> QED
  BY <1>1, FS_CardinalityType, FS_AddElement, FS_RemoveElement

\* Slots, a limit and three shares of them are numbers.
LEMMA Shares ==
  ASSUME TypeOK
  PROVE  /\ slots["stt"] \in 0..MaxConcurrent /\ slots["tts"] \in 0..MaxConcurrent
         /\ others["stt"] \in 0..MaxConcurrent /\ others["tts"] \in 0..MaxConcurrent
         /\ Cardinality(Opened) \in Nat /\ MaxConcurrent \in Nat
         /\ Cardinality(NativeOn("stt")) \in Nat /\ Cardinality(NativeOn("tts")) \in Nat
<1>1. Opened \subseteq Rpcs /\ NativeOn("stt") \subseteq Rpcs /\ NativeOn("tts") \subseteq Rpcs
  BY DEF Opened, NativeOn
<1>2. "stt" \in Engines /\ "tts" \in Engines
  BY DEF Engines
<1> QED
  BY <1>1, <1>2, Counted, GrpcAssumption DEF TypeOK

\* Neither slots nor those who hold them change.
LEMMA BooksStay ==
  ASSUME CallInv, UNCHANGED <<slots, others, open>>,
         \A q \in Rpcs : /\ worker'[q] = "native" <=> worker[q] = "native"
                         /\ worker[q] = "native" => kind'[q] = kind[q]
  PROVE  SlotsConserved'
<1>1. /\ Opened' = Opened /\ NativeOn("stt")' = NativeOn("stt")
      /\ NativeOn("tts")' = NativeOn("tts")
  BY DEF Opened, NativeOn
<1> QED
  BY <1>1 DEF CallInv, SlotsConserved

\* A call gives up its transcriber, if it has one.
LEMMA BooksOfClose ==
  ASSUME CallInv, NEW r \in Rpcs, open' = [open EXCEPT ![r] = FALSE], slots' = Freed(r),
         UNCHANGED <<others, worker, kind>>
  PROVE  /\ SlotsConserved' /\ slots' \in [Engines -> 0..MaxConcurrent]
         /\ open' \in [Rpcs -> BOOLEAN]
<1>1. TypeOK /\ SlotsConserved /\ open \in [Rpcs -> BOOLEAN]
      /\ slots \in [Engines -> 0..MaxConcurrent]
  BY DEF CallInv, TypeOK
<1>2. NativeOn("stt")' = NativeOn("stt") /\ NativeOn("tts")' = NativeOn("tts")
  BY DEF NativeOn
<1>3. CASE open[r]
  <2>1. Opened' = Opened \ {r} /\ r \in Opened /\ Opened \subseteq Rpcs
    BY <1>1, <1>3 DEF Opened
  <2>2. Cardinality(Opened') = Cardinality(Opened) - 1 /\ Cardinality(Opened') \in Nat
    <3>1. Opened' \subseteq Rpcs
      BY <2>1
    <3> QED
      BY <2>1, <3>1, Counted
  <2>3. slots'["stt"] = slots["stt"] - 1 /\ slots'["tts"] = slots["tts"]
    BY <1>1, <1>3 DEF Freed, Engines
  <2>4. SlotsConserved'
    BY <1>1, <1>2, <2>2, <2>3, Shares DEF SlotsConserved
  <2>5. slots["stt"] - 1 \in 0..MaxConcurrent
    BY <1>1, <2>2, Shares DEF SlotsConserved
  <2>6. slots' \in [Engines -> 0..MaxConcurrent]
    BY <1>1, <1>3, <2>5 DEF Freed, Engines
  <2> QED
    BY <1>1, <2>4, <2>6
<1>4. CASE ~open[r]
  <2>1. Opened' = Opened /\ slots' = slots
    BY <1>1, <1>4 DEF Opened, Freed
  <2> QED
    BY <1>1, <1>2, <2>1 DEF SlotsConserved
<1> QED
  BY <1>3, <1>4

\* A configured stream takes a slot of the recognizer.
LEMMA BooksOfOpen ==
  ASSUME CallInv, NEW r \in Rpcs, ~open[r], open' = [open EXCEPT ![r] = TRUE],
         slots["stt"] < MaxConcurrent, slots' = [slots EXCEPT !["stt"] = @ + 1],
         UNCHANGED <<others, worker, kind>>
  PROVE  /\ SlotsConserved' /\ slots' \in [Engines -> 0..MaxConcurrent]
         /\ open' \in [Rpcs -> BOOLEAN]
<1>1. TypeOK /\ SlotsConserved /\ open \in [Rpcs -> BOOLEAN]
      /\ slots \in [Engines -> 0..MaxConcurrent]
  BY DEF CallInv, TypeOK
<1>2. NativeOn("stt")' = NativeOn("stt") /\ NativeOn("tts")' = NativeOn("tts")
  BY DEF NativeOn
<1>3. Opened' = Opened \cup {r} /\ r \in Rpcs \ Opened /\ Opened \subseteq Rpcs
  BY <1>1 DEF Opened
<1>4. Cardinality(Opened') = Cardinality(Opened) + 1
  BY <1>3, Counted
<1>5. slots'["stt"] = slots["stt"] + 1 /\ slots'["tts"] = slots["tts"]
  BY <1>1 DEF Engines
<1>6. SlotsConserved'
  BY <1>1, <1>2, <1>4, <1>5, Shares DEF SlotsConserved
<1>7. slots["stt"] + 1 \in 0..MaxConcurrent
  BY <1>1, Shares
<1> QED
  BY <1>1, <1>6, <1>7 DEF Engines

\* An inference enters native code.
LEMMA BooksOfStart ==
  ASSUME CallInv, NEW r \in Rpcs, NEW e \in Engines, e = Engine(kind[r]),
         worker[r] # "native", worker' = [worker EXCEPT ![r] = "native"],
         slots[e] < MaxConcurrent, slots' = [slots EXCEPT ![e] = @ + 1],
         UNCHANGED <<others, open, kind>>
  PROVE  SlotsConserved' /\ slots' \in [Engines -> 0..MaxConcurrent]
<1>1. TypeOK /\ SlotsConserved /\ worker \in [Rpcs -> WorkerOver \cup {"none", "queued", "native"}]
      /\ slots \in [Engines -> 0..MaxConcurrent] /\ e \in {"stt", "tts"}
  BY DEF CallInv, TypeOK, Engines
<1>2. /\ NativeOn(e)' = NativeOn(e) \cup {r} /\ r \in Rpcs \ NativeOn(e) /\ NativeOn(e) \subseteq Rpcs
      /\ \A d \in Engines \ {e} : NativeOn(d)' = NativeOn(d)
      /\ Opened' = Opened
  BY <1>1 DEF NativeOn, Opened
<1>3. Cardinality(NativeOn(e)') = Cardinality(NativeOn(e)) + 1
  BY <1>2, Counted
<1>4. slots'[e] = slots[e] + 1 /\ \A d \in Engines \ {e} : slots'[d] = slots[d]
  BY <1>1
<1>5. SlotsConserved'
  <2>1. CASE e = "stt"
    <3>1. /\ slots'["stt"] = slots["stt"] + 1 /\ slots'["tts"] = slots["tts"]
          /\ Cardinality(NativeOn("stt")') = Cardinality(NativeOn("stt")) + 1
          /\ NativeOn("tts")' = NativeOn("tts")
      BY <1>2, <1>3, <1>4, <2>1 DEF Engines
    <3> QED
      BY <1>1, <1>2, <3>1, Shares DEF SlotsConserved
  <2>2. CASE e = "tts"
    <3>1. /\ slots'["tts"] = slots["tts"] + 1 /\ slots'["stt"] = slots["stt"]
          /\ Cardinality(NativeOn("tts")') = Cardinality(NativeOn("tts")) + 1
          /\ NativeOn("stt")' = NativeOn("stt")
      BY <1>2, <1>3, <1>4, <2>2 DEF Engines
    <3> QED
      BY <1>1, <1>2, <3>1, Shares DEF SlotsConserved
  <2> QED
    BY <1>1, <2>1, <2>2
<1>6. slots[e] + 1 \in 0..MaxConcurrent
  BY <1>1, Shares
<1> QED
  BY <1>1, <1>5, <1>6

\* It returns, whatever its outcome and whether its call still waits for it.
LEMMA BooksOfEnd ==
  ASSUME CallInv, NEW r \in Rpcs, NEW e \in Engines, e = Engine(kind[r]),
         worker[r] = "native", NEW over \in WorkerOver, worker' = [worker EXCEPT ![r] = over],
         slots' = [slots EXCEPT ![e] = @ - 1],
         UNCHANGED <<others, open, kind>>
  PROVE  SlotsConserved' /\ slots' \in [Engines -> 0..MaxConcurrent]
<1>1. TypeOK /\ SlotsConserved /\ worker \in [Rpcs -> WorkerOver \cup {"none", "queued", "native"}]
      /\ slots \in [Engines -> 0..MaxConcurrent] /\ e \in {"stt", "tts"} /\ over # "native"
  BY DEF CallInv, TypeOK, Engines, WorkerOver
<1>2. /\ NativeOn(e)' = NativeOn(e) \ {r} /\ r \in NativeOn(e) /\ NativeOn(e) \subseteq Rpcs
      /\ \A d \in Engines \ {e} : NativeOn(d)' = NativeOn(d)
      /\ Opened' = Opened /\ NativeOn(e)' \subseteq Rpcs
  BY <1>1 DEF NativeOn, Opened
<1>3. Cardinality(NativeOn(e)') = Cardinality(NativeOn(e)) - 1 /\ Cardinality(NativeOn(e)') \in Nat
  BY <1>2, Counted
<1>4. slots'[e] = slots[e] - 1 /\ \A d \in Engines \ {e} : slots'[d] = slots[d]
  BY <1>1
<1>5. SlotsConserved'
  <2>1. CASE e = "stt"
    <3>1. /\ slots'["stt"] = slots["stt"] - 1 /\ slots'["tts"] = slots["tts"]
          /\ Cardinality(NativeOn("stt")') = Cardinality(NativeOn("stt")) - 1
          /\ NativeOn("tts")' = NativeOn("tts")
      BY <1>2, <1>3, <1>4, <2>1 DEF Engines
    <3> QED
      BY <1>1, <1>2, <3>1, Shares DEF SlotsConserved
  <2>2. CASE e = "tts"
    <3>1. /\ slots'["tts"] = slots["tts"] - 1 /\ slots'["stt"] = slots["stt"]
          /\ Cardinality(NativeOn("tts")') = Cardinality(NativeOn("tts")) - 1
          /\ NativeOn("stt")' = NativeOn("stt")
      BY <1>2, <1>3, <1>4, <2>2 DEF Engines
    <3> QED
      BY <1>1, <1>2, <3>1, Shares DEF SlotsConserved
  <2> QED
    BY <1>1, <2>1, <2>2
<1>6. slots[e] - 1 \in 0..MaxConcurrent
  BY <1>1, <1>3, Shares DEF SlotsConserved
<1> QED
  BY <1>1, <1>5, <1>6

\* The rest of the server takes a slot or returns one.
LEMMA BooksOfOthers ==
  ASSUME CallInv, NEW e \in Engines, OthersAcquire(e) \/ OthersRelease(e)
  PROVE  /\ SlotsConserved' /\ slots' \in [Engines -> 0..MaxConcurrent]
         /\ others' \in [Engines -> 0..MaxConcurrent]
<1>1. TypeOK /\ SlotsConserved /\ slots \in [Engines -> 0..MaxConcurrent]
      /\ others \in [Engines -> 0..MaxConcurrent] /\ e \in {"stt", "tts"}
  BY DEF CallInv, TypeOK, Engines
<1>2. /\ Opened' = Opened /\ NativeOn("stt")' = NativeOn("stt")
      /\ NativeOn("tts")' = NativeOn("tts")
  BY DEF OthersAcquire, OthersRelease, streamVars, Opened, NativeOn
<1>3. PICK n \in {-1, 1} :
        /\ slots[e] + n <= MaxConcurrent /\ others[e] + n >= 0
        /\ slots'[e] = slots[e] + n /\ others'[e] = others[e] + n
  <2>1. CASE OthersAcquire(e)
    <3> 1 \in {-1, 1}
      OBVIOUS
    <3> QED
      BY <1>1, <2>1, Shares DEF OthersAcquire
  <2>2. CASE OthersRelease(e)
    <3>1. /\ slots'[e] = slots[e] - 1 /\ others'[e] = others[e] - 1 /\ others[e] > 0
      BY <1>1, <2>2 DEF OthersRelease
    <3>2. slots'[e] = slots[e] + (-1) /\ others'[e] = others[e] + (-1)
      BY <1>1, <3>1, Shares
    <3>3. slots[e] + (-1) <= MaxConcurrent /\ others[e] + (-1) >= 0
      BY <1>1, <3>1, Shares
    <3> QED
      BY <3>2, <3>3
  <2> QED
    BY <2>1, <2>2
<1>4. \A d \in Engines \ {e} : slots'[d] = slots[d] /\ others'[d] = others[d]
  BY <1>1 DEF OthersAcquire, OthersRelease
<1>5. SlotsConserved'
  BY <1>1, <1>2, <1>3, <1>4, Shares DEF SlotsConserved, Engines
<1>6. slots[e] + n \in 0..MaxConcurrent /\ others[e] + n \in 0..MaxConcurrent
  BY <1>1, <1>3, Shares DEF SlotsConserved
<1>7. /\ slots' = [slots EXCEPT ![e] = slots'[e]] /\ others' = [others EXCEPT ![e] = others'[e]]
  BY <1>1 DEF OthersAcquire, OthersRelease
<1> QED
  BY <1>1, <1>3, <1>5, <1>6, <1>7

-----------------------------------------------------------------------------
(***************************************************************************)
(* The order of the responses, under the ways a call can move.             *)
(***************************************************************************)
LEMMA Typed ==
  ASSUME TypeOK
  PROVE  /\ pc \in [Rpcs -> Live \cup {"idle", "done", "cancelled"}]
         /\ outgoing \in [Rpcs -> Seq(Item)] /\ queue \in [Rpcs -> Seq(Item)]
         /\ ending \in [Rpcs -> BOOLEAN] /\ token \in [Rpcs -> BOOLEAN]
         /\ got \in [Rpcs -> {"nothing", "items", "concluded", "disorder"}]
         /\ reader \in [Rpcs -> {"reading", "stalled", "gone"}]
         /\ worker \in [Rpcs -> WorkerOver \cup {"none", "queued", "native"}]
BY DEF TypeOK, Item

\* A conclusion in the queue is an item that the queue is not free of.
LEMMA InQueue == ASSUME NEW r \in Rpcs PROVE Concluding(r) <=> ~Unconcluded(queue[r])
BY DEF Concluding, Unconcluded

\* Calls that do not move keep their order.
LEMMA OrderStays ==
  ASSUME NEW q \in Rpcs, ResponseInOrder(q),
         pc'[q] = pc[q], queue'[q] = queue[q], outgoing'[q] = outgoing[q], got'[q] = got[q],
         worker'[q] = worker[q], ending'[q] = ending[q], reader'[q] = reader[q]
  PROVE  ResponseInOrder(q)'
BY DEF ResponseInOrder, Concluding, ConcludesLast, Unconcluded

\* A task starts to put items into the queue.
LEMMA OrderOfPut ==
  ASSUME CallInv, NEW r \in Rpcs, NEW items, NEW last \in BOOLEAN,
         IF last THEN items \in Endings ELSE items \in Updates,
         pc[r] \in {"loop", "waiting"}, Put(r, items, last),
         UNCHANGED <<queue, got, reader, worker, token>>
  PROVE  /\ \A q \in Rpcs : ResponseInOrder(q)'
         /\ NoLinkLeft'
         /\ pc' \in [Rpcs -> Live \cup {"idle", "done", "cancelled"}]
         /\ outgoing' \in [Rpcs -> Seq(Item)] /\ ending' \in [Rpcs -> BOOLEAN]
<1>1. TypeOK /\ NoLinkLeft /\ \A q \in Rpcs : ResponseInOrder(q)
  BY DEF CallInv
<1>2. items \in Seq(Item) /\ ConcludesLast(items) /\ (last <=> ~Unconcluded(items))
  BY Bursts
<1>3. /\ pc'[r] = "sending" /\ outgoing'[r] = items /\ ending'[r] = last
      /\ \A q \in Rpcs \ {r} : pc'[q] = pc[q] /\ outgoing'[q] = outgoing[q] /\ ending'[q] = ending[q]
      /\ pc' \in [Rpcs -> Live \cup {"idle", "done", "cancelled"}]
      /\ outgoing' \in [Rpcs -> Seq(Item)] /\ ending' \in [Rpcs -> BOOLEAN]
  BY <1>1, <1>2, Typed DEF Put, Live
<1>4. ResponseInOrder(r)'
  <2>1. /\ ConcludesLast(queue[r]) /\ Unconcluded(queue[r])
        /\ got[r] # "disorder" /\ got[r] # "concluded"
    BY <1>1 DEF ResponseInOrder
  <2>2. ~Concluding(r)
    BY <2>1, InQueue
  <2>3. /\ queue'[r] = queue[r] /\ got'[r] = got[r]
        /\ ConcludesLast(outgoing'[r]) /\ (last <=> ~Unconcluded(outgoing'[r]))
    BY <1>2, <1>3
  <2>4. ~Concluding(r)' /\ ConcludesLast(queue'[r]) /\ Unconcluded(queue'[r])
    BY <2>1, <2>2, <2>3 DEF Concluding
  <2> QED
    BY <1>3, <2>1, <2>3, <2>4 DEF ResponseInOrder
<1>5. \A q \in Rpcs \ {r} : ResponseInOrder(q)'
  BY <1>1, <1>3, OrderStays
<1>6. NoLinkLeft'
  BY <1>1, <1>3 DEF NoLinkLeft
<1> QED
  BY <1>3, <1>4, <1>5, <1>6

\* A task returns: what it had still to put is dropped with it.
LEMMA CallInvQuit ==
  ASSUME CallInv, NEW r \in Rpcs, NEW how \in {"done", "cancelled"}, Quit(r, how),
         pc[r] \in Live, UNCHANGED queue,
         \/ UNCHANGED got
         \/ got' = [got EXCEPT ![r] = "concluded"] /\ pc[r] = "waiting",
         how = "done" => reader[r] = "gone" \/ got'[r] = "concluded" \/ Concluding(r)
  PROVE  CallInv'
<1>1. TypeOK /\ NoLinkLeft /\ \A q \in Rpcs : ResponseInOrder(q)
  BY DEF CallInv
<1>2. /\ pc'[r] = how /\ outgoing'[r] = <<>> /\ token'[r]
      /\ got' \in [Rpcs -> {"nothing", "items", "concluded", "disorder"}]
      /\ \A q \in Rpcs \ {r} : /\ pc'[q] = pc[q] /\ outgoing'[q] = outgoing[q]
                               /\ token'[q] = token[q] /\ got'[q] = got[q]
      /\ UNCHANGED <<kind, ending, queue, worker, expired, shutdown, reader, others>>
  BY <1>1, Typed DEF Quit
<1>3. /\ SlotsConserved' /\ slots' \in [Engines -> 0..MaxConcurrent]
      /\ open' \in [Rpcs -> BOOLEAN]
  BY BooksOfClose DEF Quit
<1>4. TypeOK'
  <2>1. /\ pc' \in [Rpcs -> Live \cup {"idle", "done", "cancelled"}]
        /\ outgoing' \in [Rpcs -> Seq(Item)] /\ token' \in [Rpcs -> BOOLEAN]
    BY <1>1, Typed, EmptySeq DEF Quit
  <2> QED
    BY <1>1, <1>2, <1>3, <2>1 DEF TypeOK, Item
<1>5. NoLinkLeft'
  BY <1>1, <1>2 DEF NoLinkLeft
<1>6. ResponseInOrder(r)'
  <2>1. ConcludesLast(<<>>) /\ Unconcluded(<<>>)
    BY EmptySeq DEF ConcludesLast, Unconcluded
  <2>2. ConcludesLast(queue[r]) /\ got[r] # "disorder" /\ (got[r] = "concluded" => queue[r] = <<>>)
        /\ (pc[r] = "waiting" => queue[r] = <<>>)
    BY <1>1 DEF ResponseInOrder
  <2>3. got'[r] # "disorder" /\ (got'[r] = "concluded" => queue[r] = <<>>)
    BY <1>1, <2>2, Typed
  <2>4. Concluding(r)' <=> Concluding(r)
    BY <1>2 DEF Concluding
  <2>5. how # "sending" /\ how \notin {"idle", "waiting", "loop"}
    OBVIOUS
  <2> QED
    BY <1>2, <2>1, <2>2, <2>3, <2>4, <2>5 DEF ResponseInOrder
<1>7. \A q \in Rpcs \ {r} : ResponseInOrder(q)'
  BY <1>1, <1>2, OrderStays
<1> QED
  BY <1>3, <1>4, <1>5, <1>6, <1>7 DEF CallInv

-----------------------------------------------------------------------------
LEMMA CallInvInit == Init => CallInv
<1> SUFFICES ASSUME Init PROVE CallInv
  OBVIOUS
<1>1. TypeOK
  <2>1. 0 \in 0..MaxConcurrent
    BY GrpcAssumption
  <2>2. <<>> \in Seq(Items \cup Conclusions) /\ Len(<<>>) <= OutputQueue
    BY EmptySeq, GrpcAssumption
  <2>3. \A r \in Rpcs : Len(queue[r]) <= OutputQueue
    BY <2>2 DEF Init
  <2> QED
    BY <2>1, <2>2, <2>3 DEF Init, TypeOK
<1>2. SlotsConserved
  <2>1. Opened = {} /\ NativeOn("stt") = {} /\ NativeOn("tts") = {} /\ Cardinality({}) = 0
    BY FS_EmptySet DEF Init, Opened, NativeOn
  <2>2. slots["stt"] = 0 /\ slots["tts"] = 0 /\ others["stt"] = 0 /\ others["tts"] = 0
    BY DEF Init, Engines
  <2> QED
    BY <2>1, <2>2 DEF SlotsConserved
<1>3. NoLinkLeft
  BY DEF Init, NoLinkLeft
<1>4. ASSUME NEW r \in Rpcs PROVE ResponseInOrder(r)
  <2>1. ConcludesLast(<<>>) /\ Unconcluded(<<>>)
    BY EmptySeq DEF ConcludesLast, Unconcluded
  <2> QED
    BY <2>1, InQueue DEF Init, ResponseInOrder
<1> QED
  BY <1>1, <1>2, <1>3, <1>4 DEF CallInv

\* A new call: an idle one has no inference, and nothing of its response.
LEMMA CallInvCall ==
  ASSUME CallInv, NEW r \in Rpcs, Call(r)
  PROVE  CallInv'
<1>1. TypeOK /\ NoLinkLeft /\ (\A q \in Rpcs : ResponseInOrder(q)) /\ pc[r] = "idle"
  BY DEF CallInv, Call
<1>2. /\ UNCHANGED <<streamVars, expired, shutdown, reader, engineVars>>
      /\ \E k \in Kinds : kind' = [kind EXCEPT ![r] = k]
      /\ \/ pc' = [pc EXCEPT ![r] = "loop"] /\ UNCHANGED <<worker, token, got>>
         \/ /\ pc' = [pc EXCEPT ![r] = "waiting"]
            /\ worker' = [worker EXCEPT ![r] = "queued"] /\ UNCHANGED <<token, got>>
         \/ /\ pc' = [pc EXCEPT ![r] = "done"] /\ token' = [token EXCEPT ![r] = TRUE]
            /\ got' = [got EXCEPT ![r] = "concluded"] /\ UNCHANGED worker
  BY DEF Call
<1>3. worker[r] = "none"
  BY <1>1 DEF ResponseInOrder
<1>4. TypeOK'
  <2>1. kind' \in [Rpcs -> AllKinds \cup {"none"}]
    BY <1>1, <1>2, GrpcAssumption DEF TypeOK
  <2>2. /\ pc' \in [Rpcs -> Live \cup {"idle", "done", "cancelled"}]
        /\ token' \in [Rpcs -> BOOLEAN]
        /\ worker' \in [Rpcs -> WorkerOver \cup {"none", "queued", "native"}]
        /\ got' \in [Rpcs -> {"nothing", "items", "concluded", "disorder"}]
    BY <1>1, <1>2, Typed DEF Live
  <2> QED
    BY <1>1, <1>2, <2>1, <2>2 DEF TypeOK, streamVars, engineVars
<1>5. SlotsConserved'
  <2>1. \A q \in Rpcs : /\ worker'[q] = "native" <=> worker[q] = "native"
                        /\ worker[q] = "native" => kind'[q] = kind[q]
    BY <1>1, <1>2, <1>3 DEF TypeOK
  <2> QED
    BY <1>2, <2>1, BooksStay DEF streamVars, engineVars
<1>6. NoLinkLeft'
  BY <1>1, <1>2, Typed DEF NoLinkLeft
<1>7. ResponseInOrder(r)'
  <2>1. /\ queue'[r] = queue[r] /\ outgoing'[r] = outgoing[r] /\ ending'[r] = ending[r]
        /\ pc'[r] \in {"loop", "waiting", "done"}
        /\ IF pc'[r] = "done" THEN got'[r] = "concluded" ELSE got'[r] = got[r]
    BY <1>1, <1>2, Typed DEF streamVars
  <2>2. Concluding(r)' <=> Concluding(r)
    BY <2>1 DEF Concluding
  <2> QED
    BY <1>1, <2>1, <2>2 DEF ResponseInOrder
<1>8. ASSUME NEW q \in Rpcs \ {r} PROVE ResponseInOrder(q)'
  <2>1. pc'[q] = pc[q] /\ got'[q] = got[q] /\ worker'[q] = worker[q]
    BY <1>1, <1>2, Typed
  <2> QED
    BY <1>1, <1>2, <2>1, OrderStays DEF streamVars
<1> QED
  BY <1>4, <1>5, <1>6, <1>7, <1>8 DEF CallInv

\* What a stream does with its input, its stop, and what it then puts out.
LEMMA CallInvLoop ==
  ASSUME CallInv, NEW r \in Rpcs, LoopStep(r) \/ StopSeen(r)
  PROVE  CallInv'
<1>1. TypeOK /\ NoLinkLeft /\ (\A q \in Rpcs : ResponseInOrder(q)) /\ pc[r] = "loop"
  BY DEF CallInv, LoopStep, Config, Audio, Commit, CancelCall, InputEnds, StopSeen, FromClient,
         Receives
<1>2. CASE CancelCall(r)
  BY <1>1, <1>2, CallInvQuit DEF CancelCall, Live
<1>3. ASSUME NEW items, NEW last \in BOOLEAN,
             IF last THEN items \in Endings ELSE items \in Updates,
             Put(r, items, last), SlotsConserved', slots' \in [Engines -> 0..MaxConcurrent],
             open' \in [Rpcs -> BOOLEAN],
             UNCHANGED <<kind, queue, worker, stopVars, clientVars, others>>
      PROVE  CallInv'
  <2>1. /\ \A q \in Rpcs : ResponseInOrder(q)'
        /\ NoLinkLeft'
        /\ pc' \in [Rpcs -> Live \cup {"idle", "done", "cancelled"}]
        /\ outgoing' \in [Rpcs -> Seq(Item)] /\ ending' \in [Rpcs -> BOOLEAN]
    BY <1>1, <1>3, OrderOfPut DEF stopVars, clientVars
  <2>2. TypeOK'
    BY <1>1, <1>3, <2>1 DEF TypeOK, Item, stopVars, clientVars
  <2> QED
    BY <1>3, <2>1, <2>2 DEF CallInv
<1>4. ASSUME UNCHANGED <<open, slots, others, worker, kind>>
      PROVE  SlotsConserved' /\ slots' \in [Engines -> 0..MaxConcurrent] /\ open' \in [Rpcs -> BOOLEAN]
  BY <1>1, <1>4, BooksStay DEF TypeOK
<1>5. /\ <<"status">> \in Endings /\ <<"commit_final">> \in Endings
      /\ {<<>>, <<"interim">>, <<"final", "interim">>} = Updates
  BY DEF Endings, Updates
<1>6. CASE StopSeen(r) \/ InputEnds(r)
  BY <1>3, <1>4, <1>5, <1>6 DEF StopSeen, InputEnds, engineVars
<1>7. CASE Audio(r)
  <2>1. UNCHANGED <<kind, open, queue, worker, stopVars, clientVars, engineVars>>
    BY <1>7 DEF Audio
  <2>2. CASE Put(r, <<"status">>, TRUE)
    BY <1>3, <1>4, <1>5, <2>1, <2>2 DEF engineVars
  <2>3. CASE \E updates \in Updates : Put(r, updates, FALSE)
    BY <1>3, <1>4, <2>1, <2>3 DEF engineVars
  <2> QED
    BY <1>5, <1>7, <2>2, <2>3 DEF Audio
<1>8. CASE Commit(r)
  <2>1. /\ SlotsConserved' /\ slots' \in [Engines -> 0..MaxConcurrent]
        /\ open' \in [Rpcs -> BOOLEAN]
    BY <1>8, BooksOfClose DEF Commit
  <2>2. Put(r, <<"commit_final">>, TRUE) \/ Put(r, <<"status">>, TRUE)
    BY <1>8 DEF Commit
  <2> QED
    BY <1>3, <1>5, <1>8, <2>1, <2>2 DEF Commit
<1>9. CASE Config(r)
  <2>1. CASE Put(r, <<"status">>, TRUE) /\ UNCHANGED <<open, slots>>
    BY <1>3, <1>4, <1>5, <1>9, <2>1 DEF Config
  <2>2. CASE /\ slots["stt"] < MaxConcurrent /\ open' = [open EXCEPT ![r] = TRUE]
             /\ slots' = [slots EXCEPT !["stt"] = @ + 1] /\ UNCHANGED <<pc, outgoing, ending>>
    <3>1. UNCHANGED <<kind, queue, worker, stopVars, clientVars, others>>
      BY <1>9 DEF Config
    <3>2. /\ SlotsConserved' /\ slots' \in [Engines -> 0..MaxConcurrent]
          /\ open' \in [Rpcs -> BOOLEAN]
      BY <1>9, <2>2, <3>1, BooksOfOpen DEF Config
    <3>3. TypeOK'
      BY <1>1, <2>2, <3>1, <3>2 DEF TypeOK, stopVars, clientVars
    <3>4. NoLinkLeft' /\ \A q \in Rpcs : ResponseInOrder(q)'
      BY <1>1, <2>2, <3>1, OrderStays DEF NoLinkLeft, stopVars, clientVars
    <3> QED
      BY <3>2, <3>3, <3>4 DEF CallInv
  <2> QED
    BY <1>9, <2>1, <2>2 DEF Config
<1> QED
  BY <1>2, <1>6, <1>7, <1>8, <1>9 DEF LoopStep

\* An item goes into the queue; one that concludes is the last of the task.
LEMMA CallInvPutItem ==
  ASSUME CallInv, NEW r \in Rpcs, PutItem(r)
  PROVE  CallInv'
<1>1. TypeOK /\ NoLinkLeft /\ \A q \in Rpcs : ResponseInOrder(q)
  BY DEF CallInv
<1>2. /\ pc[r] = "sending" /\ outgoing[r] # <<>> /\ reader[r] # "gone"
      /\ Len(queue[r]) < OutputQueue
      /\ queue' = [queue EXCEPT ![r] = Append(@, Head(outgoing[r]))]
      /\ outgoing' = [outgoing EXCEPT ![r] = Tail(@)]
      /\ UNCHANGED <<kind, pc, open, ending, worker, stopVars, clientVars, engineVars>>
  BY DEF PutItem
<1> DEFINE s == outgoing[r]
           x == Head(s)
<1>3. s \in Seq(Item) /\ queue[r] \in Seq(Item)
  BY <1>1, Typed
<1>4. Unconcluded(queue[r]) /\ got[r] # "concluded" /\ got[r] # "disorder" /\ ConcludesLast(s)
      /\ (ending[r] => ~Unconcluded(s)) /\ (~ending[r] => Unconcluded(s))
  BY <1>1, <1>2, InQueue, Typed DEF ResponseInOrder
<1>5. /\ x \in Item /\ Tail(s) \in Seq(Item) /\ ConcludesLast(Tail(s))
      /\ x \in Conclusions => Tail(s) = <<>>
      /\ Unconcluded(s) => Unconcluded(Tail(s)) /\ x \notin Conclusions
      /\ Unconcluded(Tail(s)) /\ x \notin Conclusions => Unconcluded(s)
  BY <1>2, <1>3, <1>4, TakeFirst
<1> DEFINE t == Append(queue[r], x)
<1>6. /\ t \in Seq(Item) /\ Len(t) = Len(queue[r]) + 1 /\ Len(queue[r]) \in Nat
      /\ ConcludesLast(t) /\ (Unconcluded(t) <=> x \notin Conclusions)
  BY <1>3, <1>4, <1>5, AddLast
<1>7. /\ queue'[r] = t /\ outgoing'[r] = Tail(s)
      /\ \A q \in Rpcs \ {r} : queue'[q] = queue[q] /\ outgoing'[q] = outgoing[q]
      /\ queue' \in [Rpcs -> Seq(Item)] /\ outgoing' \in [Rpcs -> Seq(Item)]
  BY <1>1, <1>2, <1>5, <1>6, Typed
<1>8. TypeOK'
  <2>1. Len(t) <= OutputQueue
    BY <1>2, <1>6, GrpcAssumption
  <2>2. \A q \in Rpcs : Len(queue'[q]) <= OutputQueue
    BY <1>1, <1>7, <2>1 DEF TypeOK
  <2> QED
    BY <1>1, <1>2, <1>7, <2>2 DEF TypeOK, Item, stopVars, clientVars, engineVars
<1>9. SlotsConserved'
  BY <1>2, BooksStay DEF engineVars
<1>10. NoLinkLeft'
  BY <1>1, <1>2 DEF NoLinkLeft, stopVars
<1>11. ResponseInOrder(r)'
  <2>1. Concluding(r)' <=> ~Unconcluded(t)
    BY <1>7 DEF Concluding, Unconcluded
  <2>2. pc'[r] = "sending" /\ got'[r] = got[r] /\ ending'[r] = ending[r] /\ reader'[r] = reader[r]
    BY <1>2 DEF clientVars
  <2> HIDE DEF s, t, x
  <2>4. ConcludesLast(queue[r])' /\ ConcludesLast(outgoing[r])'
    BY <1>5, <1>6, <1>7
  <2>5. Concluding(r)' => outgoing'[r] = <<>>
    BY <1>5, <1>6, <1>7, <2>1
  <2>6. ~ending[r] => Unconcluded(queue'[r]) /\ Unconcluded(outgoing'[r])
    BY <1>4, <1>5, <1>6, <1>7
  <2>7. ending[r] => Concluding(r)' \/ ~Unconcluded(outgoing'[r])
    BY <1>4, <1>5, <1>6, <1>7, <2>1
  <2> QED
    BY <1>4, <2>2, <2>4, <2>5, <2>6, <2>7 DEF ResponseInOrder
<1>12. \A q \in Rpcs \ {r} : ResponseInOrder(q)'
  BY <1>1, <1>2, <1>7, OrderStays DEF clientVars
<1> QED
  BY <1>8, <1>9, <1>10, <1>11, <1>12 DEF CallInv

\* All items are in the queue, or nobody takes them any more.
LEMMA CallInvPutDone ==
  ASSUME CallInv, NEW r \in Rpcs, PutDone(r)
  PROVE  CallInv'
<1>1. /\ TypeOK /\ NoLinkLeft /\ (\A q \in Rpcs : ResponseInOrder(q)) /\ pc[r] = "sending"
      /\ UNCHANGED <<queue, got>> /\ (outgoing[r] = <<>> \/ reader[r] = "gone")
  BY DEF CallInv, PutDone
<1>2. Unconcluded(<<>>)
  BY EmptySeq DEF Unconcluded
<1>3. CASE Return(r) /\ (ending[r] \/ reader[r] = "gone")
  <2>1. reader[r] = "gone" \/ got[r] = "concluded" \/ Concluding(r)
    BY <1>1, <1>2, <1>3 DEF ResponseInOrder
  <2> QED
    BY <1>1, <1>3, <2>1, CallInvQuit DEF Return, Live
<1>4. CASE /\ ~(ending[r] \/ reader[r] = "gone") /\ pc' = [pc EXCEPT ![r] = "loop"]
           /\ UNCHANGED <<kind, open, outgoing, ending, worker, stopVars, reader, engineVars>>
  <2>1. TypeOK'
    <3>1. pc' \in [Rpcs -> Live \cup {"idle", "done", "cancelled"}]
      BY <1>1, <1>4, Typed DEF Live
    <3> QED
      BY <1>1, <1>4, <3>1 DEF TypeOK, stopVars, engineVars
  <2>2. SlotsConserved'
    BY <1>4, BooksStay DEF engineVars
  <2>3. NoLinkLeft'
    BY <1>1, <1>4, Typed DEF NoLinkLeft, stopVars
  <2>4. ResponseInOrder(r)'
    <3>1. pc'[r] = "loop" /\ (Concluding(r)' <=> Concluding(r)) /\ outgoing[r] = <<>>
      BY <1>1, <1>4, Typed DEF Concluding
    <3>2. got[r] # "concluded" /\ Unconcluded(queue[r])
      BY <1>1, <1>4 DEF ResponseInOrder
    <3> QED
      BY <1>1, <1>2, <1>4, <3>1, <3>2 DEF ResponseInOrder
  <2>5. \A q \in Rpcs \ {r} : ResponseInOrder(q)'
    BY <1>1, <1>4, OrderStays, Typed
  <2> QED
    BY <2>1, <2>2, <2>3, <2>4, <2>5 DEF CallInv
<1> QED
  BY <1>3, <1>4 DEF PutDone

\* The client reads the first item of the queue.
LEMMA CallInvRead ==
  ASSUME CallInv, NEW r \in Rpcs, Read(r)
  PROVE  CallInv'
<1>1. TypeOK /\ NoLinkLeft /\ \A q \in Rpcs : ResponseInOrder(q)
  BY DEF CallInv
<1>2. /\ queue[r] # <<>>
      /\ got' = [got EXCEPT ![r] = After(@, Head(queue[r]))]
      /\ queue' = [queue EXCEPT ![r] = Tail(@)]
      /\ UNCHANGED <<kind, pc, open, outgoing, ending, worker, stopVars, reader, engineVars>>
  BY DEF Read
<1> DEFINE s == queue[r]
           x == Head(s)
<1>3. s \in Seq(Item) /\ ConcludesLast(s) /\ got[r] # "concluded" /\ got[r] # "disorder"
  BY <1>1, <1>2, Typed DEF ResponseInOrder
<1>4. /\ Len(s) \in Nat /\ Len(Tail(s)) = Len(s) - 1
      /\ x \in Item /\ Tail(s) \in Seq(Item) /\ ConcludesLast(Tail(s))
      /\ x \in Conclusions => Tail(s) = <<>>
      /\ Unconcluded(s) => Unconcluded(Tail(s)) /\ x \notin Conclusions
      /\ Unconcluded(Tail(s)) /\ x \notin Conclusions => Unconcluded(s)
  BY <1>2, <1>3, TakeFirst
<1>5. /\ queue'[r] = Tail(s) /\ got'[r] = (IF x \in Conclusions THEN "concluded" ELSE "items")
      /\ \A q \in Rpcs \ {r} : queue'[q] = queue[q] /\ got'[q] = got[q]
      /\ queue' \in [Rpcs -> Seq(Item)]
      /\ got' \in [Rpcs -> {"nothing", "items", "concluded", "disorder"}]
  BY <1>1, <1>2, <1>3, <1>4, Typed DEF After
<1>6. TypeOK'
  <2>1. Len(Tail(s)) <= OutputQueue
    BY <1>1, <1>4, GrpcAssumption DEF TypeOK
  <2>2. \A q \in Rpcs : Len(queue'[q]) <= OutputQueue
    BY <1>1, <1>5, <2>1 DEF TypeOK
  <2> QED
    BY <1>1, <1>2, <1>5, <2>2 DEF TypeOK, Item, stopVars, engineVars
<1>7. SlotsConserved'
  BY <1>2, BooksStay DEF engineVars
<1>8. NoLinkLeft'
  BY <1>1, <1>2 DEF NoLinkLeft, stopVars
<1>9. ResponseInOrder(r)'
  <2>1. Concluding(r)' <=> ~Unconcluded(Tail(s))
    BY <1>5 DEF Concluding, Unconcluded
  <2>2. Concluding(r) <=> ~Unconcluded(s)
    BY InQueue
  <2>3. /\ pc'[r] = pc[r] /\ outgoing'[r] = outgoing[r] /\ ending'[r] = ending[r]
        /\ reader'[r] = reader[r] /\ worker'[r] = worker[r]
    BY <1>2
  <2>4. ResponseInOrder(r)
    BY <1>1
  <2>5. s # <<>>
    BY <1>2
  <2> HIDE DEF x
  <2>6. x \in Conclusions => Concluding(r) /\ outgoing[r] = <<>> /\ Tail(s) = <<>>
    BY <1>4, <2>2, <2>4 DEF ResponseInOrder
  <2>7. Concluding(r) => x \in Conclusions \/ Concluding(r)'
    BY <1>4, <2>1, <2>2
  <2>8. Concluding(r)' => Concluding(r)
    BY <1>4, <2>1, <2>2
  <2>9. Unconcluded(s) => got'[r] = "items" /\ Unconcluded(queue'[r])
    BY <1>4, <1>5
  <2>10. ConcludesLast(queue'[r])
    BY <1>4, <1>5
  <2> QED
    BY <1>5, <2>3, <2>4, <2>5, <2>6, <2>7, <2>8, <2>9, <2>10 DEF ResponseInOrder
<1>10. \A q \in Rpcs \ {r} : ResponseInOrder(q)'
  BY <1>1, <1>2, <1>5, OrderStays
<1> QED
  BY <1>6, <1>7, <1>8, <1>9, <1>10 DEF CallInv

\* The blocking inference starts, is refused, or returns.
LEMMA CallInvWorker ==
  ASSUME CallInv, NEW r \in Rpcs, WorkerStep(r)
  PROVE  CallInv'
<1>1. TypeOK /\ NoLinkLeft /\ (\A q \in Rpcs : ResponseInOrder(q))
  BY DEF CallInv
<1>2. UNCHANGED <<kind, pc, streamVars, stopVars, clientVars, others>> /\ worker[r] # "none"
  BY DEF WorkerStep, WorkerStart, WorkerEnds
<1>3. Engine(kind[r]) \in Engines
  BY DEF Engine, Engines
<1>4. /\ worker' \in [Rpcs -> WorkerOver \cup {"none", "queued", "native"}]
      /\ \A q \in Rpcs \ {r} : worker'[q] = worker[q]
  <2>1. \E w \in WorkerOver \cup {"native"} : worker' = [worker EXCEPT ![r] = w]
    BY DEF WorkerStep, WorkerStart, WorkerEnds, WorkerOver
  <2> QED
    BY <1>1, <2>1, Typed
<1>5. SlotsConserved' /\ slots' \in [Engines -> 0..MaxConcurrent]
  <2>1. CASE worker[r] = "queued" /\ worker' = [worker EXCEPT ![r] = "error"] /\ UNCHANGED slots
    <3>1. \A q \in Rpcs : worker'[q] = "native" <=> worker[q] = "native"
      BY <1>1, <2>1, Typed
    <3> QED
      BY <1>1, <1>2, <2>1, <3>1, BooksStay DEF TypeOK, streamVars
  <2>2. CASE WorkerStart(r) /\ worker' # [worker EXCEPT ![r] = "error"]
    BY <1>2, <1>3, <2>2, BooksOfStart DEF WorkerStart, streamVars
  <2>3. CASE WorkerEnds(r)
    <3>1. PICK over \in WorkerOver : worker' = [worker EXCEPT ![r] = over]
      BY <2>3 DEF WorkerEnds, WorkerOver
    <3> QED
      BY <1>2, <1>3, <2>3, <3>1, BooksOfEnd DEF WorkerEnds, streamVars
  <2>4. CASE WorkerStart(r) /\ worker' = [worker EXCEPT ![r] = "error"]
    <3>1. worker[r] = "queued" /\ "error" # "native"
      BY <2>4 DEF WorkerStart
    <3>2. worker' # [worker EXCEPT ![r] = "native"]
      BY <1>1, <2>4, <3>1, Typed
    <3> QED
      BY <2>1, <2>4, <3>1, <3>2 DEF WorkerStart
  <2> QED
    BY <2>2, <2>3, <2>4 DEF WorkerStep
<1>6. TypeOK'
  BY <1>1, <1>2, <1>4, <1>5 DEF TypeOK, streamVars, stopVars, clientVars
<1>7. NoLinkLeft'
  BY <1>1, <1>2 DEF NoLinkLeft, stopVars
<1>8. ResponseInOrder(r)'
  BY <1>1, <1>2 DEF ResponseInOrder, Concluding, streamVars, clientVars
<1>9. \A q \in Rpcs \ {r} : ResponseInOrder(q)'
  BY <1>1, <1>2, <1>4, OrderStays DEF streamVars, clientVars
<1> QED
  BY <1>5, <1>6, <1>7, <1>8, <1>9 DEF CallInv

\* The waiting call takes the outcome of its inference.
LEMMA CallInvAnswered ==
  ASSUME CallInv, NEW r \in Rpcs, Answered(r)
  PROVE  CallInv'
<1>1. TypeOK /\ pc[r] = "waiting" /\ UNCHANGED queue
  BY DEF CallInv, Answered
<1>2. CASE Return(r) /\ got' = [got EXCEPT ![r] = "concluded"]
  <2>1. got'[r] = "concluded"
    BY <1>1, <1>2, Typed
  <2> QED
    BY <1>1, <1>2, <2>1, CallInvQuit DEF Return, Live
<1>3. CASE /\ \E chunks \in Endings : Put(r, chunks, TRUE)
           /\ UNCHANGED <<kind, open, worker, stopVars, clientVars, engineVars>>
  <2>1. /\ \A q \in Rpcs : ResponseInOrder(q)'
        /\ NoLinkLeft'
        /\ pc' \in [Rpcs -> Live \cup {"idle", "done", "cancelled"}]
        /\ outgoing' \in [Rpcs -> Seq(Item)] /\ ending' \in [Rpcs -> BOOLEAN]
    BY <1>1, <1>3, OrderOfPut DEF stopVars, clientVars
  <2>2. TypeOK'
    BY <1>1, <1>3, <2>1 DEF TypeOK, Item, stopVars, clientVars, engineVars
  <2>3. SlotsConserved'
    BY <1>3, BooksStay DEF engineVars
  <2> QED
    BY <2>1, <2>2, <2>3 DEF CallInv
<1> QED
  BY <1>2, <1>3 DEF Answered, Endings

\* Stops, clocks and clients that stall or go away; and the rest of the server.
LEMMA CallInvOutside ==
  ASSUME CallInv,
         \/ \E r \in Rpcs : Link(r) \/ Expire(r) \/ Stall(r)
         \/ Shutdown
         \/ UNCHANGED vars
  PROVE  CallInv'
<1>1. TypeOK /\ NoLinkLeft /\ (\A q \in Rpcs : ResponseInOrder(q))
  BY DEF CallInv
<1>2. /\ UNCHANGED <<kind, pc, streamVars, worker, got, engineVars>>
      /\ token' \in [Rpcs -> BOOLEAN] /\ expired' \in [Rpcs -> BOOLEAN] /\ shutdown' \in BOOLEAN
      /\ \A q \in Rpcs : token[q] => token'[q]
      /\ reader' \in [Rpcs -> {"reading", "stalled", "gone"}]
      /\ \A q \in Rpcs : reader'[q] = "gone" <=> reader[q] = "gone"
  <2>1. CASE \E r \in Rpcs : Link(r)
    BY <1>1, <2>1 DEF TypeOK, Link, clientVars
  <2>2. CASE \E r \in Rpcs : Expire(r)
    BY <1>1, <2>2 DEF TypeOK, Expire, clientVars
  <2>3. CASE \E r \in Rpcs : Stall(r)
    BY <1>1, <2>3 DEF TypeOK, Stall, stopVars
  <2>4. CASE Shutdown \/ UNCHANGED vars
    BY <1>1, <2>4 DEF TypeOK, Shutdown, clientVars, stopVars, vars
  <2> QED
    BY <2>1, <2>2, <2>3, <2>4
<1>3. TypeOK'
  BY <1>1, <1>2 DEF TypeOK, streamVars, engineVars
<1>4. SlotsConserved'
  BY <1>2, BooksStay DEF streamVars, engineVars
<1>5. NoLinkLeft'
  BY <1>1, <1>2 DEF NoLinkLeft
<1>6. \A q \in Rpcs : ResponseInOrder(q)'
  BY <1>1, <1>2 DEF ResponseInOrder, Concluding, streamVars
<1> QED
  BY <1>3, <1>4, <1>5, <1>6 DEF CallInv

\* The response stream is dropped with its queue.
LEMMA CallInvDisconnect ==
  ASSUME CallInv, NEW r \in Rpcs, Disconnect(r)
  PROVE  CallInv'
<1>1. TypeOK /\ NoLinkLeft /\ (\A q \in Rpcs : ResponseInOrder(q))
  BY DEF CallInv
<1>2. /\ pc[r] \in Live /\ reader' = [reader EXCEPT ![r] = "gone"]
      /\ queue' = [queue EXCEPT ![r] = <<>>]
      /\ pc' = IF pc[r] = "waiting" THEN [pc EXCEPT ![r] = "done"] ELSE pc
      /\ token' = [token EXCEPT ![r] = @ \/ pc[r] = "waiting"]
      /\ UNCHANGED <<kind, open, outgoing, ending, worker, expired, shutdown, got, engineVars>>
  BY DEF Disconnect
<1>3. /\ <<>> \in Seq(Item) /\ Len(<<>>) <= OutputQueue
      /\ ConcludesLast(<<>>) /\ Unconcluded(<<>>)
  BY EmptySeq, GrpcAssumption DEF ConcludesLast, Unconcluded
<1>4. /\ reader'[r] = "gone" /\ queue'[r] = <<>>
      /\ \A q \in Rpcs \ {r} : queue'[q] = queue[q] /\ reader'[q] = reader[q] /\ pc'[q] = pc[q]
      /\ IF pc[r] = "waiting" THEN pc'[r] = "done" ELSE pc'[r] = pc[r]
      /\ \A q \in Rpcs : token[q] => token'[q]
      /\ pc[r] = "waiting" => token'[r]
  BY <1>1, <1>2, Typed
<1>5. TypeOK'
  <2>1. /\ queue' \in [Rpcs -> Seq(Item)]
        /\ reader' \in [Rpcs -> {"reading", "stalled", "gone"}]
        /\ token' \in [Rpcs -> BOOLEAN]
        /\ pc' \in [Rpcs -> Live \cup {"idle", "done", "cancelled"}]
    BY <1>1, <1>2, <1>3, Typed
  <2>2. \A q \in Rpcs : Len(queue'[q]) <= OutputQueue
    BY <1>1, <1>3, <1>4 DEF TypeOK
  <2> QED
    BY <1>1, <1>2, <2>1, <2>2 DEF TypeOK, Item, engineVars
<1>6. SlotsConserved'
  BY <1>2, BooksStay DEF engineVars
<1>7. NoLinkLeft'
  BY <1>1, <1>2, <1>4 DEF NoLinkLeft, Live
<1>8. ResponseInOrder(r)'
  <2>1. Concluding(r)' <=> FALSE
    BY <1>3, <1>4 DEF Concluding, Unconcluded
  <2> QED
    BY <1>1, <1>2, <1>3, <1>4, <2>1 DEF ResponseInOrder, Live
<1>9. \A q \in Rpcs \ {r} : ResponseInOrder(q)'
  BY <1>1, <1>2, <1>4, OrderStays
<1> QED
  BY <1>5, <1>6, <1>7, <1>8, <1>9 DEF CallInv

LEMMA CallInvOthers ==
  ASSUME CallInv, NEW e \in Engines, OthersAcquire(e) \/ OthersRelease(e)
  PROVE  CallInv'
<1>1. UNCHANGED <<kind, pc, streamVars, worker, stopVars, clientVars>>
  BY DEF OthersAcquire, OthersRelease
<1>2. TypeOK'
  BY <1>1, BooksOfOthers DEF CallInv, TypeOK, streamVars, stopVars, clientVars
<1>3. NoLinkLeft' /\ \A q \in Rpcs : ResponseInOrder(q)'
  BY <1>1, OrderStays DEF CallInv, NoLinkLeft, streamVars, stopVars, clientVars
<1> QED
  BY <1>2, <1>3, BooksOfOthers DEF CallInv

-----------------------------------------------------------------------------
(***************************************************************************)
(* Whatever ends a call - its answer, an error, a cancel, the deadline,    *)
(* the shutdown, a client that is gone - the slots of both engines are     *)
(* those in use, no linking task is left, and its response is in order.    *)
(***************************************************************************)
THEOREM CallInvariant == Spec => []CallInv
<1>1. Init => CallInv
  BY CallInvInit
<1>2. ASSUME CallInv, [Next]_vars PROVE CallInv'
  <2>1. ASSUME NEW r \in Rpcs,
               \/ Call(r) \/ LoopStep(r) \/ StopSeen(r)
               \/ PutStep(r) \/ Read(r)
               \/ WorkerStep(r) \/ Answered(r) \/ Disconnect(r)
        PROVE  CallInv'
    BY <1>2, <2>1, CallInvCall, CallInvLoop, CallInvPutItem, CallInvPutDone, CallInvRead,
       CallInvWorker, CallInvAnswered, CallInvDisconnect DEF PutStep
  <2>2. CASE \E e \in Engines : OthersAcquire(e) \/ OthersRelease(e)
    BY <1>2, <2>2, CallInvOthers
  <2>3. CASE \/ \E r \in Rpcs : Link(r) \/ Expire(r) \/ Stall(r)
             \/ Shutdown
             \/ UNCHANGED vars
    BY <1>2, <2>3, CallInvOutside
  <2> QED
    BY <1>2, <2>1, <2>2, <2>3 DEF Next
<1> QED
  BY <1>1, <1>2, PTL DEF Spec

(***************************************************************************)
(* Every response is a run of items with one conclusion at its end, and a  *)
(* call that is over has concluded, or its client has gone away.           *)
(***************************************************************************)
THEOREM ResponsesAreConcluded == Spec => []ResponsesConclude
<1>1. CallInv => ResponsesConclude
  <2> SUFFICES ASSUME CallInv, NEW r \in Rpcs
               PROVE  /\ got[r] # "disorder"
                      /\ pc[r] = "done" /\ reader[r] # "gone" =>
                           got[r] = "concluded" \/ Concluding(r)
    BY DEF ResponsesConclude
  <2>1. ResponseInOrder(r)
    BY DEF CallInv
  <2>2. Unconcluded(<<>>)
    BY EmptySeq DEF Unconcluded
  <2> QED
    BY <2>1, <2>2 DEF ResponseInOrder
<1> QED
  BY <1>1, CallInvariant, PTL
=============================================================================
