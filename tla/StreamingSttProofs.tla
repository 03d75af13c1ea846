------------------------- MODULE StreamingSttProofs -------------------------
(***************************************************************************)
(* One recognition session, for every way to cut the bytes into frames,    *)
(* every rate and every bound.  The decoder and the resampler are followed *)
(* position by position: a sample is two bytes whose positions follow from *)
(* its own, an output sample lies at the point the whole recording would   *)
(* have there, and Euclid's division says which inputs that point needs.   *)
(* So no induction over the audio is called for, only over the steps.      *)
(***************************************************************************)
EXTENDS StreamingStt, SequenceTheorems, TLAPS

\* Euclid's division, for a divisor that is not a literal.
LEMMA Division ==
  ASSUME NEW a \in Nat, NEW b \in Nat \ {0}
  PROVE  /\ a \div b \in Nat /\ a % b \in 0..(b - 1)
         /\ a = b * (a \div b) + (a % b)
OBVIOUS

LEMMA ProductNat ==
  ASSUME NEW a \in Nat, NEW b \in Nat
  PROVE  a * b \in Nat
OBVIOUS

LEMMA ProductMono ==
  ASSUME NEW a \in Nat, NEW b \in Nat, NEW c \in Nat, a <= b
  PROVE  a * c <= b * c
OBVIOUS

\* The quotient is the largest factor that fits.
LEMMA QuotientIsLargest ==
  ASSUME NEW a \in Nat, NEW b \in Nat \ {0}, NEW q \in Nat
  PROVE  q <= a \div b <=> q * b <= a
<1> DEFINE d == a \div b
<1>1. d \in Nat /\ a % b \in 0..(b - 1) /\ a = b * d + (a % b)
  BY Division
<1> HIDE DEF d
<1>2. CASE q <= d
  <2>1. q * b <= d * b
    BY <1>1, <1>2, ProductMono
  <2> QED BY <1>1, <1>2, <2>1 DEF d
<1>3. CASE ~(q <= d)
  <2>1. (d + 1) * b <= q * b
    BY <1>1, <1>3, ProductMono
  <2>2. (d + 1) * b = b * d + b
    BY <1>1
  <2>3. a < b * d + b
    BY <1>1
  <2>4. q * b \in Nat /\ b * d \in Nat
    BY <1>1, ProductNat
  <2>5. ~(q * b <= a)
    BY <2>1, <2>2, <2>3, <2>4
  <2> QED BY <1>3, <2>5 DEF d
<1> QED BY <1>2, <1>3

\* A function on 1..n is a sequence of length n.
LEMMA FunctionSeq ==
  ASSUME NEW S, NEW n \in Nat, NEW f \in [1..n -> S]
  PROVE  f \in Seq(S) /\ Len(f) = n
<1>1. f \in Seq(S)
  BY SeqDef
<1>2. Len(f) \in Nat /\ DOMAIN f = 1..Len(f)
  BY <1>1, LenProperties
<1>3. 1..Len(f) = 1..n
  BY <1>2
<1> QED
  BY <1>1, <1>2, <1>3

-----------------------------------------------------------------------------
(***************************************************************************)
(* Resampling: how many output samples the input determines, and which     *)
(* inputs one of them lies between.                                        *)
(***************************************************************************)
LEMMA AvailableBounds ==
  ASSUME NEW count \in Nat \ {0}, NEW r \in Nat \ {0}
  PROVE  /\ Available(count, r) \in Nat \ {0}
         /\ \A k \in Nat : k < Available(count, r) <=> k * r <= (count - 1) * TargetRate
<1> DEFINE a == (count - 1) * TargetRate
<1>1. a \in Nat
  BY AudioAssumption, ProductNat
<1> HIDE DEF a
<1>2. a \div r \in Nat
  BY <1>1, Division
<1>3. \A k \in Nat : k <= a \div r <=> k * r <= a
  BY <1>1, QuotientIsLargest
<1>4. Available(count, r) = (a \div r) + 1
  BY DEF Available, a
<1>5. \A k \in Nat : k < Available(count, r) <=> k <= a \div r
  BY <1>2, <1>4
<1> QED
  BY <1>2, <1>3, <1>4, <1>5 DEF a

\* More input never takes an output sample back.
LEMMA AvailableGrows ==
  ASSUME NEW c \in Nat \ {0}, NEW d \in Nat \ {0}, c <= d, NEW r \in Nat \ {0}
  PROVE  Available(c, r) <= Available(d, r)
<1> DEFINE k == Available(c, r) - 1
<1>0. Available(c, r) \in Nat \ {0} /\ Available(d, r) \in Nat \ {0}
  BY AvailableBounds
<1>1. k \in Nat /\ k < Available(c, r)
  BY <1>0
<1>2. k * r <= (c - 1) * TargetRate
  BY <1>1, AvailableBounds
<1>3. (c - 1) * TargetRate <= (d - 1) * TargetRate
  BY AudioAssumption, ProductMono
<1>4. k * r \in Nat /\ (c - 1) * TargetRate \in Nat /\ (d - 1) * TargetRate \in Nat
  BY <1>1, AudioAssumption, ProductNat
<1> HIDE DEF k
<1>5. k < Available(d, r)
  BY <1>1, <1>2, <1>3, <1>4, AvailableBounds
<1> QED
  BY <1>0, <1>1, <1>5 DEF k

\* At the engine's own rate there is one output sample for each input sample.
LEMMA SameRate ==
  ASSUME NEW k \in Nat
  PROVE  /\ Left(k, TargetRate) = k /\ Part(k, TargetRate) = 0
         /\ Available(k + 1, TargetRate) = k + 1
<1> DEFINE a == k * TargetRate
<1>1. TargetRate \in Nat \ {0} /\ a \in Nat
  BY AudioAssumption, ProductNat
<1>2. k <= a \div TargetRate
  BY <1>1, QuotientIsLargest
<1>3. ~(k + 1 <= a \div TargetRate)
  BY <1>1, QuotientIsLargest
<1> HIDE DEF a
<1>4. a \div TargetRate = k
  BY <1>1, <1>2, <1>3, Division
<1>5. a % TargetRate = 0
  BY <1>1, <1>4, Division DEF a
<1> QED
  BY <1>4, <1>5 DEF a, Left, Part, Available

(***************************************************************************)
(* An output sample that count input samples determine lies between two of *)
(* them, unless it falls on one: the input after it is not needed.         *)
(***************************************************************************)
LEMMA PointLiesWithin ==
  ASSUME NEW count \in Nat \ {0}, NEW r \in Nat \ {0}, NEW k \in Nat, k < Available(count, r)
  PROVE  /\ Left(k, r) \in 0..(count - 1)
         /\ Part(k, r) \in Nat
         /\ Part(k, r) # 0 => Left(k, r) + 1 <= count - 1
<1> DEFINE a == k * r
           l == a \div TargetRate
           c == count - 1
<1>1. a \in Nat /\ c \in Nat /\ c * TargetRate \in Nat /\ TargetRate \in Nat \ {0}
  BY AudioAssumption, ProductNat
<1>2. a <= c * TargetRate
  BY AvailableBounds
<1> HIDE DEF a, c
<1>3. l \in Nat /\ a % TargetRate \in Nat /\ a = TargetRate * l + (a % TargetRate)
  <2>1. a \div TargetRate \in Nat /\ a % TargetRate \in 0..(TargetRate - 1)
    BY <1>1, Division
  <2>2. a = TargetRate * (a \div TargetRate) + (a % TargetRate)
    BY <1>1, Division
  <2>3. a % TargetRate \in Nat
    BY <1>1, <2>1
  <2> QED
    BY <2>1, <2>2, <2>3
<1> HIDE DEF l
<1>4. ~(c + 1 <= l)
  <2>1. SUFFICES ASSUME c + 1 <= l  PROVE FALSE
    OBVIOUS
  <2>2. (c + 1) * TargetRate <= l * TargetRate
    BY <1>1, <1>3, <2>1, ProductMono
  <2>3. (c + 1) * TargetRate = c * TargetRate + TargetRate
    BY <1>1
  <2>4. l * TargetRate \in Nat /\ l * TargetRate = TargetRate * l
    BY <1>1, <1>3, ProductNat
  <2> QED
    BY <1>1, <1>2, <1>3, <2>2, <2>3, <2>4
<1>5. a % TargetRate # 0 => l # c
  BY <1>1, <1>2, <1>3
<1> QED
  BY <1>1, <1>3, <1>4, <1>5 DEF Left, Part, a, c, l

-----------------------------------------------------------------------------
(***************************************************************************)
(* Decoding: the carried byte and the new ones are the bytes that follow   *)
(* the samples there are, and pairing them goes on where these end.        *)
(***************************************************************************)
LEMMA BytesProperties ==
  ASSUME NEW first \in Nat, NEW n \in Nat
  PROVE  /\ Bytes(first, n) \in Seq(Nat)
         /\ Len(Bytes(first, n)) = n
         /\ \A i \in 1..n : Bytes(first, n)[i] = first + i - 1
BY DEF Bytes

\* Bytes of consecutive positions pair up to samples of consecutive positions.
LEMMA PairsProperties ==
  ASSUME NEW b \in Seq(Nat), NEW at \in Nat,
         \A j \in 1..Len(b) : b[j] = at + j - 1
  PROVE  /\ Pairs(b) \in Seq(Nat \X Nat)
         /\ Len(Pairs(b)) = Len(b) \div 2
         /\ \A i \in 1..(Len(b) \div 2) : Pairs(b)[i] = <<at + 2 * i - 2, at + 2 * i - 1>>
         /\ Odd(b) \in Seq(Nat)
         /\ Len(Odd(b)) = Len(b) % 2
         /\ Odd(b) # <<>> => Odd(b)[1] = at + Len(b) - 1
<1> DEFINE h == Len(b) \div 2
<1>1. Len(b) \in Nat /\ h \in Nat
  OBVIOUS
<1>2. \A i \in 1..h : 2 * i - 1 \in 1..Len(b) /\ 2 * i \in 1..Len(b)
  BY <1>1
<1>3. \A i \in 1..h : /\ b[2 * i - 1] = at + 2 * i - 2 /\ b[2 * i] = at + 2 * i - 1
                      /\ at + 2 * i - 2 \in Nat /\ at + 2 * i - 1 \in Nat
  BY <1>1, <1>2
<1>4. \A i \in 1..h : <<b[2 * i - 1], b[2 * i]>> \in Nat \X Nat
  BY <1>3
<1>5. /\ Pairs(b) \in Seq(Nat \X Nat) /\ Len(Pairs(b)) = h
      /\ \A i \in 1..h : Pairs(b)[i] = <<b[2 * i - 1], b[2 * i]>>
  BY <1>1, <1>4 DEF Pairs
<1>6. /\ Odd(b) \in Seq(Nat)
      /\ Len(Odd(b)) = Len(b) % 2
      /\ Odd(b) # <<>> => Odd(b)[1] = b[2 * h + 1] /\ 2 * h + 1 = Len(b)
  <2>1. 2 * h + 1 \in Int /\ Len(b) \in Int /\ \A i \in (2 * h + 1)..Len(b) : b[i] \in Nat
    BY <1>1
  <2>2. /\ Odd(b) \in Seq(Nat)
        /\ Len(Odd(b)) = IF 2 * h + 1 <= Len(b) THEN Len(b) - (2 * h + 1) + 1 ELSE 0
        /\ \A i \in 1..(Len(b) - (2 * h + 1) + 1) : Odd(b)[i] = b[(2 * h + 1) + i - 1]
    BY <2>1, SubSeqProperties DEF Odd
  <2>3. Odd(b) # <<>> => Len(Odd(b)) # 0
    BY <2>2, EmptySeq
  <2>4. CASE Len(b) % 2 = 0
    BY <1>1, <2>2, <2>3, <2>4
  <2>5. CASE Len(b) % 2 = 1
    BY <1>1, <2>2, <2>3, <2>5
  <2> QED
    BY <1>1, <2>4, <2>5
<1>7. \A i \in 1..h : Pairs(b)[i] = <<at + 2 * i - 2, at + 2 * i - 1>>
  BY <1>3, <1>5
<1>8. ASSUME Odd(b) # <<>>
      PROVE  Odd(b)[1] = at + Len(b) - 1
  <2>1. Odd(b)[1] = b[2 * h + 1] /\ 2 * h + 1 = Len(b)
    BY <1>6, <1>8
  <2>2. Len(b) \in 1..Len(b)
    BY <1>1, <2>1
  <2> QED
    BY <2>1, <2>2
<1> QED
  BY <1>5, <1>6, <1>7, <1>8

LEMMA Halves ==
  ASSUME NEW s \in Nat, NEW m \in Nat
  PROVE  (2 * s + m) \div 2 = s + (m \div 2) /\ (2 * s + m) % 2 = m % 2
OBVIOUS

LEMMA DecodeStep ==
  ASSUME TypeOK, DecodedSoFar, NEW n \in Nat, Decode(n), Admits(Total(n)), rate' = rate
  PROVE  /\ received' \in Nat /\ samples' \in Seq(Nat \X Nat)
         /\ carried' \in Seq(Nat) /\ Len(carried') <= 1
         /\ Len(samples) <= Len(samples')
         /\ samples' = samples \/ samples' # <<>>
         /\ DecodedSoFar'
<1> DEFINE new == Bytes(received, n)
           b == carried \o new
           p == Pairs(b)
           s == Len(samples)
           c == Len(carried)
<1>1. /\ received \in Nat /\ s \in Nat /\ c \in Nat
      /\ carried \in Seq(Nat) /\ samples \in Seq(Nat \X Nat)
  BY DEF TypeOK, DecodedSoFar
<1>2. c \in 0..1 /\ received = 2 * s + c
  <2>1. s = received \div 2 /\ c = received % 2
    BY DEF DecodedSoFar
  <2> QED
    BY <1>1, <2>1
<1>3. new \in Seq(Nat) /\ Len(new) = n /\ \A i \in 1..n : new[i] = received + i - 1
  BY <1>1, BytesProperties
<1>4. received' = received + n /\ samples' = samples \o p /\ carried' = Odd(b)
  BY DEF Decode
<1> HIDE DEF new
<1>5. /\ b \in Seq(Nat) /\ Len(b) = c + n
      /\ \A j \in 1..(c + n) : b[j] = IF j <= c THEN carried[j] ELSE new[j - c]
  BY <1>1, <1>3, ConcatProperties
<1> HIDE DEF b
<1>6. ASSUME NEW j \in 1..Len(b)
      PROVE  b[j] = 2 * s + j - 1
  <2> HIDE DEF s, c
  <2>1. CASE j <= c
    <3>1. c = 1 /\ j = 1
      BY <1>1, <1>2, <1>5, <2>1
    <3>2. carried # <<>>
      BY <3>1, EmptySeq DEF c
    <3>3. carried[1] = received - 1
      BY <3>2 DEF DecodedSoFar
    <3> QED
      BY <1>1, <1>2, <1>5, <3>1, <3>3
  <2>2. CASE ~(j <= c)
    <3>0. j \in 1..(c + n)
      BY <1>5
    <3>1. j - c \in 1..n /\ b[j] = new[j - c]
      BY <1>1, <1>5, <2>2, <3>0
    <3>2. b[j] = received + (j - c) - 1
      BY <1>3, <3>1
    <3> QED
      BY <1>1, <1>2, <3>1, <3>2
  <2> QED
    BY <2>1, <2>2
<1>7. 2 * s \in Nat /\ \A j \in 1..Len(b) : b[j] = (2 * s) + j - 1
  BY <1>1, <1>6
<1> DEFINE at == 2 * s
<1> HIDE DEF at
<1>8. /\ p \in Seq(Nat \X Nat) /\ Len(p) = Len(b) \div 2
      /\ \A i \in 1..(Len(b) \div 2) : p[i] = <<at + 2 * i - 2, at + 2 * i - 1>>
      /\ Odd(b) \in Seq(Nat) /\ Len(Odd(b)) = Len(b) % 2
      /\ Odd(b) # <<>> => Odd(b)[1] = at + Len(b) - 1
  <2>1. at \in Nat /\ \A j \in 1..Len(b) : b[j] = at + j - 1
    BY <1>7 DEF at
  <2> QED
    BY <1>5, <2>1, PairsProperties
<1> HIDE DEF p
<1>9. /\ samples' \in Seq(Nat \X Nat) /\ Len(samples') = s + Len(p)
      /\ \A i \in 1..(s + Len(p)) : samples'[i] = IF i <= s THEN samples[i] ELSE p[i - s]
  BY <1>1, <1>4, <1>8, ConcatProperties
<1>10. Len(b) \in Nat /\ Len(p) \in Nat /\ Len(samples') \in Nat
  BY <1>1, <1>2, <1>5, <1>8, <1>9
<1>11. Len(samples') = received' \div 2 /\ Len(carried') = received' % 2
  <2>1. Len(samples') = s + ((c + n) \div 2) /\ Len(carried') = (c + n) % 2
    BY <1>4, <1>5, <1>8, <1>9
  <2>2. received' = 2 * s + (c + n) /\ c + n \in Nat
    BY <1>1, <1>2, <1>4
  <2> QED
    BY <1>1, <2>1, <2>2, Halves
<1>12. ASSUME NEW i \in 1..Len(samples')
       PROVE  samples'[i] = <<2 * i - 2, 2 * i - 1>>
  <2>1. CASE i <= s
    <3>1. samples'[i] = samples[i] /\ i \in 1..Len(samples)
      BY <1>1, <1>9, <1>10, <2>1
    <3> QED
      BY <3>1 DEF DecodedSoFar
  <2>2. CASE ~(i <= s)
    <3>1. i - s \in 1..Len(p) /\ samples'[i] = p[i - s]
      BY <1>1, <1>9, <1>10, <2>2
    <3>2. samples'[i] = <<at + 2 * (i - s) - 2, at + 2 * (i - s) - 1>>
      BY <1>8, <3>1
    <3>3. at + 2 * (i - s) - 2 = 2 * i - 2 /\ at + 2 * (i - s) - 1 = 2 * i - 1
      BY <1>1, <1>10 DEF at
    <3> QED
      BY <3>2, <3>3
  <2> QED
    BY <2>1, <2>2
<1>13. carried' # <<>> => carried'[1] = received' - 1
  <2>1. carried' # <<>> => carried'[1] = at + Len(b) - 1
    BY <1>4, <1>8
  <2>2. at + Len(b) - 1 = received' - 1
    BY <1>1, <1>2, <1>4, <1>5 DEF at
  <2> QED
    BY <2>1, <2>2
<1>14. Admits(received)'
  <2>1. Total(n) = received + n
    BY <1>1, <1>2 DEF Total
  <2> QED
    BY <1>4, <2>1 DEF Admits
<1>15. samples' = samples \/ samples' # <<>>
  <2>1. Len(p) = 0 => samples' = samples
    BY <1>1, <1>4, <1>8, EmptySeq, ConcatEmptySeq
  <2>2. Len(p) # 0 => Len(samples') # 0
    BY <1>1, <1>9, <1>10
  <2>3. Len(p) # 0 => samples' # <<>>
    BY <2>2, EmptySeq
  <2> QED
    BY <2>1, <2>3
<1>16. DecodedSoFar'
  BY <1>11, <1>12, <1>13, <1>14 DEF DecodedSoFar
<1>17. received' \in Nat /\ carried' \in Seq(Nat) /\ Len(carried') <= 1
  BY <1>1, <1>4, <1>8, <1>10
<1>18. s <= Len(samples')
  BY <1>1, <1>9, <1>10
<1> QED
  BY <1>9, <1>15, <1>16, <1>17, <1>18

-----------------------------------------------------------------------------
(***************************************************************************)
(* Resampling goes on where it stopped, at the points the whole recording  *)
(* would have there.                                                       *)
(***************************************************************************)
OutputPoint == [left : Nat, right : Nat, part : Nat]
Detectors == [active : BOOLEAN, speech : Nat, silence : Nat, utterance : Nat]

LEMMA PointProperties ==
  ASSUME NEW count \in Nat \ {0}, NEW r \in Nat \ {0}, NEW k \in Nat, k < Available(count, r)
  PROVE  /\ Point(k, r, count - 1) \in OutputPoint
         /\ Point(k, r, count - 1).left = Left(k, r)
         /\ Point(k, r, count - 1).part = Part(k, r)
         /\ Part(k, r) # 0 => Point(k, r, count - 1).right = Left(k, r) + 1
<1>1. Left(k, r) \in Nat /\ Part(k, r) \in Nat
  BY PointLiesWithin
<1>2. Part(k, r) # 0 => Left(k, r) + 1 <= count - 1
  BY PointLiesWithin
<1> QED
  BY <1>1, <1>2 DEF Point, OutputPoint

LEMMA ResampleStep ==
  ASSUME TypeOK, ResampledSoFar, rate' = rate, samples' \in Seq(Nat \X Nat),
         Len(samples) <= Len(samples'), samples' # <<>>,
         resampled' = resampled \o NewOutput(Len(samples'))
  PROVE  /\ resampled' \in Seq(OutputPoint)
         /\ Len(resampled) <= Len(resampled')
         /\ ResampledSoFar'
<1> DEFINE m == Len(resampled)
           count == Len(samples')
           n == Available(count, rate)
           new == NewOutput(count)
<1>1. rate \in Nat \ {0}
  BY SttAssumption DEF TypeOK
<1>2. /\ m \in Nat /\ count \in Nat \ {0} /\ n \in Nat \ {0}
      /\ resampled \in Seq(OutputPoint) /\ Len(samples) \in Nat
  <2>1. count \in Nat \ {0}
    BY EmptySeq
  <2>2. n \in Nat \ {0}
    <3> HIDE DEF count
    <3> QED BY <1>1, <2>1, AvailableBounds
  <2> QED
    BY <2>1, <2>2 DEF TypeOK, OutputPoint
<1>3. m <= n
  <2>1. CASE samples = <<>>
    BY <1>2, <2>1 DEF ResampledSoFar
  <2>2. CASE samples # <<>>
    <3>1. Len(samples) \in Nat \ {0}
      BY <2>2, EmptySeq DEF TypeOK
    <3>2. Available(Len(samples), rate) <= n
      BY <1>1, <1>2, <3>1, AvailableGrows
    <3> QED
      BY <2>2, <3>2 DEF ResampledSoFar
  <2> QED
    BY <2>1, <2>2
<1> HIDE DEF m, n, count
<1>4. \A i \in 1..(n - m) : /\ m + i - 1 \in Nat /\ m + i - 1 < n
                            /\ Point(m + i - 1, rate, count - 1) \in OutputPoint
  <2> TAKE i \in 1..(n - m)
  <2>1. m + i - 1 \in Nat /\ m + i - 1 < n
    BY <1>2, <1>3
  <2> QED
    BY <1>1, <1>2, <2>1, PointProperties DEF n
<1>5. /\ new \in Seq(OutputPoint) /\ Len(new) = n - m
      /\ \A i \in 1..(n - m) : new[i] = Point(m + i - 1, rate, count - 1)
  <2>1. n - m \in Nat
    BY <1>2, <1>3
  <2>2. new = [i \in 1..(n - m) |-> Point(m + i - 1, rate, count - 1)]
    BY DEF NewOutput, n, m
  <2> HIDE DEF new
  <2>3. new \in [1..(n - m) -> OutputPoint]
    BY <1>4, <2>2
  <2>4. \A i \in 1..(n - m) : new[i] = Point(m + i - 1, rate, count - 1)
    BY <2>2
  <2> QED
    BY <2>1, <2>3, <2>4, FunctionSeq
<1>6. resampled' = resampled \o new
  BY DEF count
<1> HIDE DEF new
<1>7. /\ resampled' \in Seq(OutputPoint) /\ Len(resampled') = m + (n - m)
      /\ \A k \in 1..(m + (n - m)) :
           resampled'[k] = IF k <= m THEN resampled[k] ELSE new[k - m]
  BY <1>2, <1>5, <1>6, ConcatProperties DEF m
<1>8. Len(resampled') = n
  BY <1>2, <1>3, <1>7
<1>9. ASSUME NEW k \in 1..n
      PROVE  /\ resampled'[k].left = Left(k - 1, rate) /\ resampled'[k].part = Part(k - 1, rate)
             /\ resampled'[k].part # 0 => resampled'[k].right = resampled'[k].left + 1
  <2>1. CASE k <= m
    <3>1. k \in 1..Len(resampled) /\ resampled'[k] = resampled[k]
      BY <1>2, <1>3, <1>7, <2>1 DEF m
    <3> QED
      BY <3>1 DEF ResampledSoFar
  <2>2. CASE ~(k <= m)
    <3>1. k - m \in 1..(n - m) /\ m + (k - m) - 1 = k - 1 /\ k \in 1..(m + (n - m))
      BY <1>2, <1>3, <2>2
    <3>2. resampled'[k] = new[k - m]
      BY <1>7, <2>2, <3>1
    <3>3. resampled'[k] = Point(k - 1, rate, count - 1)
      BY <1>5, <3>1, <3>2
    <3>4. k - 1 \in Nat /\ k - 1 < Available(count, rate)
      BY <1>2 DEF n
    <3> QED
      BY <1>1, <1>2, <3>3, <3>4, PointProperties
  <2> QED
    BY <2>1, <2>2
<1>10. ResampledSoFar'
  BY <1>8, <1>9 DEF ResampledSoFar, n, count
<1> QED
  BY <1>2, <1>3, <1>7, <1>8, <1>10 DEF m

(***************************************************************************)
(* What the named invariants say of the whole recording.                   *)
(***************************************************************************)
LEMMA DecodesWhole ==
  ASSUME TypeOK, DecodedSoFar
  PROVE  DecodesInOrder
<1> DEFINE S == (Nat \X Nat) \cup {<<i>> : i \in Nat}
           s == Len(samples)
           c == Len(carried)
           t == [i \in 1..c |-> <<carried[1]>>]
           whole == [i \in 1..((received + 1) \div 2) |->
                       IF 2 * i <= received THEN <<2 * i - 2, 2 * i - 1>> ELSE <<2 * i - 2>>]
<1>1. /\ received \in Nat /\ s \in Nat /\ c \in Nat
      /\ carried \in Seq(Nat) /\ samples \in Seq(Nat \X Nat)
  BY DEF TypeOK
<1>2. c \in 0..1 /\ received = 2 * s + c /\ s + c = (received + 1) \div 2
  <2>1. s = received \div 2 /\ c = received % 2
    BY DEF DecodedSoFar
  <2> QED
    BY <1>1, <2>1
<1>3. c # 0 => carried[1] = received - 1 /\ c = 1
  <2>1. c # 0 => carried # <<>>
    BY EmptySeq
  <2> QED
    BY <1>2, <2>1 DEF DecodedSoFar
<1>4. samples \in Seq(S)
  <2>1. Nat \X Nat \subseteq S
    OBVIOUS
  <2> QED
    BY <1>1, <2>1, SeqMonotonic
<1>5. /\ t \in Seq(S) /\ Len(t) = c
      /\ \A i \in 1..c : t[i] = <<received - 1>>
  <2>1. \A i \in 1..c : <<carried[1]>> = <<received - 1>> /\ <<carried[1]>> \in S
    BY <1>1, <1>2, <1>3
  <2> HIDE DEF S, c
  <2>2. t \in [1..c -> S]
    BY <2>1
  <2>3. \A i \in 1..c : t[i] = <<received - 1>>
    BY <2>1
  <2> HIDE DEF t
  <2> QED
    BY <1>1, <2>2, <2>3, FunctionSeq
<1> HIDE DEF t, S
<1>6. /\ samples \o t \in Seq(S) /\ Len(samples \o t) = s + c
      /\ \A i \in 1..(s + c) : (samples \o t)[i] = IF i <= s THEN samples[i] ELSE t[i - s]
  <2>1. /\ samples \o t \in Seq(S) /\ Len(samples \o t) = Len(samples) + Len(t)
        /\ \A i \in 1..(Len(samples) + Len(t)) :
             (samples \o t)[i] = IF i <= Len(samples) THEN samples[i] ELSE t[i - Len(samples)]
    BY <1>4, <1>5, ConcatProperties
  <2> QED
    BY <1>5, <2>1
<1>7. ASSUME NEW i \in 1..(s + c)
      PROVE  (samples \o t)[i] = whole[i]
  <2>1. whole[i] = IF 2 * i <= received THEN <<2 * i - 2, 2 * i - 1>> ELSE <<2 * i - 2>>
    BY <1>2
  <2> HIDE DEF whole
  <2>2. CASE i <= s
    <3>0. received = 2 * s + c /\ c \in 0..1 /\ i \in 1..(s + c)
      BY <1>2
    <3>1. i \in 1..Len(samples) /\ 2 * i <= received
      BY <1>1, <2>2, <3>0
    <3> QED
      BY <1>6, <2>1, <2>2, <3>1 DEF DecodedSoFar
  <2>3. CASE ~(i <= s)
    <3>0. received = 2 * s + c /\ c \in 0..1 /\ i \in 1..(s + c)
      BY <1>2
    <3> HIDE DEF s, c
    <3>4. c = 1 /\ i = s + 1
      BY <1>1, <2>3, <3>0
    <3>1. c = 1 /\ i - s = 1 /\ 2 * i - 2 = received - 1 /\ ~(2 * i <= received)
      BY <1>1, <3>0, <3>4
    <3>2. (samples \o t)[i] = t[1] /\ 1 \in 1..c
      BY <1>6, <2>3, <3>1
    <3> QED
      BY <1>5, <2>1, <3>1, <3>2
  <2> QED
    BY <2>2, <2>3
<1>8. samples \o t = whole
  <2>1. samples \o t = [i \in 1..(s + c) |-> (samples \o t)[i]]
    BY <1>6, LenProperties
  <2> QED
    BY <1>2, <1>7, <2>1
<1> QED
  BY <1>8 DEF DecodesInOrder, DecodedSoFar, t

LEMMA ResampledWhole ==
  ASSUME TypeOK, ResampledSoFar
  PROVE  StreamEqualsOneShot
<1> DEFINE count == Len(samples)
           n == Available(count, rate)
           whole == Resample(count, rate)
<1>1. SUFFICES ASSUME samples # <<>>
               PROVE  /\ Len(resampled) = Len(whole)
                      /\ \A k \in 1..Len(whole) : SamePoint(resampled[k], whole[k])
  BY DEF StreamEqualsOneShot
<1>2. rate \in Nat \ {0} /\ count \in Nat \ {0}
  BY <1>1, EmptySeq, SttAssumption DEF TypeOK
<1>3. Len(resampled) = n
  BY <1>1 DEF ResampledSoFar
<1> HIDE DEF count
<1>4. n \in Nat \ {0}
  BY <1>2, AvailableBounds
<1>5. ASSUME NEW k \in 1..n
      PROVE  /\ resampled[k].left = Left(k - 1, rate) /\ resampled[k].part = Part(k - 1, rate)
             /\ resampled[k].part # 0 => resampled[k].right = resampled[k].left + 1
  BY <1>3 DEF ResampledSoFar
<1>6. CASE rate = TargetRate
  <2>1. whole = [k \in 1..count |-> [left |-> k - 1, right |-> k - 1, part |-> 0]]
    BY <1>6 DEF Resample
  <2> HIDE DEF whole
  <2>2. n = count
    BY <1>2, <1>6, SameRate
  <2>3. whole \in [1..count -> OutputPoint]
    BY <2>1 DEF OutputPoint
  <2>4. Len(whole) = n
    BY <1>2, <2>2, <2>3, FunctionSeq
  <2>5. ASSUME NEW k \in 1..n
        PROVE  SamePoint(resampled[k], whole[k])
    <3>1. whole[k].left = k - 1 /\ whole[k].part = 0
      BY <2>1, <2>2
    <3>2. k - 1 \in Nat
      BY <1>4
    <3>3. Left(k - 1, rate) = k - 1 /\ Part(k - 1, rate) = 0
      BY <1>6, <3>2, SameRate
    <3> QED
      BY <1>5, <3>1, <3>3 DEF SamePoint
  <2> QED
    BY <1>3, <2>4, <2>5
<1>7. CASE rate # TargetRate
  <2>1. whole = [k \in 1..n |-> Point(k - 1, rate, count - 1)]
    BY <1>7 DEF Resample
  <2> HIDE DEF whole
  <2>2. ASSUME NEW k \in 1..n
        PROVE  /\ whole[k] \in OutputPoint
               /\ whole[k].left = Left(k - 1, rate) /\ whole[k].part = Part(k - 1, rate)
               /\ whole[k].part # 0 => whole[k].right = whole[k].left + 1
    <3>1. k - 1 \in Nat /\ k - 1 < n
      BY <1>4
    <3>2. whole[k] = Point(k - 1, rate, count - 1)
      BY <2>1
    <3> QED
      BY <1>2, <3>1, <3>2, PointProperties
  <2>3. whole \in [1..n -> OutputPoint]
    BY <2>1, <2>2
  <2>4. Len(whole) = n
    BY <1>4, <2>3, FunctionSeq
  <2>5. ASSUME NEW k \in 1..n
        PROVE  SamePoint(resampled[k], whole[k])
    BY <1>5, <2>2 DEF SamePoint
  <2> QED
    BY <1>3, <2>4, <2>5
<1> QED
  BY <1>6, <1>7

LEMMA SttInvInit == Init => SttInv
<1> SUFFICES ASSUME Init PROVE SttInv
  OBVIOUS
<1>1. rate \in Nat \ {0}
  BY SttAssumption DEF Init
<1>2. TypeOK
  <2>1. Quiet \in Detectors
    BY DEF Quiet, Detectors
  <2>2. carried \in Seq(Nat) /\ Len(carried) <= 1 /\ samples \in Seq(Nat \X Nat)
    BY DEF Init
  <2>3. resampled \in Seq(OutputPoint)
    BY DEF Init
  <2>4. updates \in Seq(Pieces) /\ delivered \in Seq(Pieces) /\ lastFinal \in Pieces \cup {None}
    BY DEF Init
  <2>5. vad \in Detectors
    BY <2>1 DEF Init
  <2> QED
    BY <2>2, <2>3, <2>4, <2>5 DEF Init, TypeOK, Detectors, OutputPoint
<1>3. Finals = <<>>
  BY DEF Init, Finals
<1>4. Fed = 0
  BY DEF Init, Fed
<1>5. DecodedSoFar
  <2>1. rate * MaxDuration \in Nat
    BY <1>1, SttAssumption, ProductNat
  <2>2. Admits(0)
    BY <2>1, SttAssumption DEF Admits
  <2> QED
    BY <2>2 DEF Init, DecodedSoFar
<1>6. ResampledSoFar
  BY DEF Init, ResampledSoFar
<1>7. StreamFollowsFinals
  BY <1>3, <1>4 DEF Init, StreamFollowsFinals
<1>8. TranscriptCoversAudio
  BY <1>3 DEF Init, TranscriptCoversAudio, FinalsPartition, CommitCoversAll
<1>9. DetectorFollows
  BY <1>4, AudioAssumption DEF Init, DetectorFollows, VadFollowsStream, Quiet
<1> QED
  BY <1>2, <1>5, <1>6, <1>7, <1>8, <1>9 DEF SttInv

-----------------------------------------------------------------------------
(***************************************************************************)
(* The detector.  d is how much audio the open stream holds.               *)
(***************************************************************************)
Follows(v, d) ==
  /\ v.speech <= d
  /\ v.active => /\ v.utterance <= d
                 /\ v.silence < TrailingSilence
                 /\ v.utterance < MaxUtterance + FrameSamples
  /\ ~v.active => v.silence = 0 /\ v.speech < MinSpeech

LEMMA HeardProperties ==
  ASSUME NEW v \in Detectors, NEW voiced \in BOOLEAN, NEW len \in Nat
  PROVE  /\ Heard(v, voiced, len) \in Detectors
         /\ Heard(v, voiced, len).active = v.active
         /\ Heard(v, voiced, len).speech = IF voiced THEN v.speech + len ELSE 0
         /\ Heard(v, voiced, len).silence =
              IF voiced THEN 0 ELSE IF v.active THEN v.silence + len ELSE v.silence
         /\ Heard(v, voiced, len).utterance =
              IF v.active THEN v.utterance + len ELSE v.utterance
<1> DEFINE h == Heard(v, voiced, len)
           s == IF voiced THEN v.speech + len ELSE 0
           q == IF voiced THEN 0 ELSE IF v.active THEN v.silence + len ELSE v.silence
           u == IF v.active THEN v.utterance + len ELSE v.utterance
<1>1. v.active \in BOOLEAN /\ s \in Nat /\ q \in Nat /\ u \in Nat
  BY DEF Detectors
<1>2. h = [v EXCEPT !.speech = s, !.silence = q, !.utterance = u]
  BY DEF Heard
<1> HIDE DEF s, q, u, h
<1>3. h = [active |-> v.active, speech |-> s, silence |-> q, utterance |-> u]
  BY <1>2 DEF Detectors
<1> QED
  BY <1>1, <1>3 DEF Detectors, s, q, u, h

LEMMA ProcessProperties ==
  ASSUME NEW v \in Detectors, NEW voiced \in BOOLEAN, NEW len \in Nat
  PROVE  /\ Process(v, voiced, len) \in Detectors
         /\ Ends(v, voiced, len) => Process(v, voiced, len) = Quiet
         /\ \A d \in Nat : Follows(v, d) /\ len <= FrameSamples /\ ~Ends(v, voiced, len) =>
              Follows(Process(v, voiced, len), d + len)
<1> DEFINE h == Heard(v, voiced, len)
           p == Process(v, voiced, len)
           starts == ~v.active /\ h.speech >= MinSpeech
           started == [h EXCEPT !.active = TRUE, !.utterance = h.speech]
<1>1. h \in Detectors /\ h.active = v.active
  BY HeardProperties
<1>2. /\ h.speech = IF voiced THEN v.speech + len ELSE 0
      /\ h.silence = IF voiced THEN 0 ELSE IF v.active THEN v.silence + len ELSE v.silence
      /\ h.utterance = IF v.active THEN v.utterance + len ELSE v.utterance
  BY HeardProperties
<1>3. Ends(v, voiced, len) <=>
        v.active /\ (h.silence >= TrailingSilence \/ h.utterance >= MaxUtterance)
  BY DEF Ends
<1>4. p = IF Ends(v, voiced, len) THEN Quiet ELSE IF starts THEN started ELSE h
  BY DEF Process
<1> HIDE DEF h, p
<1>5. /\ started \in Detectors /\ started.active = TRUE /\ started.utterance = h.speech
      /\ started.speech = h.speech /\ started.silence = h.silence
  BY <1>1 DEF Detectors
<1> HIDE DEF started
<1>6. p \in Detectors
  <2>1. Quiet \in Detectors
    BY DEF Quiet, Detectors
  <2> QED
    BY <1>1, <1>4, <1>5, <2>1
<1>7. Ends(v, voiced, len) => p = Quiet
  BY <1>4
<1>8. ASSUME NEW d \in Nat, Follows(v, d), len <= FrameSamples, ~Ends(v, voiced, len)
      PROVE  Follows(p, d + len)
  <2>0. /\ v.speech \in Nat /\ v.silence \in Nat /\ v.utterance \in Nat /\ v.active \in BOOLEAN
        /\ FrameSamples \in Nat /\ MinSpeech \in Nat /\ TrailingSilence \in Nat \ {0}
        /\ MaxUtterance \in Nat /\ MinSpeech <= MaxUtterance
        /\ h.speech \in Nat /\ h.silence \in Nat /\ h.utterance \in Nat
    BY <1>1, AudioAssumption, SttAssumption DEF Detectors
  <2>1. CASE v.active
    <3>1. p = h /\ h.active
      BY <1>1, <1>4, <1>8, <2>1
    <3>2. h.silence < TrailingSilence /\ h.utterance < MaxUtterance
      BY <1>3, <1>8, <2>0, <2>1
    <3>3. h.utterance <= d + len /\ h.speech <= d + len
      BY <1>2, <1>8, <2>0, <2>1 DEF Follows
    <3> QED
      BY <2>0, <3>1, <3>2, <3>3 DEF Follows
  <2>2. CASE ~v.active
    <3>1. h.silence = 0 /\ h.speech <= d + len
      BY <1>2, <1>8, <2>0, <2>2 DEF Follows
    <3>2. h.speech < MaxUtterance + FrameSamples
      BY <1>2, <1>8, <2>0, <2>2, SttAssumption DEF Follows
    <3>3. CASE starts
      <4>1. p = started
        BY <1>4, <1>8, <3>3
      <4> QED
        BY <1>5, <2>0, <3>1, <3>2, <4>1 DEF Follows
    <3>4. CASE ~starts
      <4>1. p = h /\ h.speech < MinSpeech /\ ~h.active
        BY <1>1, <1>4, <1>8, <2>0, <2>2, <3>4
      <4> QED
        BY <3>1, <4>1 DEF Follows
    <3> QED
      BY <3>3, <3>4
  <2> QED
    BY <2>0, <2>1, <2>2
<1> QED
  BY <1>6, <1>7, <1>8 DEF p

-----------------------------------------------------------------------------
(***************************************************************************)
(* The finals: what one more does to the pieces there are.                 *)
(***************************************************************************)
LEMMA FinalsType ==
  ASSUME TypeOK
  PROVE  Finals \in Seq(Pieces) /\ Len(Finals) \in Nat
<1>1. Finals \in Seq(Pieces)
  BY ConcatProperties DEF TypeOK, Finals
<1> QED
  BY <1>1, LenProperties

LEMMA FinalsUnchanged ==
  ASSUME UNCHANGED <<delivered, updates>>
  PROVE  Finals' = Finals
BY DEF Finals

LEMMA AppendElements ==
  ASSUME NEW S, NEW s \in Seq(S), NEW e \in S
  PROVE  /\ Append(s, e) \in Seq(S) /\ Append(s, e) # <<>>
         /\ Len(s) \in Nat /\ Len(Append(s, e)) = Len(s) + 1
         /\ \A i \in 1..(Len(s) + 1) : Append(s, e)[i] = IF i <= Len(s) THEN s[i] ELSE e
         /\ Append(s, e)[Len(s) + 1] = e
<1>1. Len(s) \in Nat
  BY LenProperties
<1>2. /\ Append(s, e) \in Seq(S) /\ Len(Append(s, e)) = Len(s) + 1
      /\ \A i \in 1..(Len(s) + 1) : Append(s, e)[i] = IF i <= Len(s) THEN s[i] ELSE e
  BY AppendProperties
<1>3. Append(s, e) # <<>>
  BY <1>1, <1>2, EmptySeq
<1> QED
  BY <1>1, <1>2, <1>3

LEMMA ConcatAppend ==
  ASSUME NEW S, NEW s \in Seq(S), NEW t \in Seq(S), NEW e \in S
  PROVE  s \o Append(t, e) = Append(s \o t, e)
<1>1. <<e>> \in Seq(S) /\ s \o t \in Seq(S)
  BY ConcatProperties
<1>2. Append(t, e) = t \o <<e>> /\ Append(s \o t, e) = (s \o t) \o <<e>>
  BY <1>1, AppendIsConcat
<1> QED
  BY <1>1, <1>2, ConcatAssociative

\* A piece that begins where the last one ended goes on with the partition;
\* the last piece again ends it.
LEMMA PartitionGrows ==
  ASSUME SttInv, NEW e \in Pieces, Finals' = Append(Finals, e), pc # "done",
         \/ e.first = opened /\ e.first < e.next
         \/ Finals # <<>> /\ e = Finals[Len(Finals)] /\ pc' = "done"
  PROVE  FinalsPartition'
<1> DEFINE fs == Finals
           n == Len(fs)
           gs == Append(fs, e)
<1>1. fs \in Seq(Pieces) /\ n \in Nat /\ (fs # <<>> => n # 0)
  BY FinalsType, EmptySeq DEF SttInv
<1>2. /\ Len(gs) = n + 1 /\ gs[n + 1] = e
      /\ \A i \in 1..(n + 1) : gs[i] = IF i <= n THEN fs[i] ELSE e
  BY <1>1, AppendElements
<1>3. \A i \in 1..n : /\ fs[i].first < fs[i].next
                      /\ fs[i].first = IF i = 1 THEN 0 ELSE fs[i - 1].next
  BY DEF SttInv, TranscriptCoversAudio, FinalsPartition
<1>4. opened = IF fs = <<>> THEN 0 ELSE fs[n].next
  BY DEF SttInv, StreamFollowsFinals
<1>5. fs = <<>> <=> n = 0
  BY <1>1, EmptySeq
<1>6. SUFFICES ASSUME NEW i \in 1..(n + 1)
               PROVE  /\ gs[i].first < gs[i].next
                      /\ \/ gs[i].first = IF i = 1 THEN 0 ELSE gs[i - 1].next
                         \/ /\ i > 1 /\ i = n + 1 /\ pc' = "done"
                            /\ gs[i] = gs[i - 1]
  BY <1>2 DEF FinalsPartition
<1> HIDE DEF fs, n, gs
<1>7. CASE i <= n
  <2>1. i \in 1..n /\ gs[i] = fs[i] /\ (i # 1 => i - 1 \in 1..n /\ gs[i - 1] = fs[i - 1])
    BY <1>1, <1>2, <1>7
  <2> QED
    BY <1>3, <2>1
<1>8. CASE i = n + 1
  <2>1. gs[i] = e /\ (n # 0 => n \in 1..n /\ gs[n] = fs[n] /\ i - 1 = n /\ i > 1 /\ i # 1)
    BY <1>1, <1>2, <1>8
  <2>2. CASE e.first = opened /\ e.first < e.next
    <3>1. n = 0 => i = 1 /\ e.first = 0
      BY <1>4, <1>5, <1>8, <2>2
    <3>2. n # 0 => e.first = fs[n].next
      BY <1>4, <1>5, <2>2
    <3> QED
      BY <2>1, <2>2, <3>1, <3>2
  <2>3. CASE fs # <<>> /\ e = fs[n] /\ pc' = "done"
    <3>1. n # 0
      BY <1>1, <2>3
    <3>2. e.first < e.next
      BY <1>3, <2>1, <2>3, <3>1
    <3>3. gs[i] = gs[i - 1] /\ i > 1
      BY <2>1, <2>3, <3>1
    <3> QED
      BY <1>8, <2>1, <2>3, <3>2, <3>3
  <2> QED
    BY <2>2, <2>3 DEF fs, n
<1> QED
  BY <1>1, <1>7, <1>8

\* Nothing said, nothing changes: FinalsPartition outside a commit.
LEMMA PartitionStays ==
  ASSUME FinalsPartition, Finals' = Finals, pc # "done"
  PROVE  FinalsPartition'
BY DEF FinalsPartition

-----------------------------------------------------------------------------
(***************************************************************************)
(* The steps.                                                              *)
(***************************************************************************)
LEMMA PushStep ==
  ASSUME SttInv, NEW n \in 0..(MaxChunk + 1), Push(n)
  PROVE  SttInv'
<1>1. n \in Nat /\ rate' = rate /\ Decode(n) /\ Admits(Total(n)) /\ pc = "idle"
  BY SttAssumption DEF Push
<1>2. /\ received' \in Nat /\ samples' \in Seq(Nat \X Nat)
      /\ carried' \in Seq(Nat) /\ Len(carried') <= 1
      /\ Len(samples) <= Len(samples')
      /\ samples' = samples \/ samples' # <<>>
      /\ DecodedSoFar'
  BY <1>1, DecodeStep DEF SttInv
<1>3. /\ UNCHANGED <<rate, live, vad, opened, hasAudio>>
      /\ UNCHANGED <<lastFinal, updates, delivered>>
      /\ pc' \in {"idle", "frames"}
  BY DEF Push, finalVars
<1>4. Finals' = Finals
  BY <1>3, FinalsUnchanged
<1>5. /\ resampled' \in Seq(OutputPoint) /\ ResampledSoFar'
      /\ residual' \in Nat /\ Fed' = Fed /\ residual' <= Len(resampled')
  <2>0. /\ resampled \in Seq(OutputPoint) /\ residual \in Nat /\ Len(resampled) \in Nat
        /\ residual <= Len(resampled)
    BY DEF SttInv, TypeOK, OutputPoint, StreamFollowsFinals
  <2>1. CASE samples' = samples
    <3>1. UNCHANGED <<resampled, residual>>
      BY <2>1 DEF Push
    <3> QED
      BY <1>3, <2>0, <2>1, <3>1 DEF SttInv, ResampledSoFar, Fed
  <2>2. CASE samples' # samples
    <3>1. /\ resampled' = resampled \o NewOutput(Len(samples'))
          /\ residual' = residual + Len(resampled') - Len(resampled)
      BY <2>2 DEF Push
    <3>2. /\ resampled' \in Seq(OutputPoint) /\ ResampledSoFar'
          /\ Len(resampled) <= Len(resampled')
      BY <1>1, <1>2, <2>2, <3>1, ResampleStep DEF SttInv
    <3>3. Len(resampled') \in Nat
      BY <3>2, LenProperties
    <3> QED
      BY <2>0, <3>1, <3>2, <3>3 DEF Fed
  <2> QED
    BY <2>1, <2>2
<1>6. TypeOK'
  BY <1>2, <1>3, <1>5 DEF SttInv, TypeOK, OutputPoint
<1>7. StreamFollowsFinals'
  BY <1>1, <1>3, <1>4, <1>5 DEF SttInv, StreamFollowsFinals
<1>8. TranscriptCoversAudio'
  <2>1. FinalsPartition'
    BY <1>1, <1>4, PartitionStays DEF SttInv, TranscriptCoversAudio
  <2> QED
    BY <1>3, <2>1 DEF TranscriptCoversAudio, CommitCoversAll
<1>9. DetectorFollows'
  BY <1>1, <1>3, <1>5 DEF SttInv, DetectorFollows, VadFollowsStream
<1> QED
  BY <1>2, <1>5, <1>6, <1>7, <1>8, <1>9 DEF SttInv

\* A step that leaves the audio and its samples alone.
LEMMA AudioStays ==
  ASSUME SttInv, UNCHANGED <<rate, audioVars>>
  PROVE  /\ DecodedSoFar' /\ ResampledSoFar'
         /\ received' \in Nat /\ carried' \in Seq(Nat) /\ Len(carried') <= 1
         /\ samples' \in Seq(Nat \X Nat) /\ resampled' \in Seq(OutputPoint)
<1>1. UNCHANGED <<rate, received, carried, samples, resampled>>
  BY DEF audioVars
<1>2. Admits(received)' = Admits(received)
  BY <1>1 DEF Admits
<1> QED
  BY <1>1, <1>2 DEF SttInv, DecodedSoFar, ResampledSoFar, TypeOK, OutputPoint

LEMMA FailStep ==
  ASSUME SttInv, Fail, pc # "done"
  PROVE  SttInv'
<1>1. /\ UNCHANGED <<rate, live, residual, vad, opened, hasAudio>>
      /\ UNCHANGED <<lastFinal, updates, delivered>>
      /\ UNCHANGED audioVars /\ UNCHANGED resampled
      /\ pc' = "failed"
  BY DEF Fail, finalVars, audioVars
<1>2. /\ DecodedSoFar' /\ ResampledSoFar'
      /\ received' \in Nat /\ carried' \in Seq(Nat) /\ Len(carried') <= 1
      /\ samples' \in Seq(Nat \X Nat) /\ resampled' \in Seq(OutputPoint)
  BY <1>1, AudioStays
<1>3. Finals' = Finals /\ Fed' = Fed
  BY <1>1, FinalsUnchanged DEF Fed
<1>4. TypeOK'
  BY <1>1, <1>2 DEF SttInv, TypeOK, OutputPoint
<1>5. StreamFollowsFinals'
  BY <1>1, <1>3 DEF SttInv, StreamFollowsFinals
<1>6. TranscriptCoversAudio'
  <2>1. FinalsPartition'
    BY <1>3, PartitionStays DEF SttInv, TranscriptCoversAudio
  <2> QED
    BY <1>1, <2>1 DEF TranscriptCoversAudio, CommitCoversAll
<1>7. DetectorFollows'
  BY <1>1 DEF DetectorFollows, VadFollowsStream
<1> QED
  BY <1>2, <1>4, <1>5, <1>6, <1>7 DEF SttInv

LEMMA StopStep ==
  ASSUME SttInv, Stop
  PROVE  SttInv'
<1>1. /\ UNCHANGED <<rate, pc, residual, vad, opened, hasAudio>>
      /\ UNCHANGED <<lastFinal, updates, delivered>>
      /\ UNCHANGED audioVars /\ UNCHANGED <<received, carried, samples, resampled>>
      /\ live' = FALSE /\ pc # "done"
  BY DEF Stop, finalVars, audioVars
<1>2. /\ DecodedSoFar' /\ ResampledSoFar'
      /\ received' \in Nat /\ carried' \in Seq(Nat) /\ Len(carried') <= 1
      /\ samples' \in Seq(Nat \X Nat) /\ resampled' \in Seq(OutputPoint)
  BY <1>1, AudioStays
<1>3. Finals' = Finals /\ Fed' = Fed
  BY <1>1, FinalsUnchanged DEF Fed
<1>4. TypeOK'
  BY <1>1, <1>2 DEF SttInv, TypeOK, OutputPoint
<1>5. StreamFollowsFinals'
  BY <1>1, <1>3 DEF SttInv, StreamFollowsFinals
<1>6. TranscriptCoversAudio'
  <2>1. FinalsPartition'
    BY <1>1, <1>3, PartitionStays DEF SttInv, TranscriptCoversAudio
  <2> QED
    BY <1>1, <2>1 DEF SttInv, TranscriptCoversAudio, CommitCoversAll
<1>7. DetectorFollows'
  BY <1>1, <1>3 DEF SttInv, DetectorFollows, VadFollowsStream
<1> QED
  BY <1>2, <1>4, <1>5, <1>6, <1>7 DEF SttInv

\* Where the detector stands, when it is not the end of an utterance.
LEMMA DetectorSound ==
  ASSUME SttInv
  PROVE  /\ vad \in Detectors /\ Fed \in Nat /\ opened \in Nat /\ opened <= Fed
         /\ Fed - opened \in Nat
         /\ pc \in {"idle", "frames"} => Follows(vad, Fed - opened)
<1>1. Len(resampled) \in Nat /\ residual \in Nat /\ opened \in Nat /\ vad \in Detectors
  BY LenProperties DEF SttInv, TypeOK, Detectors
<1>2. residual <= Len(resampled) /\ opened <= Fed
  BY DEF SttInv, StreamFollowsFinals
<1>3. pc \in {"idle", "frames"} => Follows(vad, Fed - opened)
  BY DEF SttInv, DetectorFollows, VadFollowsStream, Follows
<1>4. Fed \in Nat
  BY <1>1, <1>2 DEF Fed
<1> QED
  BY <1>1, <1>2, <1>3, <1>4

LEMMA FrameStep ==
  ASSUME SttInv, NEW voiced \in BOOLEAN, Frame(voiced)
  PROVE  SttInv'
<1> DEFINE ends == Ends(vad, voiced, FrameSamples)
<1>1. /\ UNCHANGED <<rate, live, opened, lastFinal, updates, delivered>>
      /\ UNCHANGED audioVars /\ UNCHANGED <<received, carried, samples, resampled>>
      /\ pc = "frames" /\ residual >= FrameSamples
      /\ residual' = residual - FrameSamples /\ hasAudio' = TRUE
      /\ vad' = Process(vad, voiced, FrameSamples)
      /\ pc' = IF ends THEN "ended" ELSE "frames"
  BY DEF Frame, finalVars, audioVars
<1>2. /\ DecodedSoFar' /\ ResampledSoFar'
      /\ received' \in Nat /\ carried' \in Seq(Nat) /\ Len(carried') <= 1
      /\ samples' \in Seq(Nat \X Nat) /\ resampled' \in Seq(OutputPoint)
  BY <1>1, AudioStays
<1>3. /\ vad \in Detectors /\ Fed \in Nat /\ opened \in Nat /\ opened <= Fed
      /\ Fed - opened \in Nat /\ Follows(vad, Fed - opened)
  BY <1>1, DetectorSound
<1>4. FrameSamples \in Nat \ {0} /\ residual \in Nat /\ Len(resampled) \in Nat
  BY SttAssumption, LenProperties DEF SttInv, TypeOK
<1>5. Finals' = Finals
  BY <1>1, FinalsUnchanged
<1>6. Fed' = Fed + FrameSamples /\ residual' \in Nat /\ residual' <= Len(resampled')
  <2>1. residual <= Len(resampled)
    BY DEF SttInv, StreamFollowsFinals
  <2> QED
    BY <1>1, <1>4, <2>1 DEF Fed
<1>7. /\ ends => vad' = Quiet
      /\ ~ends => Follows(vad', Fed' - opened')
  <2>1. /\ Process(vad, voiced, FrameSamples) \in Detectors
        /\ ends => Process(vad, voiced, FrameSamples) = Quiet
        /\ ~ends => Follows(Process(vad, voiced, FrameSamples), (Fed - opened) + FrameSamples)
    BY <1>3, <1>4, ProcessProperties
  <2>2. Fed' - opened' = (Fed - opened) + FrameSamples
    BY <1>1, <1>3, <1>4, <1>6
  <2> QED
    BY <1>1, <2>1, <2>2
<1> HIDE DEF ends
<1>8. TypeOK'
  <2>1. vad' \in Detectors
    BY <1>1, <1>3, <1>4, ProcessProperties
  <2>2. pc' \in {"ended", "frames"}
    BY <1>1
  <2> QED
    BY <1>1, <1>2, <1>6, <2>1, <2>2 DEF SttInv, TypeOK, OutputPoint, Detectors
<1>9. StreamFollowsFinals'
  <2>1. Fed' > opened' /\ opened' <= Fed' /\ pc' \in {"ended", "frames"}
    BY <1>1, <1>3, <1>4, <1>6
  <2> QED
    BY <1>1, <1>5, <1>6, <2>1 DEF SttInv, StreamFollowsFinals
<1>10. TranscriptCoversAudio'
  <2>1. FinalsPartition'
    BY <1>1, <1>5, PartitionStays DEF SttInv, TranscriptCoversAudio
  <2> QED
    BY <1>1, <2>1 DEF TranscriptCoversAudio, CommitCoversAll
<1>11. DetectorFollows'
  <2>1. CASE ends
    <3>1. pc' = "ended" /\ vad' = Quiet
      BY <1>1, <1>7, <2>1
    <3> QED
      BY <1>1, <3>1 DEF DetectorFollows, VadFollowsStream
  <2>2. CASE ~ends
    <3>1. pc' = "frames" /\ Follows(vad', Fed' - opened') /\ Fed' > opened'
      BY <1>1, <1>3, <1>4, <1>6, <1>7, <2>2
    <3> QED
      BY <1>1, <3>1 DEF DetectorFollows, VadFollowsStream, Follows
  <2> QED
    BY <2>1, <2>2
<1> QED
  BY <1>2, <1>8, <1>9, <1>10, <1>11 DEF SttInv

\* A piece of audio is a record, no final is not.
LEMMA PieceProperties ==
  ASSUME NEW f \in Nat, NEW n \in Nat
  PROVE  /\ Piece(f, n) \in Pieces
         /\ Piece(f, n).first = f /\ Piece(f, n).next = n
BY DEF Piece, Pieces

LEMMA PieceIsSome ==
  ASSUME NEW e \in Pieces
  PROVE  e # None
<1>1. DOMAIN e = {"first", "next"}
  BY DEF Pieces
<1>2. DOMAIN None = {}
  BY DEF None
<1> QED
  BY <1>1, <1>2

LEMMA EndUtteranceStep ==
  ASSUME SttInv, EndUtterance
  PROVE  SttInv'
<1> DEFINE e == Piece(opened, Fed)
<1>1. /\ UNCHANGED <<rate, live, residual, vad, delivered>>
      /\ UNCHANGED audioVars /\ UNCHANGED <<received, carried, samples, resampled>>
      /\ pc = "ended" /\ pc' = "frames" /\ lastFinal' = e /\ updates' = Append(updates, e)
      /\ opened' = Fed /\ hasAudio' = FALSE
  BY DEF EndUtterance, audioVars
<1>2. /\ DecodedSoFar' /\ ResampledSoFar'
      /\ received' \in Nat /\ carried' \in Seq(Nat) /\ Len(carried') <= 1
      /\ samples' \in Seq(Nat \X Nat) /\ resampled' \in Seq(OutputPoint)
  BY <1>1, AudioStays
<1>3. /\ Fed \in Nat /\ opened \in Nat /\ vad \in Detectors
      /\ updates \in Seq(Pieces) /\ delivered \in Seq(Pieces)
  BY DetectorSound DEF SttInv, TypeOK
<1>4. e \in Pieces /\ e.first = opened /\ e.next = Fed
  BY <1>3, PieceProperties
<1>5. e.first < e.next
  BY <1>1, <1>4 DEF SttInv, DetectorFollows, StreamFollowsFinals
<1> HIDE DEF e
<1>6. Finals' = Append(Finals, e)
  <2>1. delivered \o Append(updates, e) = Append(delivered \o updates, e)
    BY <1>3, <1>4, ConcatAppend
  <2> QED
    BY <1>1, <2>1 DEF Finals
<1>7. Fed' = Fed
  BY <1>1 DEF Fed
<1>8. updates' \in Seq(Pieces)
  BY <1>1, <1>3, <1>4, AppendProperties
<1>9. TypeOK'
  BY <1>1, <1>2, <1>3, <1>4, <1>8 DEF SttInv, TypeOK, OutputPoint
<1>10. StreamFollowsFinals'
  <2>1. Finals' # <<>> /\ Finals'[Len(Finals')] = e
    BY <1>4, <1>6, FinalsType, AppendElements DEF SttInv
  <2>2. ~(Fed' > opened') /\ opened' <= Fed'
    BY <1>1, <1>3, <1>7
  <2> QED
    BY <1>1, <1>4, <1>7, <2>1, <2>2 DEF SttInv, StreamFollowsFinals
<1>11. TranscriptCoversAudio'
  <2>1. FinalsPartition'
    BY <1>1, <1>4, <1>5, <1>6, PartitionGrows
  <2> QED
    BY <1>1, <2>1 DEF TranscriptCoversAudio, CommitCoversAll
<1>12. DetectorFollows'
  <2>1. vad' = Quiet
    BY <1>1 DEF SttInv, DetectorFollows
  <2>2. Fed' - opened' = 0 /\ ~(Fed' > opened')
    BY <1>1, <1>3, <1>7
  <2> QED
    BY <1>1, <2>1, <2>2, AudioAssumption DEF DetectorFollows, VadFollowsStream, Quiet
<1> QED
  BY <1>2, <1>9, <1>10, <1>11, <1>12 DEF SttInv

LEMMA PushReturnsStep ==
  ASSUME SttInv, PushReturns
  PROVE  SttInv'
<1>1. /\ UNCHANGED <<rate, live, residual, vad, opened, hasAudio, lastFinal>>
      /\ UNCHANGED audioVars /\ UNCHANGED <<received, carried, samples, resampled>>
      /\ pc = "frames" /\ pc' = "idle"
      /\ delivered' = delivered \o updates /\ updates' = <<>>
  BY DEF PushReturns, audioVars
<1>2. /\ DecodedSoFar' /\ ResampledSoFar'
      /\ received' \in Nat /\ carried' \in Seq(Nat) /\ Len(carried') <= 1
      /\ samples' \in Seq(Nat \X Nat) /\ resampled' \in Seq(OutputPoint)
  BY <1>1, AudioStays
<1>3. Finals \in Seq(Pieces)
  BY FinalsType DEF SttInv
<1>4. delivered' = Finals /\ updates' \in Seq(Pieces)
  BY <1>1 DEF Finals
<1>5. Finals' = Finals /\ Fed' = Fed
  BY <1>1, <1>3, <1>4, ConcatEmptySeq DEF Finals, Fed
<1>6. TypeOK'
  BY <1>1, <1>2, <1>3, <1>4 DEF SttInv, TypeOK, OutputPoint
<1>7. StreamFollowsFinals'
  BY <1>1, <1>5 DEF SttInv, StreamFollowsFinals
<1>8. TranscriptCoversAudio'
  <2>1. FinalsPartition'
    BY <1>1, <1>5, PartitionStays DEF SttInv, TranscriptCoversAudio
  <2> QED
    BY <1>1, <2>1 DEF TranscriptCoversAudio, CommitCoversAll
<1>9. DetectorFollows'
  BY <1>1, <1>5 DEF SttInv, DetectorFollows, VadFollowsStream
<1> QED
  BY <1>2, <1>6, <1>7, <1>8, <1>9 DEF SttInv

LEMMA FinishStep ==
  ASSUME SttInv, Finish
  PROVE  SttInv'
<1>1. /\ UNCHANGED <<rate, live, opened, lastFinal, updates, delivered>>
      /\ UNCHANGED audioVars /\ UNCHANGED <<received, carried, samples, resampled>>
      /\ pc = "idle" /\ pc' = "committing" /\ carried = <<>> /\ samples # <<>>
      /\ residual' = 0 /\ hasAudio' = (hasAudio \/ residual > 0)
  BY DEF Finish, finalVars, audioVars
<1>2. /\ DecodedSoFar' /\ ResampledSoFar'
      /\ received' \in Nat /\ carried' \in Seq(Nat) /\ Len(carried') <= 1
      /\ samples' \in Seq(Nat \X Nat) /\ resampled' \in Seq(OutputPoint)
  BY <1>1, AudioStays
<1>3. /\ vad \in Detectors /\ Fed \in Nat /\ opened \in Nat /\ opened <= Fed
      /\ hasAudio \in BOOLEAN /\ (hasAudio <=> Fed > opened)
  BY DetectorSound DEF SttInv, TypeOK, StreamFollowsFinals
<1>4. residual \in Nat /\ Len(resampled) \in Nat /\ residual <= Len(resampled)
  BY LenProperties DEF SttInv, TypeOK, StreamFollowsFinals
<1>5. Fed' = Len(resampled) /\ Fed' = Fed + residual
  BY <1>1, <1>4 DEF Fed
<1>6. vad' \in Detectors
  <2>1. CASE residual > 0
    <3>1. vad' \in {Process(vad, voiced, residual) : voiced \in BOOLEAN}
      BY <2>1 DEF Finish
    <3>2. PICK voiced \in BOOLEAN : vad' = Process(vad, voiced, residual)
      BY <3>1
    <3> QED
      BY <1>3, <1>4, <3>2, ProcessProperties
  <2>2. CASE ~(residual > 0)
    BY <1>3, <2>2 DEF Finish
  <2> QED
    BY <2>1, <2>2
<1>7. Finals' = Finals
  BY <1>1, FinalsUnchanged
<1>8. TypeOK'
  BY <1>1, <1>2, <1>3, <1>6 DEF SttInv, TypeOK, OutputPoint, Detectors
<1>9. (hasAudio' <=> Fed' > opened') /\ opened' <= Fed'
  <2>1. opened' = opened /\ Fed' = Fed + residual
    BY <1>1, <1>5
  <2>2. Fed' > opened' <=> Fed > opened \/ residual > 0
    BY <1>3, <1>4, <2>1
  <2>3. opened' <= Fed'
    BY <1>3, <1>4, <2>1
  <2> QED
    BY <1>1, <1>3, <2>2, <2>3
<1>10. StreamFollowsFinals'
  BY <1>1, <1>2, <1>4, <1>7, <1>9 DEF SttInv, StreamFollowsFinals
<1>11. hasAudio' \/ lastFinal' # None
  <2>1. SUFFICES ASSUME ~hasAudio' PROVE lastFinal # None
    BY <1>1
  <2>2. Len(resampled) \in Nat \ {0}
    <3>1. rate \in Nat \ {0} /\ Len(samples) \in Nat \ {0}
      BY <1>1, SttAssumption, EmptySeq, LenProperties DEF SttInv, TypeOK
    <3>2. Len(resampled) = Available(Len(samples), rate)
      BY <1>1 DEF SttInv, ResampledSoFar
    <3> QED
      BY <3>1, <3>2, AvailableBounds
  <2>3. opened # 0
    BY <1>1, <1>3, <1>5, <1>9, <2>1, <2>2
  <2>4. Finals # <<>> /\ lastFinal = Finals[Len(Finals)]
    BY <1>1, <2>3 DEF SttInv, StreamFollowsFinals
  <2>5. Finals[Len(Finals)] \in Pieces
    <3>1. Finals \in Seq(Pieces) /\ Len(Finals) \in Nat
      BY FinalsType DEF SttInv
    <3>2. Len(Finals) # 0
      BY <2>4, <3>1, EmptySeq
    <3>3. Len(Finals) \in 1..Len(Finals)
      BY <3>1, <3>2
    <3> QED
      BY <3>1, <3>3, ElementOfSeq
  <2> QED
    BY <2>4, <2>5, PieceIsSome
<1>12. TranscriptCoversAudio'
  <2>1. FinalsPartition'
    BY <1>1, <1>7, PartitionStays DEF SttInv, TranscriptCoversAudio
  <2> QED
    BY <1>1, <1>11, <2>1 DEF TranscriptCoversAudio, CommitCoversAll
<1>13. DetectorFollows'
  BY <1>1 DEF DetectorFollows, VadFollowsStream
<1> QED
  BY <1>2, <1>8, <1>10, <1>12, <1>13 DEF SttInv

LEMMA CommitStep ==
  ASSUME SttInv, Commit
  PROVE  SttInv'
<1> DEFINE e == IF hasAudio THEN Piece(opened, Fed) ELSE lastFinal
<1>1. /\ UNCHANGED <<rate, live, residual, vad, opened, hasAudio, updates>>
      /\ UNCHANGED audioVars /\ UNCHANGED <<received, carried, samples, resampled>>
      /\ pc = "committing" /\ pc' = "done"
      /\ hasAudio \/ lastFinal # None
      /\ delivered' = Append(delivered, e)
      /\ lastFinal' \in {lastFinal, None}
  BY DEF Commit, audioVars
<1>2. /\ DecodedSoFar' /\ ResampledSoFar'
      /\ received' \in Nat /\ carried' \in Seq(Nat) /\ Len(carried') <= 1
      /\ samples' \in Seq(Nat \X Nat) /\ resampled' \in Seq(OutputPoint)
  BY <1>1, AudioStays
<1>3. /\ Fed \in Nat /\ opened \in Nat /\ opened <= Fed
      /\ delivered \in Seq(Pieces) /\ lastFinal \in Pieces \cup {None}
      /\ hasAudio \in BOOLEAN /\ (hasAudio <=> Fed > opened)
      /\ updates = <<>> /\ residual = 0 /\ carried = <<>> /\ samples # <<>>
  BY <1>1, DetectorSound DEF SttInv, TypeOK, StreamFollowsFinals
<1>4. Finals = delivered /\ Finals \in Seq(Pieces)
  BY <1>3, ConcatEmptySeq DEF Finals
<1>5. IF Finals = <<>> THEN opened = 0 /\ lastFinal = None
      ELSE opened = Finals[Len(Finals)].next /\ lastFinal = Finals[Len(Finals)]
  BY <1>1 DEF SttInv, StreamFollowsFinals
<1>6. /\ e \in Pieces /\ e.next = Fed
      /\ \/ e.first = opened /\ e.first < e.next
         \/ Finals # <<>> /\ e = Finals[Len(Finals)]
  <2>1. CASE hasAudio
    BY <1>3, <2>1, PieceProperties
  <2>2. CASE ~hasAudio
    <3>1. e = lastFinal /\ lastFinal # None
      BY <1>1, <2>2
    <3>2. Finals # <<>> /\ lastFinal = Finals[Len(Finals)] /\ opened = lastFinal.next
      BY <1>5, <3>1
    <3>3. Fed = opened
      BY <1>3, <2>2
    <3> QED
      BY <1>3, <3>1, <3>2, <3>3
  <2> QED
    BY <1>3, <2>1, <2>2
<1> HIDE DEF e
<1>7. /\ delivered' \in Seq(Pieces) /\ delivered' # <<>>
      /\ delivered'[Len(delivered')] = e
  BY <1>1, <1>3, <1>6, AppendProperties
<1>8. Finals' = Append(Finals, e)
  BY <1>1, <1>3, <1>4, <1>7, ConcatEmptySeq DEF Finals
<1>9. Fed' = Fed /\ Fed = Len(resampled)
  BY <1>1, <1>3, LenProperties DEF Fed, SttInv, TypeOK
<1>10. TypeOK'
  BY <1>1, <1>2, <1>3, <1>7 DEF SttInv, TypeOK, OutputPoint
<1>11. StreamFollowsFinals'
  BY <1>1, <1>3, <1>9 DEF SttInv, StreamFollowsFinals
<1>12. TranscriptCoversAudio'
  <2>1. FinalsPartition'
    BY <1>1, <1>6, <1>8, PartitionGrows
  <2>2. delivered'[Len(delivered')].next = Available(Len(samples'), rate')
    <3>1. Len(resampled) = Available(Len(samples), rate)
      BY <1>3 DEF SttInv, ResampledSoFar
    <3> QED
      BY <1>1, <1>6, <1>7, <1>9, <3>1
  <2>3. 2 * Len(samples) = received
    <3>1. Len(samples) = received \div 2 /\ Len(carried) = received % 2
      BY DEF SttInv, DecodedSoFar
    <3>2. received \in Nat /\ received % 2 = 0
      BY <1>3, <3>1 DEF SttInv, TypeOK
    <3> QED
      BY <3>1, <3>2
  <2> QED
    BY <1>1, <1>7, <2>1, <2>2, <2>3 DEF TranscriptCoversAudio, CommitCoversAll
<1>13. DetectorFollows'
  BY <1>1 DEF DetectorFollows, VadFollowsStream
<1> QED
  BY <1>2, <1>10, <1>11, <1>12, <1>13 DEF SttInv

LEMMA SttInvNext == SttInv /\ [Next]_vars => SttInv'
<1> SUFFICES ASSUME SttInv, [Next]_vars PROVE SttInv'
  OBVIOUS
<1>1. ASSUME NEW n \in 0..(MaxChunk + 1), Push(n)  PROVE SttInv'
  BY <1>1, PushStep
<1>2. ASSUME NEW n \in 0..(MaxChunk + 1), PushRefused(n)  PROVE SttInv'
  BY <1>2, FailStep DEF PushRefused
<1>3. ASSUME NEW voiced \in BOOLEAN, Frame(voiced)  PROVE SttInv'
  BY <1>3, FrameStep
<1>4. CASE EndUtterance
  BY <1>4, EndUtteranceStep
<1>5. CASE PushReturns
  BY <1>5, PushReturnsStep
<1>6. CASE Finish
  BY <1>6, FinishStep
<1>7. CASE FinishRefused
  BY <1>7, FailStep DEF FinishRefused
<1>8. CASE Commit
  BY <1>8, CommitStep
<1>9. CASE CallFails
  BY <1>9, FailStep DEF CallFails
<1>10. CASE Stop
  BY <1>10, StopStep
<1>11. CASE UNCHANGED vars
  <2>1. /\ UNCHANGED <<rate, pc, live, residual, vad, opened, hasAudio>>
        /\ UNCHANGED <<received, carried, samples, resampled>>
        /\ UNCHANGED <<lastFinal, updates, delivered>> /\ UNCHANGED audioVars
    BY <1>11 DEF vars, audioVars, finalVars
  <2>2. /\ DecodedSoFar' /\ ResampledSoFar'
    BY <2>1, AudioStays
  <2>3. Finals' = Finals /\ Fed' = Fed
    BY <2>1 DEF Finals, Fed
  <2>4. TypeOK' /\ StreamFollowsFinals'
    BY <2>1, <2>3 DEF SttInv, TypeOK, StreamFollowsFinals
  <2>5. TranscriptCoversAudio'
    BY <2>1, <2>3 DEF SttInv, TranscriptCoversAudio, FinalsPartition, CommitCoversAll
  <2>6. DetectorFollows'
    BY <2>1, <2>3 DEF SttInv, DetectorFollows, VadFollowsStream
  <2> QED
    BY <2>2, <2>4, <2>5, <2>6 DEF SttInv
<1> QED
  BY <1>1, <1>2, <1>3, <1>4, <1>5, <1>6, <1>7, <1>8, <1>9, <1>10, <1>11 DEF Next

-----------------------------------------------------------------------------
(***************************************************************************)
(* Every sample and every output point is where its position says, the     *)
(* open stream begins where the last final ended and the detector follows  *)
(* it, however the caller cuts the bytes (push_pcm16, finish).             *)
(***************************************************************************)
THEOREM SttInvariant == Spec => []SttInv
BY SttInvInit, SttInvNext, PTL DEF Spec

(***************************************************************************)
(* Streaming recognition hears what one-shot recognition would: the        *)
(* samples and the resampled audio of IncrementalPcm16 and                 *)
(* StreamingResampler are those of the whole recording.                    *)
(***************************************************************************)
THEOREM StreamingIsOneShot == Spec => []StreamIsOneShot
<1>1. SttInv => StreamIsOneShot
  BY DecodesWhole, ResampledWhole DEF SttInv, StreamIsOneShot
<1> QED
  BY <1>1, SttInvariant, PTL

(***************************************************************************)
(* The finals of push_pcm16 and finish divide the audio without gap or     *)
(* overlap, and a commit leaves none of it out.                            *)
(***************************************************************************)
THEOREM FinalsCoverAudio == Spec => []TranscriptCoversAudio
<1>1. SttInv => TranscriptCoversAudio
  BY DEF SttInv
<1> QED
  BY <1>1, SttInvariant, PTL

(***************************************************************************)
(* The energy detector and the native stream never disagree about the open *)
(* utterance (process_frame and end_utterance).                            *)
(***************************************************************************)
THEOREM DetectorFollowsStream == Spec => []VadFollowsStream
<1>1. SttInv => VadFollowsStream
  BY DEF SttInv, DetectorFollows
<1> QED
  BY <1>1, SttInvariant, PTL
=============================================================================
