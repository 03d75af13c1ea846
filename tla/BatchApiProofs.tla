--------------------------- MODULE BatchApiProofs ---------------------------
(***************************************************************************)
(* The WAV reader and the batch endpoints, for every file, every form and  *)
(* every JSON-RPC document, whatever the limits.  The walk over the chunks *)
(* is an induction over steps: ReaderInv says of the chunks behind the     *)
(* reader what it has made of them.  A file that is rejected is then no    *)
(* WAV file because the chunk in hand, the end of the walk or its result   *)
(* contradicts what Describes says of it.                                  *)
(***************************************************************************)
EXTENDS BatchApi, SequenceTheorems, TLAPS

-----------------------------------------------------------------------------
(***************************************************************************)
(* Chunk headers, and sequences of them laid end to end.                   *)
(***************************************************************************)
Headers == HeadersAt(Nat, 0..MaxU32)

Ordered(chunks) ==
  /\ Tiled(chunks)
  /\ \A i, j \in 1..Len(chunks) : i < j => After(chunks[i]) <= chunks[j].from

LEMMA HeaderFields ==
  ASSUME NEW h \in Headers
  PROVE  /\ h.id \in {"fmt", "data", "other"} /\ h.rate \in Rates \cup {Unsupported}
         /\ h.from \in Nat /\ h.size \in Nat /\ h.size % 2 \in 0..1
         /\ After(h) \in Nat /\ h.from < After(h)
         /\ After(h) = h.from + 8 + h.size + (h.size % 2)
<1>1. /\ h.id \in {"fmt", "data", "other"} /\ h.rate \in Rates \cup {Unsupported}
      /\ h.from \in Nat /\ h.size \in 0..MaxU32
  BY DEF Headers, HeadersAt
<1>2. h.size \in Nat
  BY <1>1, WavAssumption
<1>3. h.size % 2 \in 0..1
  BY <1>2
<1>4. After(h) = h.from + 8 + h.size + (h.size % 2)
  BY DEF After, ChunkHeader
<1> QED
  BY <1>1, <1>2, <1>3, <1>4

LEMMA OrderedAppend ==
  ASSUME NEW chunks \in Seq(Headers), Ordered(chunks), NEW h \in Headers,
         h.from = IF chunks = <<>> THEN RiffHeader ELSE After(chunks[Len(chunks)])
  PROVE  /\ Append(chunks, h) \in Seq(Headers)
         /\ Len(Append(chunks, h)) = Len(chunks) + 1
         /\ \A i \in 1..Len(chunks) : Append(chunks, h)[i] = chunks[i]
         /\ Append(chunks, h)[Len(chunks) + 1] = h
         /\ Ordered(Append(chunks, h))
<1> DEFINE n == Len(chunks)
           cs == Append(chunks, h)
<1>1. n \in Nat /\ (chunks = <<>> <=> n = 0)
  BY EmptySeq, LenProperties
<1>2. /\ cs \in Seq(Headers) /\ Len(cs) = n + 1 /\ cs # <<>>
      /\ \A i \in 1..n : cs[i] = chunks[i]
      /\ cs[n + 1] = h
  BY AppendProperties
<1>3. \A i \in 1..n : chunks[i] \in Headers
  BY ElementOfSeq
<1> HIDE DEF n, cs
<1>4. cs[1].from = RiffHeader
  <2>1. CASE n = 0
    BY <1>1, <1>2, <2>1
  <2>2. CASE n # 0
    BY <1>1, <1>2, <2>2 DEF Ordered, Tiled
  <2> QED
    BY <2>1, <2>2
<1>5. ASSUME NEW i \in 1..n
      PROVE  cs[i + 1].from = After(cs[i])
  <2>1. CASE i = n
    BY <1>1, <1>2, <2>1 DEF n
  <2>2. CASE i # n
    <3>1. i \in 1..(n - 1) /\ i + 1 \in 1..n
      BY <1>1, <2>2
    <3>2. chunks[i + 1].from = After(chunks[i])
      BY <3>1 DEF Ordered, Tiled, n
    <3> QED
      BY <1>2, <3>1, <3>2
  <2> QED
    BY <2>1, <2>2
<1>6. ASSUME NEW i \in 1..(n + 1), NEW j \in 1..(n + 1), i < j
      PROVE  After(cs[i]) <= cs[j].from
  <2>0. i \in 1..n /\ cs[i] = chunks[i]
    BY <1>1, <1>2, <1>6
  <2>1. CASE j \in 1..n
    BY <1>2, <1>6, <2>0, <2>1 DEF Ordered, n
  <2>2. CASE j = n + 1
    <3>1. n # 0 /\ cs[j].from = After(chunks[n]) /\ n \in 1..n
      BY <1>1, <1>2, <2>0, <2>2 DEF n
    <3>2. CASE i = n
      BY <1>3, <2>0, <3>1, <3>2, HeaderFields
    <3>3. CASE i # n
      <4>1. After(chunks[i]) <= chunks[n].from
        BY <1>1, <2>0, <3>1, <3>3 DEF Ordered, n
      <4>2. /\ chunks[n].from \in Nat /\ After(chunks[n]) \in Nat
            /\ chunks[n].from < After(chunks[n]) /\ After(chunks[i]) \in Nat
        BY <1>3, <2>0, <3>1, HeaderFields
      <4> QED
        BY <2>0, <3>1, <4>1, <4>2
    <3> QED
      BY <3>2, <3>3
  <2> QED
    BY <1>1, <2>1, <2>2
<1>7. Ordered(cs)
  <2>1. Len(cs) - 1 = n /\ n + 1 = Len(cs)
    BY <1>1, <1>2
  <2> QED
    BY <1>4, <1>5, <1>6, <2>1 DEF Ordered, Tiled
<1> QED
  BY <1>2, <1>7 DEF n, cs

\* The first chunk of its kind is the one FirstOf means, and the only one.
LEMMA FirstFound ==
  ASSUME NEW chunks \in Seq(Headers), Ordered(chunks), NEW id,
         NEW i \in 1..Len(chunks), chunks[i].id = id,
         \A k \in 1..(i - 1) : chunks[k].id # id
  PROVE  FirstOf(id, chunks) = {chunks[i]}
<1>1. Len(chunks) \in Nat /\ \A k \in 1..Len(chunks) : chunks[k] \in Headers
  BY LenProperties, ElementOfSeq
<1>2. ASSUME NEW j \in 1..Len(chunks), chunks[j].id = id, j # i
      PROVE  chunks[i].from < chunks[j].from
  <2>1. i < j
    BY <1>1, <1>2
  <2>2. After(chunks[i]) <= chunks[j].from
    BY <2>1 DEF Ordered
  <2>3. chunks[i].from < After(chunks[i]) /\ After(chunks[i]) \in Nat
        /\ chunks[i].from \in Nat /\ chunks[j].from \in Nat
    BY <1>1, HeaderFields
  <2> QED
    BY <2>2, <2>3
<1>3. \A k \in 1..Len(chunks) : chunks[k].from \in Nat
  BY <1>1, HeaderFields
<1>4. chunks[i] \in FirstOf(id, chunks)
  <2>1. \A j \in 1..Len(chunks) : chunks[j].id = id => chunks[i].from <= chunks[j].from
    BY <1>2, <1>3
  <2> QED
    BY <2>1 DEF FirstOf
<1>5. ASSUME NEW c \in FirstOf(id, chunks)
      PROVE  c = chunks[i]
  <2>1. PICK j \in 1..Len(chunks) : c = chunks[j]
    BY <1>5 DEF FirstOf
  <2>2. chunks[j].id = id /\ chunks[j].from <= chunks[i].from
    BY <1>5, <2>1 DEF FirstOf
  <2>3. j = i
    BY <1>2, <1>3, <2>2
  <2> QED
    BY <2>1, <2>3
<1> QED
  BY <1>4, <1>5

LEMMA NoneFound ==
  ASSUME NEW chunks, NEW id, \A k \in 1..Len(chunks) : chunks[k].id # id
  PROVE  FirstOf(id, chunks) = {}
BY DEF FirstOf

-----------------------------------------------------------------------------
(***************************************************************************)
(* What is known of a file that Describes accepts.                         *)
(***************************************************************************)
Files == [length : Nat, declared : Nat, riff : BOOLEAN, chunks : Seq(Headers)]

LEMMA DescribedBounds ==
  ASSUME NEW f \in Files, Ordered(f.chunks), NEW rate, NEW body, Describes(f, rate, body)
  PROVE  /\ Len(f.chunks) \in Nat \ {0}
         /\ f.riff /\ f.length = f.declared + 8 /\ f.length <= MaxEncodedBytes
         /\ \A i \in 1..Len(f.chunks) : f.chunks[i].from + 8 + f.chunks[i].size <= f.length
         /\ f.length <= After(f.chunks[Len(f.chunks)])
         /\ RiffHeader <= f.length
<1> DEFINE chunks == f.chunks
           n == Len(chunks)
<1>1. /\ chunks \in Seq(Headers) /\ chunks # <<>> /\ n \in Nat \ {0}
      /\ f.length \in Nat
  BY EmptySeq, LenProperties DEF Describes, Files
<1>2. \A i \in 1..n : chunks[i] \in Headers
  BY <1>1, ElementOfSeq
<1>3. /\ f.riff /\ f.length = f.declared + 8 /\ f.length <= MaxEncodedBytes
      /\ chunks[n].from + 8 + chunks[n].size <= f.length
      /\ f.length <= After(chunks[n])
      /\ chunks[1].from = 12
  BY <1>1 DEF Describes, Tiled, ChunkHeader, RiffHeader
<1>4. \A i, j \in 1..n : i < j => After(chunks[i]) <= chunks[j].from
  BY DEF Ordered
<1> HIDE DEF chunks, n
<1>5. ASSUME NEW i \in 1..n
      PROVE  chunks[i].from + 8 + chunks[i].size <= f.length
  <2>1. CASE i = n
    BY <1>3, <2>1
  <2>2. CASE i # n
    <3>1. i < n /\ n \in 1..n
      BY <1>1, <2>2
    <3>2. After(chunks[i]) <= chunks[n].from
      BY <1>4, <3>1
    <3>3. /\ After(chunks[i]) = chunks[i].from + 8 + chunks[i].size + (chunks[i].size % 2)
          /\ chunks[i].from \in Nat /\ chunks[i].size \in Nat /\ chunks[i].size % 2 \in 0..1
          /\ chunks[n].from \in Nat /\ chunks[n].size \in Nat
      BY <1>2, <3>1, HeaderFields
    <3> DEFINE odd == chunks[i].size % 2
    <3> HIDE DEF odd
    <3>4. odd \in 0..1 /\ After(chunks[i]) = chunks[i].from + 8 + chunks[i].size + odd
      BY <3>3 DEF odd
    <3>5. /\ chunks[i].from \in Nat /\ chunks[i].size \in Nat
          /\ chunks[n].from \in Nat /\ chunks[n].size \in Nat
      BY <3>3
    <3>6. chunks[i].from + 8 + chunks[i].size <= After(chunks[i])
      BY <3>4, <3>5
    <3>7. f.length \in Nat
      BY DEF Files
    <3>9. After(chunks[i]) \in Nat
      BY <1>2, HeaderFields
    <3>8. chunks[n].from + 8 + chunks[n].size <= f.length
      BY <1>3
    <3> QED
      BY <3>2, <3>5, <3>6, <3>7, <3>8, <3>9
  <2> QED
    BY <2>1, <2>2
<1>6. RiffHeader <= f.length
  <2>1. 1 \in 1..n
    BY <1>1
  <2>2. chunks[1].size \in Nat
    BY <1>2, <2>1, HeaderFields
  <2> QED
    BY <1>1, <1>3, <1>5, <2>1, <2>2 DEF RiffHeader
<1> QED
  BY <1>1, <1>3, <1>5, <1>6 DEF chunks, n

-----------------------------------------------------------------------------
(***************************************************************************)
(* The steps of the reader.                                                *)
(***************************************************************************)
LEMMA ReaderTypes ==
  ASSUME ReaderInv
  PROVE  /\ file \in Files /\ Ordered(file.chunks)
         /\ Len(file.chunks) \in Nat /\ pass \in 0..Len(file.chunks)
         /\ \A i \in 1..Len(file.chunks) : file.chunks[i] \in Headers
         /\ offset \in Nat /\ format \in Rates \cup {Unsupported}
         /\ data \in [from : Nat, size : Nat]
<1>1. file \in Files /\ Ordered(file.chunks)
  BY DEF ReaderInv, WavTypeOK, ChunksFit, Files, Headers, Ordered
<1>2. file.chunks \in Seq(Headers)
  BY <1>1 DEF Files
<1> QED
  BY <1>1, <1>2, LenProperties, ElementOfSeq DEF ReaderInv, WavTypeOK

LEMMA FromWavStep ==
  ASSUME ReaderInv, FromWav
  PROVE  ReaderInv'
<1>1. /\ reading = "idle" /\ UNCHANGED file
      /\ reading' = IF WellBegun(file) THEN "chunks" ELSE "rejected"
      /\ offset' = 12 /\ pass' = 0 /\ format' = Unsupported /\ data' = Missing
  BY DEF FromWav, RiffHeader
<1>2. /\ file \in Files /\ Ordered(file.chunks) /\ Len(file.chunks) \in Nat
  BY ReaderTypes
<1>3. WavTypeOK'
  BY <1>1, <1>2 DEF ReaderInv, WavTypeOK, Missing
<1>4. ChunksFit'
  BY <1>1 DEF ReaderInv, ChunksFit
<1>5. reading' = "chunks" => WalkedSoFar' /\ offset' <= file'.length + 1
  <2>1. SUFFICES ASSUME WellBegun(file) PROVE WalkedSoFar' /\ offset' <= file'.length + 1
    BY <1>1
  <2>2. WellBegun(file') /\ file'.length \in Nat /\ file'.length >= 12
    BY <1>1, <1>2, <2>1 DEF WellBegun, Files, RiffHeader
  <2>3. NoneOf("fmt", pass)' /\ NoneOf("data", pass)'
    BY <1>1 DEF NoneOf
  <2> QED
    BY <1>1, <2>2, <2>3 DEF WalkedSoFar, RiffHeader
<1>6. ASSUME ~WellBegun(file), NEW rate, NEW body
      PROVE  ~Describes(file, rate, body)
  <2>1. SUFFICES ASSUME Describes(file, rate, body) PROVE FALSE
    OBVIOUS
  <2>2. /\ file.riff /\ file.length = file.declared + 8
        /\ file.length <= MaxEncodedBytes /\ RiffHeader <= file.length
    BY <1>2, <2>1, DescribedBounds
  <2>3. file.length \in Nat /\ file.declared \in Nat
    BY <1>2 DEF Files
  <2>4. file.declared + 8 <= MaxUsize
    BY <2>2, <2>3, WavAssumption
  <2> QED
    BY <1>6, <2>2, <2>3, <2>4 DEF WellBegun, RiffHeader
<1>7. ReaderSound'
  BY <1>1, <1>5, <1>6 DEF ReaderSound
<1> QED
  BY <1>1, <1>3, <1>4, <1>5, <1>7 DEF ReaderInv

\* A chunk that is known is where the reader finds it, inside the file.
LEMMA NextKnown ==
  ASSUME ReaderInv, reading = "chunks", pass < Len(file.chunks)
  PROVE  /\ file.chunks[pass + 1] \in Headers
         /\ file.chunks[pass + 1].from = offset
         /\ offset + 8 + file.chunks[pass + 1].size <= file.length
<1>1. /\ Len(file.chunks) \in Nat /\ pass \in 0..Len(file.chunks)
      /\ \A i \in 1..Len(file.chunks) : file.chunks[i] \in Headers
      /\ file.chunks \in Seq(Headers)
  BY ReaderTypes DEF Files
<1>2. pass + 1 \in 1..Len(file.chunks) /\ file.chunks # <<>>
  BY <1>1, EmptySeq
<1>3. file.chunks[pass + 1].from = offset
  <2>1. offset = IF pass = 0 THEN RiffHeader ELSE After(file.chunks[pass])
    BY DEF ReaderInv, WalkedSoFar
  <2>2. pass # 0 => pass \in 1..(Len(file.chunks) - 1)
    BY <1>1, <1>2
  <2> QED
    BY <1>1, <1>2, <2>1, <2>2 DEF ReaderInv, ChunksFit, Tiled
<1>4. file.chunks[pass + 1].from + 8 + file.chunks[pass + 1].size <= file.length
  BY <1>2 DEF ReaderInv, ChunksFit, ChunkHeader
<1> QED
  BY <1>1, <1>2, <1>3, <1>4

\* The reader at the end of what is known, with a file that Describes accepts.
LEMMA WalkReachesEnd ==
  ASSUME ReaderInv, reading = "chunks", pass = Len(file.chunks),
         NEW rate, NEW body, Describes(file, rate, body)
  PROVE  offset >= file.length
<1>1. file \in Files /\ Ordered(file.chunks)
  BY ReaderTypes
<1>2. Len(file.chunks) \in Nat \ {0} /\ file.length <= After(file.chunks[Len(file.chunks)])
  BY <1>1, DescribedBounds
<1>3. offset = After(file.chunks[pass])
  BY <1>2 DEF ReaderInv, WalkedSoFar
<1> DEFINE h == file.chunks[Len(file.chunks)]
<1>4. After(h) \in Nat /\ file.length \in Nat
  <2>1. Len(file.chunks) \in 1..Len(file.chunks)
    BY <1>2
  <2> QED
    BY <1>1, <2>1, ReaderTypes, HeaderFields DEF Files
<1> QED
  BY <1>2, <1>3, <1>4

LEMMA HeaderCutStep ==
  ASSUME ReaderInv, HeaderCut
  PROVE  ReaderInv'
<1>1. /\ reading = "chunks" /\ offset < file.length /\ offset + 8 > file.length
      /\ UNCHANGED <<file, pass, offset, format, data>> /\ reading' = "rejected"
  BY DEF HeaderCut, Reject, ChunkHeader
<1>2. /\ file \in Files /\ Len(file.chunks) \in Nat /\ pass \in 0..Len(file.chunks)
      /\ offset \in Nat /\ file.length \in Nat
  BY ReaderTypes DEF Files
<1>3. pass = Len(file.chunks)
  <2>1. SUFFICES ASSUME pass < Len(file.chunks) PROVE FALSE
    BY <1>2
  <2>2. offset + 8 + file.chunks[pass + 1].size <= file.length
        /\ file.chunks[pass + 1].size \in Nat
    BY <1>1, <2>1, NextKnown, HeaderFields
  <2> QED
    BY <1>1, <1>2, <2>2
<1>4. \A rate, body : ~Describes(file, rate, body)
  BY <1>1, <1>2, <1>3, WalkReachesEnd
<1>5. WavTypeOK' /\ ChunksFit'
  BY <1>1 DEF ReaderInv, WavTypeOK, ChunksFit
<1>6. ReaderSound'
  BY <1>1, <1>4 DEF ReaderSound
<1> QED
  BY <1>1, <1>5, <1>6 DEF ReaderInv

\* The header the reader finds and what it knows afterwards.
LEMMA FoundChunk ==
  ASSUME ReaderInv, reading = "chunks", NEW h \in Findable, Find(h)
  PROVE  /\ h \in Headers /\ h.from = offset
         /\ pass' = pass + 1 /\ pass' \in 1..Len(file'.chunks)
         /\ file' \in Files /\ Ordered(file'.chunks)
         /\ file'.length = file.length /\ file'.declared = file.declared
         /\ file'.riff = file.riff
         /\ file'.chunks[pass'] = h
         /\ \A i \in 1..pass : file'.chunks[i] = file.chunks[i]
         /\ \A i \in 1..Len(file'.chunks) :
              file'.chunks[i] = h
                \/ file'.chunks[i].from + 8 + file'.chunks[i].size <= file.length
         /\ pass' = Len(file'.chunks) \/ offset + 8 + h.size <= file.length
<1> DEFINE n == Len(file.chunks)
<1>1. /\ file \in Files /\ Ordered(file.chunks) /\ n \in Nat /\ pass \in 0..n
      /\ offset \in Nat /\ file.chunks \in Seq(Headers)
  BY ReaderTypes DEF Files
<1>2. \A i \in 1..n : file.chunks[i].from + 8 + file.chunks[i].size <= file.length
  BY DEF ReaderInv, ChunksFit, ChunkHeader
<1>3. CASE pass < n
  <2>1. h = file.chunks[pass + 1] /\ file' = file /\ pass' = pass + 1
    BY <1>3 DEF Findable, Find
  <2>2. h \in Headers /\ h.from = offset /\ offset + 8 + h.size <= file.length
    BY <1>3, <2>1, NextKnown
  <2>3. pass' \in 1..n
    BY <1>1, <1>3, <2>1
  <2> QED
    BY <1>1, <1>2, <2>1, <2>2, <2>3
<1>4. CASE ~(pass < n)
  <2>1. /\ pass = n /\ h \in HeadersAt({offset}, Sizes)
        /\ file' = [file EXCEPT !.chunks = Append(@, h)] /\ pass' = pass + 1
    BY <1>1, <1>4 DEF Findable, Find
  <2>2. h \in Headers /\ h.from = offset
    BY <1>1, <2>1, WavAssumption DEF HeadersAt, Headers
  <2>3. h.from = IF file.chunks = <<>> THEN RiffHeader ELSE After(file.chunks[n])
    <3>1. offset = IF pass = 0 THEN RiffHeader ELSE After(file.chunks[pass])
      BY DEF ReaderInv, WalkedSoFar
    <3>2. file.chunks = <<>> <=> n = 0
      BY <1>1, EmptySeq
    <3> QED
      BY <2>1, <2>2, <3>1, <3>2
  <2> DEFINE cs == Append(file.chunks, h)
  <2>4. /\ cs \in Seq(Headers) /\ Len(cs) = n + 1 /\ cs[n + 1] = h
        /\ \A i \in 1..n : cs[i] = file.chunks[i]
        /\ Ordered(cs)
    BY <1>1, <2>2, <2>3, OrderedAppend
  <2>5. /\ file' \in Files /\ file'.chunks = cs
        /\ file'.length = file.length /\ file'.declared = file.declared
        /\ file'.riff = file.riff
    BY <1>1, <2>1, <2>4 DEF Files
  <2> HIDE DEF cs
  <2>6. pass' = n + 1 /\ n + 1 \in 1..(n + 1)
    BY <1>1, <2>1
  <2>7. ASSUME NEW i \in 1..(n + 1)
        PROVE  cs[i] = h \/ cs[i].from + 8 + cs[i].size <= file.length
    <3>1. i = n + 1 \/ i \in 1..n
      BY <1>1
    <3> QED
      BY <1>2, <2>4, <3>1
  <2> QED
    BY <1>1, <2>1, <2>2, <2>4, <2>5, <2>6, <2>7
<1> QED
  BY <1>3, <1>4

\* A chunk of a WAV file gives no reason to reject it.
LEMMA DescribedChunk ==
  ASSUME ReaderInv, reading = "chunks", NEW h \in Findable, Find(h),
         NEW rate \in Rates, NEW body, Describes(file', rate, body)
  PROVE  Fits(h) /\ (IsFirstFormat(h) => ParsesFormat(h)) /\ Padded(h) <= MaxUsize
<1>1. /\ h \in Headers /\ h.from = offset
      /\ pass' = pass + 1 /\ pass' \in 1..Len(file'.chunks)
      /\ file' \in Files /\ Ordered(file'.chunks) /\ file'.length = file.length
      /\ file'.chunks[pass'] = h
      /\ \A i \in 1..pass : file'.chunks[i] = file.chunks[i]
  BY FoundChunk
<1>2. /\ file'.length <= MaxEncodedBytes
      /\ h.from + 8 + h.size <= file'.length
  BY <1>1, DescribedBounds
<1>3. /\ offset \in Nat /\ h.size \in Nat /\ file.length \in Nat /\ pass \in Nat
      /\ h.size % 2 \in 0..1
  BY <1>1, ReaderTypes, HeaderFields DEF Files
<1>4. offset + 8 + h.size <= file.length /\ file.length < MaxUsize /\ MaxUsize \in Nat
  <2>1. file.length <= MaxEncodedBytes /\ offset + 8 + h.size <= file.length
    BY <1>1, <1>2
  <2> QED
    BY <1>3, <2>1, WavAssumption
<1>5. Fits(h)
  <2>1. h.size \in Nat /\ offset \in Nat /\ file.length \in Nat
    BY <1>3
  <2> QED
    BY <1>4, <2>1 DEF Fits, End, Start, ChunkHeader
<1>6. Padded(h) <= MaxUsize
  <2> DEFINE odd == h.size % 2
  <2>1. odd \in 0..1 /\ Padded(h) = offset + 8 + h.size + odd
    BY <1>3 DEF Padded, End, Start, ChunkHeader
  <2>2. h.size \in Nat /\ offset \in Nat /\ file.length \in Nat
    BY <1>3
  <2> HIDE DEF odd
  <2> QED
    BY <1>4, <2>1, <2>2
<1>7. ASSUME IsFirstFormat(h)
      PROVE  ParsesFormat(h)
  <2>1. \A i \in 1..pass : file.chunks[i].id # "fmt"
    BY <1>7 DEF ReaderInv, WalkedSoFar, NoneOf, IsFirstFormat
  <2>2. pass' - 1 = pass
    BY <1>1, <1>3
  <2>3. file'.chunks[pass'].id = "fmt" /\ \A i \in 1..(pass' - 1) : file'.chunks[i].id # "fmt"
    BY <1>1, <1>7, <2>1, <2>2 DEF IsFirstFormat
  <2>4. FirstOf("fmt", file'.chunks) = {h}
    <3>1. file'.chunks \in Seq(Headers)
      BY <1>1 DEF Files
    <3> QED
      BY <1>1, <2>3, <3>1, FirstFound
  <2>5. h.rate = rate /\ h.size >= FormatSize
    BY <2>4 DEF Describes
  <2> QED
    BY <2>5, WavAssumption DEF ParsesFormat
<1> QED
  BY <1>5, <1>6, <1>7

LEMMA ChunkStep ==
  ASSUME ReaderInv, NEW h \in Findable, Chunk(h)
  PROVE  ReaderInv'
<1> DEFINE fine == Fits(h) /\ (IsFirstFormat(h) => ParsesFormat(h)) /\ Padded(h) <= MaxUsize
           isFormat == IsFirstFormat(h)
           isData == h.id = "data" /\ data = Missing
<1>1. /\ reading = "chunks" /\ offset < file.length /\ Find(h)
      /\ IF fine
           THEN /\ format' = IF isFormat THEN h.rate ELSE format
                /\ data' = IF isData THEN [from |-> Start, size |-> h.size] ELSE data
                /\ offset' = Padded(h)
                /\ UNCHANGED reading
           ELSE reading' = "rejected" /\ UNCHANGED <<offset, format, data>>
  BY DEF Chunk, Reject
<1>2. /\ h \in Headers /\ h.from = offset
      /\ pass' = pass + 1 /\ pass' \in 1..Len(file'.chunks)
      /\ file' \in Files /\ Ordered(file'.chunks)
      /\ file'.length = file.length /\ file'.declared = file.declared
      /\ file'.riff = file.riff
      /\ file'.chunks[pass'] = h
      /\ \A i \in 1..pass : file'.chunks[i] = file.chunks[i]
      /\ \A i \in 1..Len(file'.chunks) :
           file'.chunks[i] = h
             \/ file'.chunks[i].from + 8 + file'.chunks[i].size <= file.length
      /\ pass' = Len(file'.chunks) \/ offset + 8 + h.size <= file.length
  BY <1>1, FoundChunk
<1>3. /\ pass \in Nat /\ offset \in Nat /\ file.length \in Nat
      /\ format \in Rates \cup {Unsupported} /\ data \in [from : Nat, size : Nat]
      /\ h.size \in Nat /\ h.rate \in Rates \cup {Unsupported}
  BY <1>2, ReaderTypes, HeaderFields DEF Files
<1>4. WalkedSoFar
  BY <1>1 DEF ReaderInv
<1>5. CASE ~fine
  <2> HIDE DEF fine
  <2>1. reading' = "rejected" /\ UNCHANGED <<offset, format, data>>
    BY <1>1, <1>5
  <2>2. \A rate \in Rates : \A body : ~Describes(file', rate, body)
    BY <1>1, <1>5, DescribedChunk DEF fine
  <2>3. WavTypeOK'
    <3>1. pass' \in 0..Len(file'.chunks)
      BY <1>2, <1>3
    <3> QED
      BY <1>2, <1>3, <2>1, <3>1 DEF WavTypeOK, Files, Headers
  <2>4. ChunksFit'
    BY <1>2, <2>1 DEF ChunksFit, Ordered
  <2>5. ReaderSound'
    BY <2>1, <2>2 DEF ReaderSound
  <2> QED
    BY <2>1, <2>3, <2>4, <2>5 DEF ReaderInv
<1>6. CASE fine
  <2>1. /\ format' = IF isFormat THEN h.rate ELSE format
        /\ data' = IF isData THEN [from |-> Start, size |-> h.size] ELSE data
        /\ offset' = Padded(h) /\ reading' = "chunks"
    BY <1>1, <1>6
  <2>2. offset + 8 + h.size <= file.length
    BY <1>6 DEF Fits, End, Start, ChunkHeader
  <2>3. isFormat => h.size >= FormatSize /\ h.rate # Unsupported
    BY <1>6 DEF ParsesFormat
  <2> HIDE DEF fine
  <2>4. offset' = After(h) /\ offset' \in Nat /\ offset' <= file.length + 1
    <3> DEFINE odd == h.size % 2
    <3>1. odd \in 0..1 /\ Padded(h) = offset + 8 + h.size + odd
      BY <1>2, HeaderFields DEF Padded, End, Start, ChunkHeader
    <3>2. After(h) = offset + 8 + h.size + odd
      BY <1>2, HeaderFields
    <3> HIDE DEF odd
    <3> QED
      BY <1>3, <2>1, <2>2, <3>1, <3>2
  <2>5. [from |-> Start, size |-> h.size] = Body(h) /\ Body(h) \in [from : Nat, size : Nat]
    BY <1>2, <1>3 DEF Start, Body, ChunkHeader
  <2>6. Body(h) # Missing
    <3>1. Body(h).from = offset + 8 /\ Missing.from = 0
      BY <1>2 DEF Body, Missing, ChunkHeader
    <3> QED
      BY <1>3, <3>1
  <2>7. WavTypeOK'
    <3>1. pass' \in 0..Len(file'.chunks)
      BY <1>2, <1>3
    <3>2. format' \in Rates \cup {Unsupported} /\ data' \in [from : Nat, size : Nat]
      BY <1>3, <2>1, <2>5
    <3> QED
      BY <1>2, <2>1, <2>4, <3>1, <3>2 DEF WavTypeOK, Files, Headers
  <2>8. ChunksFit'
    BY <1>2, <2>2 DEF ChunksFit, Ordered, ChunkHeader
  <2>9. WellBegun(file')
    BY <1>2, <1>4 DEF WalkedSoFar, WellBegun
  <2>10. \A i \in 1..pass' : i = pass' \/ i \in 1..pass
    BY <1>2, <1>3
  <2>11. pass' - 1 = pass /\ pass' \in 1..pass' /\ \A i \in 1..pass : i \in 1..pass'
    BY <1>2, <1>3
  <2>12. \A i \in 1..pass : \A k \in 1..(i - 1) : k \in 1..pass
    BY <1>3
  <2>13. IF format' = Unsupported THEN NoneOf("fmt", pass)'
         ELSE \E i \in 1..pass' : /\ IsFirst("fmt", i)' /\ file'.chunks[i].rate = format'
                                  /\ file'.chunks[i].size >= FormatSize
    <3>1. CASE isFormat
      <4>1. \A i \in 1..pass : file.chunks[i].id # "fmt"
        BY <1>4, <3>1 DEF WalkedSoFar, NoneOf, IsFirstFormat
      <4>2. /\ file'.chunks[pass'].id = "fmt"
            /\ \A i \in 1..(pass' - 1) : file'.chunks[i].id # "fmt"
        BY <1>2, <2>11, <3>1, <4>1 DEF IsFirstFormat
      <4> QED
        BY <1>2, <2>1, <2>3, <2>11, <3>1, <4>2 DEF IsFirst, NoneOf
    <3>2. CASE ~isFormat /\ format = Unsupported
      <4>1. h.id # "fmt" /\ \A i \in 1..pass : file.chunks[i].id # "fmt"
        BY <1>4, <3>2 DEF WalkedSoFar, NoneOf, IsFirstFormat
      <4>2. NoneOf("fmt", pass)'
        BY <1>2, <2>10, <4>1 DEF NoneOf
      <4> QED
        BY <2>1, <3>2, <4>2
    <3>3. CASE ~isFormat /\ format # Unsupported
      <4>1. PICK i \in 1..pass : /\ IsFirst("fmt", i) /\ file.chunks[i].rate = format
                                 /\ file.chunks[i].size >= FormatSize
        BY <1>4, <3>3 DEF WalkedSoFar
      <4>2. IsFirst("fmt", i)'
        BY <1>2, <2>12, <4>1 DEF IsFirst, NoneOf
      <4> QED
        BY <1>2, <2>1, <2>11, <3>3, <4>1, <4>2
    <3> QED
      BY <3>1, <3>2, <3>3
  <2>14. IF data' = Missing THEN NoneOf("data", pass)'
         ELSE \E i \in 1..pass' : IsFirst("data", i)' /\ Body(file'.chunks[i]) = data'
    <3>1. CASE isData
      <4>1. \A i \in 1..pass : file.chunks[i].id # "data"
        BY <1>4, <3>1 DEF WalkedSoFar, NoneOf
      <4>2. /\ file'.chunks[pass'].id = "data"
            /\ \A i \in 1..(pass' - 1) : file'.chunks[i].id # "data"
        BY <1>2, <2>11, <3>1, <4>1
      <4> QED
        BY <1>2, <2>1, <2>5, <2>6, <2>11, <3>1, <4>2 DEF IsFirst, NoneOf
    <3>2. CASE ~isData /\ data = Missing
      <4>1. h.id # "data" /\ \A i \in 1..pass : file.chunks[i].id # "data"
        BY <1>4, <3>2 DEF WalkedSoFar, NoneOf
      <4>2. NoneOf("data", pass)'
        BY <1>2, <2>10, <4>1 DEF NoneOf
      <4> QED
        BY <2>1, <3>2, <4>2
    <3>3. CASE ~isData /\ data # Missing
      <4>1. PICK i \in 1..pass : IsFirst("data", i) /\ Body(file.chunks[i]) = data
        BY <1>4, <3>3 DEF WalkedSoFar
      <4>2. IsFirst("data", i)'
        BY <1>2, <2>12, <4>1 DEF IsFirst, NoneOf
      <4> QED
        BY <1>2, <2>1, <2>11, <3>3, <4>1, <4>2
    <3> QED
      BY <3>1, <3>2, <3>3
  <2>15. WalkedSoFar'
    <3>1. offset' = IF pass' = 0 THEN RiffHeader ELSE After(file'.chunks[pass'])
      BY <1>2, <1>3, <2>4
    <3> QED
      BY <2>9, <2>13, <2>14, <3>1 DEF WalkedSoFar
  <2>16. ReaderSound'
    BY <1>2, <2>1, <2>4 DEF ReaderSound
  <2> QED
    BY <2>1, <2>7, <2>8, <2>15, <2>16 DEF ReaderInv
<1> QED
  BY <1>5, <1>6

LEMMA EndOfFileStep ==
  ASSUME ReaderInv, EndOfFile
  PROVE  ReaderInv'
<1> DEFINE cs == file.chunks
           good == format # Unsupported /\ data # Missing /\ AcceptsPcm(data.size, format)
<1>1. /\ reading = "chunks" /\ offset >= file.length
      /\ reading' = IF good THEN "accepted" ELSE "rejected"
      /\ UNCHANGED <<file, pass, offset, format, data>>
  BY DEF EndOfFile
<1>2. /\ file \in Files /\ Ordered(cs) /\ Len(cs) \in Nat /\ pass \in 0..Len(cs)
      /\ offset \in Nat /\ file.length \in Nat /\ cs \in Seq(Headers)
      /\ file.declared \in Nat
      /\ format \in Rates \cup {Unsupported} /\ data \in [from : Nat, size : Nat]
  BY ReaderTypes DEF Files
<1>3. WalkedSoFar
  BY <1>1 DEF ReaderInv
<1>4. pass = Len(cs)
  <2>1. SUFFICES ASSUME pass < Len(cs) PROVE FALSE
    BY <1>2
  <2>2. offset + 8 + cs[pass + 1].size <= file.length /\ cs[pass + 1].size \in Nat
    BY <1>1, <2>1, NextKnown, HeaderFields
  <2> QED
    BY <1>1, <1>2, <2>2
<1>5. WavTypeOK' /\ ChunksFit'
  BY <1>1 DEF ReaderInv, WavTypeOK, ChunksFit
<1>6. format = Unsupported => FirstOf("fmt", cs) = {}
  BY <1>3, <1>4, NoneFound DEF WalkedSoFar, NoneOf
<1>7. data = Missing => FirstOf("data", cs) = {}
  BY <1>3, <1>4, NoneFound DEF WalkedSoFar, NoneOf
<1>8. ASSUME format # Unsupported
      PROVE  \E c : FirstOf("fmt", cs) = {c} /\ c.rate = format /\ c.size >= FormatSize
  <2>1. PICK i \in 1..pass : IsFirst("fmt", i) /\ cs[i].rate = format /\ cs[i].size >= FormatSize
    BY <1>3, <1>8 DEF WalkedSoFar
  <2>2. FirstOf("fmt", cs) = {cs[i]}
    BY <1>2, <1>4, <2>1, FirstFound DEF IsFirst, NoneOf
  <2> QED
    BY <2>1, <2>2
<1>9. ASSUME data # Missing
      PROVE  \E c : FirstOf("data", cs) = {c} /\ Body(c) = data
  <2>1. PICK i \in 1..pass : IsFirst("data", i) /\ Body(cs[i]) = data
    BY <1>3, <1>9 DEF WalkedSoFar
  <2>2. FirstOf("data", cs) = {cs[i]}
    BY <1>2, <1>4, <2>1, FirstFound DEF IsFirst, NoneOf
  <2> QED
    BY <2>1, <2>2
<1>10. CASE good
  <2>1. reading' = "accepted"
    BY <1>1, <1>10
  <2>2. pass # 0
    BY <1>3, <1>10 DEF WalkedSoFar
  <2>3. cs # <<>> /\ pass \in 1..Len(cs)
    BY <1>2, <1>4, <2>2, EmptySeq
  <2>4. /\ cs[Len(cs)].from + ChunkHeader + cs[Len(cs)].size <= file.length
        /\ file.length <= After(cs[Len(cs)])
    BY <1>1, <1>3, <1>4, <2>2, <2>3 DEF ReaderInv, ChunksFit, WalkedSoFar
  <2>5. file.riff /\ file.length = file.declared + 8 /\ file.length <= MaxEncodedBytes
    BY <1>2, <1>3 DEF WalkedSoFar, WellBegun
  <2>6. AcceptsPcm(data.size, format) /\ Tiled(cs)
    BY <1>2, <1>10 DEF Ordered
  <2>7. Describes(file, format, data)
    <3>1. \E c \in FirstOf("fmt", cs) : c.rate = format /\ c.size >= FormatSize
      BY <1>8, <1>10
    <3>2. \E c \in FirstOf("data", cs) : Body(c) = data
      BY <1>9, <1>10
    <3> QED
      BY <2>3, <2>4, <2>5, <2>6, <3>1, <3>2 DEF Describes
  <2>8. Describes(file', format', data')
    BY <1>1, <2>7
  <2> QED
    BY <1>1, <1>5, <2>1, <2>8 DEF ReaderInv, ReaderSound
<1>11. CASE ~good
  <2>1. reading' = "rejected"
    BY <1>1, <1>11
  <2>2. ASSUME NEW rate \in Rates, NEW body, Describes(file, rate, body)
        PROVE  FALSE
    <3>1. /\ \E c \in FirstOf("fmt", cs) : c.rate = rate
          /\ \E c \in FirstOf("data", cs) : Body(c) = body
          /\ AcceptsPcm(body.size, rate)
      BY <2>2 DEF Describes
    <3>2. format # Unsupported /\ data # Missing
      BY <1>6, <1>7, <3>1
    <3>3. rate = format /\ body = data
      BY <1>8, <1>9, <3>1, <3>2
    <3> QED
      BY <1>11, <3>1, <3>2, <3>3
  <2>3. ReaderSound'
    BY <1>1, <2>1, <2>2 DEF ReaderSound
  <2> QED
    BY <1>1, <1>5, <2>1, <2>3 DEF ReaderInv
<1> QED
  BY <1>10, <1>11

LEMMA ReaderStep ==
  ASSUME ReaderInv, WavStep
  PROVE  ReaderInv'
BY FromWavStep, HeaderCutStep, EndOfFileStep, ChunkStep DEF WavStep

\* Steps of others, by which no file changes while it is read.
LEMMA ReaderStays ==
  ASSUME ReaderInv, UNCHANGED wavVars
  PROVE  ReaderInv'
<1>1. UNCHANGED <<file, reading, pass, offset, format, data>>
  BY DEF wavVars
<1> QED
  BY <1>1 DEF ReaderInv, WavTypeOK, ChunksFit, WalkedSoFar, NoneOf, IsFirst, ReaderSound

-----------------------------------------------------------------------------
(***************************************************************************)
(* Requests.                                                               *)
(***************************************************************************)
LEMMA RpcFields ==
  ASSUME NEW r \in Rpc
  PROVE  /\ DOMAIN r = {"route", "document", "version", "id"}
         /\ r["route"] = "mcp" /\ r["document"] = "json"
BY DEF Rpc

LEMMA PlainCalls ==
  ASSUME NEW x \in With([method : Methods, params : {"good", "bad", "unknown"}])
  PROVE  /\ "spoken" \notin DOMAIN x /\ x.route = "mcp" /\ x.document = "json"
         /\ x.method \in Methods /\ x.params \in {"good", "bad", "unknown"}
<1>1. PICK r \in Rpc, m \in [method : Methods, params : {"good", "bad", "unknown"}] :
         x = Joined(r, m)
  BY DEF With
<1>2. /\ DOMAIN m = {"method", "params"} /\ m["method"] \in Methods
      /\ m["params"] \in {"good", "bad", "unknown"}
  OBVIOUS
<1>3. DOMAIN x = {"route", "document", "version", "id", "method", "params"}
  BY <1>1, <1>2, RpcFields DEF Joined
<1>4. /\ x["route"] = "mcp" /\ x["document"] = "json" /\ x["method"] = m["method"]
      /\ x["params"] = m["params"]
  BY <1>1, <1>2, RpcFields DEF Joined
<1> QED
  BY <1>2, <1>3, <1>4

LEMMA ToolCalls ==
  ASSUME NEW x \in With([method : {"tools/call"}, tool : Tools, params : {"good", "bad"}])
  PROVE  /\ "spoken" \notin DOMAIN x /\ x.route = "mcp" /\ x.document = "json"
         /\ x.method = "tools/call" /\ x.tool \in Tools /\ x.params \in {"good", "bad"}
<1>1. PICK r \in Rpc, m \in [method : {"tools/call"}, tool : Tools, params : {"good", "bad"}] :
         x = Joined(r, m)
  BY DEF With
<1>2. /\ DOMAIN m = {"method", "tool", "params"} /\ m["tool"] \in Tools
      /\ m["method"] = "tools/call" /\ m["params"] \in {"good", "bad"}
  OBVIOUS
<1>3. DOMAIN x = {"route", "document", "version", "id", "method", "tool", "params"}
  BY <1>1, <1>2, RpcFields DEF Joined
<1>4. /\ x["route"] = "mcp" /\ x["document"] = "json" /\ x["tool"] = m["tool"]
      /\ x["method"] = m["method"] /\ x["params"] = m["params"]
  BY <1>1, <1>2, RpcFields DEF Joined
<1> QED
  BY <1>2, <1>3, <1>4

Transcribing ==
  [method : {"tools/call"}, tool : {"transcribe_audio"}, params : {"good", "bad"},
   media : {"wav", "pcm", "other"}, rate : Rates \cup {Absent, OddRate}]

LEMMA TranscribeCalls ==
  ASSUME NEW x \in With(Transcribing)
  PROVE  /\ "spoken" \notin DOMAIN x /\ "media" \in DOMAIN x
         /\ x.route = "mcp" /\ x.document = "json" /\ x.method = "tools/call"
         /\ x.tool = "transcribe_audio" /\ x.params \in {"good", "bad"}
         /\ x.media \in {"wav", "pcm", "other"} /\ x.rate \in RateTexts
<1>1. PICK r \in Rpc, m \in Transcribing : x = Joined(r, m)
  BY DEF With
<1>2. /\ DOMAIN m = {"method", "tool", "params", "media", "rate"} /\ m["tool"] = "transcribe_audio"
      /\ m["method"] = "tools/call" /\ m["params"] \in {"good", "bad"}
      /\ m["media"] \in {"wav", "pcm", "other"} /\ m["rate"] \in Rates \cup {Absent, OddRate}
  BY DEF Transcribing
<1>3. DOMAIN x = {"route", "document", "version", "id",
                  "method", "tool", "params", "media", "rate"}
  BY <1>1, <1>2, RpcFields DEF Joined
<1>4. /\ x["route"] = "mcp" /\ x["document"] = "json" /\ x["tool"] = m["tool"]
      /\ x["method"] = m["method"] /\ x["params"] = m["params"]
      /\ x["media"] = m["media"] /\ x["rate"] = m["rate"]
  BY <1>1, <1>2, RpcFields DEF Joined
<1> QED
  BY <1>2, <1>3, <1>4 DEF RateTexts

Synthesizing ==
  [method : {"tools/call"}, tool : {"synthesize_speech"}, params : {"good", "bad"},
   format : {"wav", "pcm", "other"}]

LEMMA SynthesizeCalls ==
  ASSUME NEW x \in With(Synthesizing)
  PROVE  /\ "spoken" \notin DOMAIN x /\ "media" \notin DOMAIN x
         /\ x.route = "mcp" /\ x.document = "json" /\ x.method = "tools/call"
         /\ x.tool = "synthesize_speech" /\ x.params \in {"good", "bad"}
         /\ x.format \in {"wav", "pcm", "other"}
<1>1. PICK r \in Rpc, m \in Synthesizing : x = Joined(r, m)
  BY DEF With
<1>2. /\ DOMAIN m = {"method", "tool", "params", "format"}
      /\ m["tool"] = "synthesize_speech" /\ m["format"] \in {"wav", "pcm", "other"}
      /\ m["method"] = "tools/call" /\ m["params"] \in {"good", "bad"}
  BY DEF Synthesizing
<1>3. DOMAIN x = {"route", "document", "version", "id", "method", "tool", "params", "format"}
  BY <1>1, <1>2, RpcFields DEF Joined
<1>4. /\ x["route"] = "mcp" /\ x["document"] = "json" /\ x["tool"] = m["tool"]
      /\ x["format"] = m["format"] /\ x["method"] = m["method"] /\ x["params"] = m["params"]
  BY <1>1, <1>2, RpcFields DEF Joined
<1> QED
  BY <1>2, <1>3, <1>4

ShapedCall(r) ==
  /\ r.method \in Methods \cup {"tools/call"} /\ r.params \in {"good", "bad", "unknown"}
  /\ r.method = "tools/call" =>
       /\ r.params \in {"good", "bad"}
       /\ r.tool \in Tools \cup {"transcribe_audio", "synthesize_speech"}
       /\ r.tool = "transcribe_audio" =>
            /\ "media" \in DOMAIN r /\ r.media \in {"wav", "pcm", "other"}
            /\ r.rate \in RateTexts
       /\ r.tool = "synthesize_speech" =>
            r.format \in {"wav", "pcm", "other"} /\ "media" \notin DOMAIN r

\* What every request of a client has, by its route.
Shaped(r) ==
  /\ "spoken" \notin DOMAIN r
  /\ r.route \in {"native", "openai", "speech", "mcp"}
  /\ r.route = "native" => r.parameter \in RateTexts /\ r.rate \in RateTexts
  /\ r.route = "speech" =>
       /\ r.body \in {"json", "syntax", "shape", "untyped", "large"}
       /\ r.format \in {"wav", "pcm", "other"}
  /\ r.route = "mcp" => r.document \in {"json", "syntax", "shape"}
  /\ r.route = "mcp" /\ r.document = "json" => ShapedCall(r)

LEMMA RequestShapes ==
  ASSUME NEW r \in Requests
  PROVE  Shaped(r)
<1>1. CASE r \in Native
  BY <1>1 DEF Native, Shaped
<1>2. CASE r \in Form
  BY <1>2 DEF Form, Shaped
<1>3. CASE r \in Speech
  BY <1>3 DEF Speech, Shaped
<1>4. CASE r \in [route : {"mcp"}, document : {"syntax", "shape"}]
  BY <1>4 DEF Shaped
<1>5. CASE r \in With([method : Methods, params : {"good", "bad", "unknown"}])
  BY <1>5, PlainCalls DEF Shaped, ShapedCall, Methods
<1>6. CASE r \in With([method : {"tools/call"}, tool : Tools, params : {"good", "bad"}])
  BY <1>6, ToolCalls DEF Shaped, ShapedCall, Tools
<1>7. CASE r \in With(Transcribing)
  BY <1>7, TranscribeCalls DEF Shaped, ShapedCall
<1>8. CASE r \in With(Synthesizing)
  BY <1>8, SynthesizeCalls DEF Shaped, ShapedCall
<1> QED
  BY <1>1, <1>2, <1>3, <1>4, <1>5, <1>6, <1>7, <1>8 DEF Requests, Mcp, Transcribing, Synthesizing

-----------------------------------------------------------------------------
(***************************************************************************)
(* Answers: each kind of them, once normalized, is a faithful one.         *)
(***************************************************************************)
LEMMA Codes ==
  /\ DOMAIN HttpCodes = {400, 413, 415, 429, 500, 503, 504}
  /\ HttpCodes[400] = "invalid_request" /\ HttpCodes[413] = "invalid_request"
  /\ HttpCodes[415] = "invalid_request" /\ HttpCodes[429] = "overloaded"
  /\ HttpCodes[503] = "cancelled" /\ HttpCodes[504] = "deadline_exceeded"
  /\ HttpCodes[500] = "engine_error"
BY DEF HttpCodes

LEMMA PlainIsFaithful ==
  ASSUME NEW r, NEW s \in {400, 413, 415, 422}, r.route = "mcp" => s = 413
  PROVE  /\ Faithful(r, "none", Normalized(Plain(s)))
         /\ Normalized(Plain(s)).status \in {400, 413, 415}
         /\ s \in {400, 413} => Normalized(Plain(s)).status \in {400, 413}
<1> DEFINE a == Normalized(Plain(s))
           t == IF s = 422 THEN 400 ELSE s
<1>1. Plain(s).shape = "text" /\ Plain(s).status = s
  BY DEF Plain
<1>2. a = Json(t, "invalid_request")
  BY <1>1 DEF Normalized, Invalid
<1>3. /\ a.status = t /\ a.shape = "json" /\ a.code = "invalid_request"
      /\ t \in {400, 413, 415} /\ (r.route = "mcp" => t = 413) /\ (s \in {400, 413} => t = s)
  BY <1>2 DEF Json
<1>4. "none" \notin Outcomes
  BY DEF Outcomes
<1> HIDE DEF a, t
<1>5. HttpCodes[t] = "invalid_request" /\ t \in DOMAIN HttpCodes /\ t \notin {200, 202}
  BY <1>3, Codes
<1>6. Faithful(r, "none", a)
  BY <1>3, <1>4, <1>5 DEF Faithful
<1> QED
  BY <1>3, <1>6 DEF a

LEMMA RefusalIsFaithful ==
  ASSUME NEW r, r.route # "mcp", NEW outcome, NEW o
  PROVE  /\ Faithful(r, outcome, Normalized(Refusal(o)))
         /\ Refusal(o).status \in {400, 429, 500, 503, 504}
         /\ Refusal("invalid").status = 400
<1> DEFINE a == Refusal(o)
<1>1. a \in {Json(400, "invalid_request"), Json(429, "overloaded"), Json(503, "cancelled"),
             Json(504, "deadline_exceeded"), Json(500, "engine_error")}
  BY DEF Refusal, Invalid
<1> HIDE DEF a
<1>2. /\ a.shape = "json" /\ a.status \in {400, 429, 500, 503, 504}
      /\ a.code = HttpCodes[a.status]
  BY <1>1, Codes DEF Json
<1>3. Normalized(a) = a
  BY <1>2 DEF Normalized
<1>4. Faithful(r, outcome, a)
  BY <1>2, Codes DEF Faithful
<1>5. Refusal("invalid").status = 400
  BY DEF Refusal, Invalid, Json
<1> QED
  BY <1>2, <1>3, <1>4, <1>5 DEF a

LEMMA InvalidIsFaithful ==
  ASSUME NEW r, r.route # "mcp", NEW outcome
  PROVE  Faithful(r, outcome, Normalized(Invalid)) /\ Invalid.status = 400
<1>1. Refusal("invalid") = Invalid
  BY DEF Refusal
<1> QED
  BY <1>1, RefusalIsFaithful

LEMMA RpcIsFaithful ==
  ASSUME NEW r, r.route = "mcp", ~IsNotification(r),
         NEW outcome, NEW code \in RpcErrors \cup {"result"}, NEW id,
         id = IF r.document = "json" THEN r.id ELSE "absent",
         code = "result" => IsUnderstood(r) /\ (WantsEngine(r) => outcome = "done"),
         IsUnderstood(r) /\ ~WantsEngine(r) => code = "result",
         outcome \in Outcomes => code \in {"-32602", "-32800", "-32003"}
  PROVE  Faithful(r, outcome, Normalized(RpcAnswer(code, id)))
<1> DEFINE a == RpcAnswer(code, id)
<1>1. /\ a.status = 200 /\ a.shape = "json" /\ a.code = code
      /\ a.id = IF id = "given" THEN "given" ELSE "null"
  BY DEF RpcAnswer
<1> HIDE DEF a
<1>2. Normalized(a) = a
  BY <1>1 DEF Normalized
<1>3. a.id = IF r.document = "json" /\ r.id = "given" THEN "given" ELSE "null"
  BY <1>1
<1>4. RpcFaithful(r, outcome, a)
  BY <1>1, <1>3 DEF RpcFaithful
<1>5. Faithful(r, outcome, a)
  BY <1>1, <1>4 DEF Faithful
<1> QED
  BY <1>2, <1>5 DEF a

LEMMA AcknowledgementIsFaithful ==
  ASSUME NEW r, r.route = "mcp", IsNotification(r)
  PROVE  Faithful(r, "none", Normalized([Unanswered EXCEPT !.status = 202, !.shape = "empty"]))
<1> DEFINE a == [Unanswered EXCEPT !.status = 202, !.shape = "empty"]
<1>1. a.status = 202 /\ a.shape = "empty"
  BY DEF Unanswered
<1> HIDE DEF a
<1>2. Normalized(a) = a
  BY <1>1 DEF Normalized
<1>3. Faithful(r, "none", a)
  BY <1>1 DEF Faithful, Outcomes
<1> QED
  BY <1>2, <1>3 DEF a

LEMMA SuccessIsFaithful ==
  ASSUME NEW r, r.route # "mcp", NEW shape \in {"json", "audio"}
  PROVE  Faithful(r, "done",
           Normalized([status |-> 200, shape |-> shape, code |-> "none", id |-> "absent"]))
<1> DEFINE a == [status |-> 200, shape |-> shape, code |-> "none", id |-> "absent"]
<1>1. Normalized(a) = a /\ a.status = 200
  BY DEF Normalized
<1> QED
  BY <1>1 DEF Faithful, Outcomes

-----------------------------------------------------------------------------
(***************************************************************************)
(* Files: what clients upload and what the service writes.                 *)
(***************************************************************************)
AllFit(f) ==
  \A i \in 1..Len(f.chunks) : f.chunks[i].from + ChunkHeader + f.chunks[i].size <= f.length

LEMMA RecordingFiles ==
  ASSUME NEW f \in Recordings \cup {NoFile}
  PROVE  f \in Files /\ Ordered(f.chunks) /\ AllFit(f)
<1>1. f \in [length : Nat, declared : Nat, riff : BOOLEAN, chunks : {<<>>}]
  <2>1. CASE f = NoFile
    BY <2>1 DEF NoFile
  <2>2. ASSUME NEW n \in PcmLengths, f = Raw(n)
        PROVE  f \in [length : Nat, declared : Nat, riff : BOOLEAN, chunks : {<<>>}]
    BY <2>2, ApiAssumption DEF Raw, NoFile
  <2>3. ASSUME NEW n \in Lengths, f = Upload(n, MaxU32, TRUE)
        PROVE  f \in [length : Nat, declared : Nat, riff : BOOLEAN, chunks : {<<>>}]
    <3>1. n \in Nat /\ MaxU32 \in Nat
      BY WavAssumption
    <3> QED
      BY <2>3, <3>1 DEF Upload
  <2>4. ASSUME NEW n \in Lengths \ 0..7, NEW riff \in BOOLEAN, f = Upload(n, n - 8, riff)
        PROVE  f \in [length : Nat, declared : Nat, riff : BOOLEAN, chunks : {<<>>}]
    <3>1. n \in Nat /\ n - 8 \in Nat
      BY WavAssumption
    <3> QED
      BY <2>4, <3>1 DEF Upload
  <2>5. ASSUME f \in Uploads
        PROVE  \/ \E n \in Lengths : f = Upload(n, MaxU32, TRUE)
               \/ \E n \in Lengths \ 0..7, riff \in BOOLEAN : f = Upload(n, n - 8, riff)
    <3>1. ASSUME f \in {Upload(n, MaxU32, TRUE) : n \in Lengths}
          PROVE  \E n \in Lengths : f = Upload(n, MaxU32, TRUE)
      BY <3>1, Zenon
    <3>2. ASSUME f \in {Upload(n, n - 8, TRUE) : n \in Lengths \ 0..7}
          PROVE  \E n \in Lengths \ 0..7 : f = Upload(n, n - 8, TRUE)
      BY <3>2, Zenon
    <3>3. ASSUME f \in {Upload(n, n - 8, FALSE) : n \in Lengths \ 0..7}
          PROVE  \E n \in Lengths \ 0..7 : f = Upload(n, n - 8, FALSE)
      BY <3>3, Zenon
    <3>4. TRUE \in BOOLEAN /\ FALSE \in BOOLEAN
      OBVIOUS
    <3>5. \/ f \in {Upload(n, MaxU32, TRUE) : n \in Lengths}
          \/ f \in {Upload(n, n - 8, TRUE) : n \in Lengths \ 0..7}
          \/ f \in {Upload(n, n - 8, FALSE) : n \in Lengths \ 0..7}
      BY <2>5, Zenon DEF Uploads
    <3> QED
      BY <3>1, <3>2, <3>3, <3>4, <3>5, Zenon
  <2>6. f = NoFile \/ f \in Uploads \/ \E n \in PcmLengths : f = Raw(n)
    BY DEF Recordings
  <2> QED
    BY <2>1, <2>2, <2>3, <2>4, <2>5, <2>6
<1>2. f.chunks \in Seq(Headers) /\ Len(f.chunks) = 0
  <2>1. f.chunks = <<>>
    BY <1>1
  <2> QED
    BY <2>1, EmptySeq
<1>3. f \in Files
  BY <1>1, <1>2 DEF Files
<1>4. Ordered(f.chunks)
  BY <1>1, <1>2 DEF Ordered, Tiled
<1> QED
  BY <1>2, <1>3, <1>4 DEF AllFit

LEMMA WrittenFiles ==
  ASSUME NEW rate \in Rates, NEW samples \in Nat, CanWrite(samples)
  PROVE  LET f == Written(rate, samples) IN
         /\ f \in Files /\ Ordered(f.chunks) /\ AllFit(f)
         /\ Len(f.chunks) = 2 /\ f.length = 44 + 2 * samples
         /\ f.declared + 8 = f.length /\ f.riff = TRUE
         /\ After(f.chunks[2]) = f.length /\ f.chunks[2].size = 2 * samples
         /\ f.chunks[1].rate = rate /\ f.chunks[1].size = FormatSize
         /\ FirstOf("fmt", f.chunks) = {f.chunks[1]}
         /\ FirstOf("data", f.chunks) = {f.chunks[2]}
<1> DEFINE f == Written(rate, samples)
           n == 2 * samples
           c == [id |-> "fmt", size |-> 16, rate |-> rate, from |-> 12]
           d == [id |-> "data", size |-> n, rate |-> Unsupported, from |-> 36]
           cs == <<c, d>>
<1>1. f = [length |-> 44 + n, declared |-> 36 + n, riff |-> TRUE, chunks |-> cs]
  BY DEF Written, FormatSize, RiffHeader
<1>2. n \in 0..MaxU32 /\ 16 \in 0..MaxU32 /\ (n % 2) = 0 /\ n \in Nat
  <2>1. n \in Nat /\ (n % 2) = 0
    OBVIOUS
  <2>2. n <= MaxU32 - 36 /\ MaxU32 \in Nat
    BY WavAssumption DEF CanWrite
  <2> QED
    BY <2>1, <2>2
<1> HIDE DEF n
<1>3. c \in Headers /\ d \in Headers
  BY <1>2 DEF Headers, HeadersAt
<1>4. After(c) = 36 /\ After(d) = 44 + n
  BY <1>2 DEF After, ChunkHeader
<1>5. c.id = "fmt" /\ d.id = "data" /\ c.from = 12 /\ d.from = 36 /\ d.size = n /\ c.size = 16
      /\ c.rate = rate
  OBVIOUS
<1> HIDE DEF c, d
<1>6. cs \in Seq(Headers) /\ Len(cs) = 2 /\ cs[1] = c /\ cs[2] = d /\ cs # <<>>
  BY <1>3
<1> HIDE DEF cs
<1>7. f \in Files
  BY <1>1, <1>2, <1>6 DEF Files
<1> HIDE DEF f
<1>8. Ordered(cs)
  <2>1. \A i, j \in 1..2 : i < j => i = 1 /\ j = 2
    OBVIOUS
  <2>2. \A i \in 1..(2 - 1) : i = 1
    OBVIOUS
  <2> QED
    BY <1>4, <1>5, <1>6, <2>1, <2>2 DEF Ordered, Tiled, RiffHeader
<1>9. AllFit(f)
  <2>1. f.chunks = cs /\ f.length = 44 + n
    BY <1>1
  <2>2. \A i \in 1..2 : i = 1 \/ i = 2
    OBVIOUS
  <2>3. /\ c.from + 8 + c.size <= 44 + n
        /\ d.from + 8 + d.size <= 44 + n
    BY <1>2, <1>5
  <2>4. \A i \in 1..Len(cs) : cs[i].from + 8 + cs[i].size <= 44 + n
    BY <1>6, <2>2, <2>3
  <2> QED
    BY <2>1, <2>4 DEF AllFit, ChunkHeader
<1>10. FirstOf("fmt", cs) = {c} /\ FirstOf("data", cs) = {d}
  <2>1. 1 \in 1..Len(cs) /\ 2 \in 1..Len(cs) /\ \A k \in 1..(2 - 1) : k = 1
    BY <1>6
  <2>2. \A k \in 1..(1 - 1) : FALSE
    OBVIOUS
  <2>3. FirstOf("fmt", cs) = {cs[1]}
    BY <1>5, <1>6, <1>8, <2>1, <2>2, FirstFound
  <2>4. FirstOf("data", cs) = {cs[2]}
    BY <1>5, <1>6, <1>8, <2>1, FirstFound
  <2> QED
    BY <1>6, <2>3, <2>4
<1> QED
  BY <1>1, <1>2, <1>4, <1>5, <1>6, <1>7, <1>8, <1>9, <1>10 DEF FormatSize, n, f

\* Written, then read: the verdict of Describes.
LEMMA WrittenDescribes ==
  ASSUME NEW rate \in Rates, NEW samples \in Nat \ {0}, CanWrite(samples),
         NEW r \in Rates, NEW body
  PROVE  LET f == Written(rate, samples)
             own == Body(f.chunks[2])
         IN  /\ own.size = 2 * samples
             /\ own \in {Body(f.chunks[i]) : i \in 1..Len(f.chunks)}
             /\ Describes(f, r, body) =>
                  /\ r = rate /\ body = own
                  /\ f.length <= MaxEncodedBytes /\ Admits(2 * samples, rate, samples)
             /\ f.length <= MaxEncodedBytes /\ Admits(2 * samples, rate, samples) =>
                  Describes(f, rate, own)
<1> DEFINE f == Written(rate, samples)
           cs == f.chunks
           own == Body(cs[2])
<1>1. /\ f \in Files /\ Ordered(cs) /\ AllFit(f)
      /\ Len(cs) = 2 /\ f.length = 44 + 2 * samples
      /\ f.declared + 8 = f.length /\ f.riff = TRUE
      /\ After(cs[2]) = f.length /\ cs[2].size = 2 * samples
      /\ cs[1].rate = rate /\ cs[1].size = FormatSize
      /\ FirstOf("fmt", cs) = {cs[1]}
      /\ FirstOf("data", cs) = {cs[2]}
  BY WrittenFiles
<1> HIDE DEF f
<1>2. own.size = 2 * samples
  BY <1>1 DEF Body
<1>3. 2 \in 1..Len(cs) /\ cs # <<>>
  BY <1>1, EmptySeq
<1>4. AcceptsPcm(2 * samples, rate) <=> Admits(2 * samples, rate, samples)
  <2>1. (2 * samples) % 2 = 0 /\ (2 * samples) \div 2 = samples /\ 2 * samples > 0
    OBVIOUS
  <2> QED
    BY <2>1 DEF AcceptsPcm
<1>5. ASSUME Describes(f, r, body)
      PROVE  /\ r = rate /\ body = own
             /\ f.length <= MaxEncodedBytes /\ Admits(2 * samples, rate, samples)
  <2>1. r = rate /\ body = own /\ AcceptsPcm(body.size, r) /\ f.length <= MaxEncodedBytes
    BY <1>1, <1>5 DEF Describes
  <2> QED
    BY <1>2, <1>4, <2>1
<1>6. ASSUME f.length <= MaxEncodedBytes, Admits(2 * samples, rate, samples)
      PROVE  Describes(f, rate, own)
  <2>1. AcceptsPcm(own.size, rate)
    BY <1>2, <1>4, <1>6
  <2>2. cs[2].from + ChunkHeader + cs[2].size <= f.length
    BY <1>1, <1>3 DEF AllFit
  <2>3. f.length <= After(cs[2])
    BY <1>1
  <2>4. Tiled(cs) /\ FormatSize >= FormatSize
    BY <1>1 DEF Ordered, FormatSize
  <2> QED
    BY <1>1, <1>3, <1>6, <2>1, <2>2, <2>3, <2>4 DEF Describes
<1> QED
  BY <1>2, <1>3, <1>5, <1>6 DEF f

-----------------------------------------------------------------------------
(***************************************************************************)
(* Requests that post speech back.                                         *)
(***************************************************************************)
Postable == {"wav", "pcm"}

LEMMA SpeechFacts ==
  ASSUME NEW kind \in Postable, NEW rate \in Rates, NEW samples \in Outputs
  PROVE  LET r == Spoken(kind, rate, samples) IN
         /\ r.route = "native" /\ r.media = kind /\ r.parameter = Absent
         /\ r.rate = (IF kind = "wav" THEN Absent ELSE rate)
         /\ "spoken" \in DOMAIN r /\ r.spoken.rate = rate /\ r.spoken.samples = samples
         /\ r \notin Requests
<1> DEFINE r == Spoken(kind, rate, samples)
<1>1. r = [route |-> "native", media |-> kind, parameter |-> Absent,
           rate |-> IF kind = "wav" THEN Absent ELSE rate,
           spoken |-> [rate |-> rate, samples |-> samples]]
  BY DEF Spoken
<1> HIDE DEF r
<1>2. "spoken" \in DOMAIN r
  BY <1>1
<1>3. r \notin Requests
  BY <1>2, RequestShapes DEF Shaped
<1> QED
  BY <1>1, <1>2, <1>3 DEF r

\* What is uploaded is what was written, in length and in samples.
LEMMA SpeechFile ==
  ASSUME NEW kind \in Postable, NEW rate \in Rates, NEW samples \in Outputs,
         kind = "wav" => CanWrite(samples)
  PROVE  LET f == Encoded(kind, rate, samples) IN
         /\ samples \in Nat \ {0} /\ rate \in Nat
         /\ f \in Files /\ Ordered(f.chunks) /\ AllFit(f)
         /\ f.length = (IF kind = "wav" THEN 44 + 2 * samples ELSE 2 * samples)
         /\ AcceptsPcm(2 * samples, rate) <=> Admits(2 * samples, rate, samples)
         /\ Len(f.chunks) \in Nat
<1>0. samples \in Nat \ {0} /\ rate \in Nat
  BY ApiAssumption, WavAssumption
<1>1. AcceptsPcm(2 * samples, rate) <=> Admits(2 * samples, rate, samples)
  <2>1. (2 * samples) % 2 = 0 /\ (2 * samples) \div 2 = samples /\ 2 * samples > 0
    BY <1>0
  <2> QED
    BY <2>1 DEF AcceptsPcm
<1>2. CASE kind = "wav"
  <2>1. Encoded(kind, rate, samples) = Written(rate, samples)
    BY <1>2 DEF Encoded
  <2>2. /\ Written(rate, samples) \in Files /\ Ordered(Written(rate, samples).chunks)
        /\ AllFit(Written(rate, samples)) /\ Written(rate, samples).length = 44 + 2 * samples
        /\ Len(Written(rate, samples).chunks) = 2
    BY <1>0, <1>2, WrittenFiles
  <2> QED
    BY <1>0, <1>1, <1>2, <2>1, <2>2
<1>3. CASE kind = "pcm"
  <2> DEFINE n == 2 * samples
  <2>1. n \in Nat
    BY <1>0
  <2>2. Encoded(kind, rate, samples) = Raw(n)
    BY <1>3 DEF Encoded
  <2> HIDE DEF n
  <2>3. Raw(n).length = n /\ Raw(n).chunks = <<>>
    BY DEF Raw, NoFile
  <2>4. Raw(n) \in Files
    <3>1. <<>> \in Seq(Headers)
      BY EmptySeq
    <3> QED
      BY <2>1, <3>1 DEF Files, Raw, NoFile
  <2>5. Len(Raw(n).chunks) = 0
    BY <2>3
  <2>6. Ordered(Raw(n).chunks) /\ AllFit(Raw(n))
    BY <2>3, <2>5 DEF Ordered, Tiled, AllFit
  <2> QED
    BY <1>0, <1>1, <1>3, <2>2, <2>3, <2>4, <2>5, <2>6 DEF n
<1> QED
  BY <1>2, <1>3 DEF Postable

\* Whoever is under way is a client's request or speech on its way back.
LEMMA UnderWay ==
  ASSUME BatchInv, at # "idle"
  PROVE  \/ request \in Requests /\ Shaped(request)
         \/ \E kind \in Postable, rate \in Rates, samples \in Outputs :
              UploadIsSpeech(kind, rate, samples) /\ request.route = "native"
BY RequestShapes, SpeechFacts DEF BatchInv, RequestIsOneOf, Postable, UploadIsSpeech

-----------------------------------------------------------------------------
(***************************************************************************)
(* Steps that leave request and file alone.                                *)
(***************************************************************************)
LEMMA SettledRequest ==
  ASSUME BatchInv, UNCHANGED <<request, file>>, at # "idle",
         \A kind \in Postable, rate \in Rates, samples \in Outputs :
            UploadIsSpeech(kind, rate, samples) => UploadIsSpeech(kind, rate, samples)'
  PROVE  RequestIsOneOf'
<1>1. CASE request \in Requests
  BY <1>1 DEF RequestIsOneOf
<1>2. CASE \E kind \in Postable, rate \in Rates, samples \in Outputs :
             UploadIsSpeech(kind, rate, samples)
  BY <1>2 DEF RequestIsOneOf, Postable
<1> QED
  BY <1>1, <1>2 DEF BatchInv, RequestIsOneOf, Postable

Deciding == {"received", "fields", "reading"}

\* The handler refuses or acknowledges: no engine has been called.
LEMMA Replies ==
  ASSUME BatchInv, at \in Deciding, at' = "replied",
         UNCHANGED <<wavVars, request, form, engine>>,
         Faithful(request, "none", Normalized(answer')),
         \A kind \in Postable, rate \in Rates, samples \in Outputs :
            UploadIsSpeech(kind, rate, samples) =>
              ~Uploadable(rate, samples) /\ answer'.status \in {400, 413}
  PROVE  BatchInv'
<1>1. UNCHANGED <<file, reading, pass, offset, format, data>>
  BY DEF wavVars
<1>2. engine = NotCalled
  BY DEF BatchInv, InStep, Deciding
<1>3. engine.given = "nothing" /\ engine.outcome = "none"
  BY <1>2 DEF NotCalled
<1>4. ReaderInv'
  BY ReaderStays DEF BatchInv
<1>5. TypeOK'
  BY <1>4 DEF BatchInv, TypeOK, ReaderInv
<1>6. EngineGetsWhatWasSent' /\ AnswersAreFaithful' /\ SpeechIsKept'
  BY <1>3 DEF EngineGetsWhatWasSent, AnswersAreFaithful, SpeechIsKept
<1>7. InStep'
  BY <1>3 DEF InStep
<1>8. RequestIsOneOf'
  <2>1. ASSUME NEW kind \in Postable, NEW rate \in Rates, NEW samples \in Outputs,
               UploadIsSpeech(kind, rate, samples)
        PROVE  UploadIsSpeech(kind, rate, samples)'
    <3>1. ~Uploadable(rate, samples) /\ answer'.status \in {400, 413}
      BY <2>1
    <3>2. ~Uploadable(rate, samples)'
      BY <1>1, <3>1 DEF Uploadable
    <3> QED
      BY <1>1, <1>3, <2>1, <3>1, <3>2 DEF UploadIsSpeech
  <2> QED
    BY <1>1, <2>1, SettledRequest DEF Deciding
<1> QED
  BY <1>4, <1>5, <1>6, <1>7, <1>8 DEF BatchInv

IsCall == request.document = "json" /\ request.id = "given" /\ request.version

LetThrough ==
  request.route = "mcp" => IsCall /\ IsUnderstood(request) /\ WantsEngine(request)

LEMMA CallsAudio ==
  ASSUME BatchInv, at \in Deciding, at' = "engine", NEW bytes \in Nat, NEW rate \in Rates,
         engine' = [NotCalled EXCEPT !.given = "audio", !.bytes = bytes, !.rate = rate],
         UNCHANGED <<wavVars, request, form, answer>>,
         \/ Claims("pcm", rate) /\ bytes = file.length /\ AcceptsPcm(bytes, rate)
         \/ /\ \E any \in RateTexts : Claims("wav", any)
            /\ bytes = data.size /\ Describes(file, rate, data),
         LetThrough,
         \A kind \in Postable, own \in Rates, samples \in Outputs :
            UploadIsSpeech(kind, own, samples) =>
              Uploadable(own, samples) /\ rate = own /\ bytes = 2 * samples
  PROVE  BatchInv'
<1>1. UNCHANGED <<file, reading, pass, offset, format, data>>
  BY DEF wavVars
<1>2. engine' = [given |-> "audio", bytes |-> bytes, rate |-> rate, outcome |-> "none",
                 samples |-> 0]
  BY DEF NotCalled
<1>3. /\ engine'.given = "audio" /\ engine'.bytes = bytes /\ engine'.rate = rate
      /\ engine'.outcome = "none"
  BY DEF NotCalled
<1>4. ReaderInv'
  BY ReaderStays DEF BatchInv
<1>5. TypeOK'
  <2>1. engine' \in [given : {"nothing", "audio", "text"}, bytes : Nat, rate : Rates \cup {0},
                     outcome : Outcomes \cup {"none", "done"}, samples : Nat]
    BY <1>2
  <2> QED
    BY <1>4, <2>1 DEF BatchInv, TypeOK, ReaderInv
<1>6. EngineGetsWhatWasSent'
  BY <1>1, <1>3 DEF EngineGetsWhatWasSent, Claims, IsTool, LetThrough, IsCall
<1>7. AnswersAreFaithful'
  BY DEF AnswersAreFaithful
<1>8. SpeechIsKept'
  BY <1>1, <1>3 DEF BatchInv, SpeechIsKept, Deciding
<1>9. InStep'
  BY <1>3 DEF InStep, LetThrough
<1>10. RequestIsOneOf'
  <2>1. ASSUME NEW kind \in Postable, NEW own \in Rates, NEW samples \in Outputs,
               UploadIsSpeech(kind, own, samples)
        PROVE  UploadIsSpeech(kind, own, samples)'
    <3>1. Uploadable(own, samples) /\ rate = own /\ bytes = 2 * samples
      BY <2>1
    <3>2. Uploadable(own, samples)' /\ ReadBack(own, samples)'
      BY <1>1, <1>3, <3>1 DEF Uploadable, ReadBack
    <3> QED
      BY <1>1, <2>1, <3>2 DEF UploadIsSpeech
  <2> QED
    BY <1>1, <2>1, SettledRequest DEF Deciding
<1> QED
  BY <1>4, <1>5, <1>6, <1>7, <1>8, <1>9, <1>10 DEF BatchInv

LEMMA CallsText ==
  ASSUME BatchInv, at = "received", at' = "engine",
         engine' = [NotCalled EXCEPT !.given = "text", !.bytes = 0, !.rate = 0],
         UNCHANGED <<wavVars, request, form, answer>>,
         request \in Requests, request.format \in {"wav", "pcm"}, ~HasRecording(request),
         LetThrough
  PROVE  BatchInv'
<1>1. UNCHANGED <<file, reading, pass, offset, format, data>>
  BY DEF wavVars
<1>2. engine' = [given |-> "text", bytes |-> 0, rate |-> 0, outcome |-> "none", samples |-> 0]
  BY DEF NotCalled
<1>3. engine'.given = "text" /\ engine'.outcome = "none"
  BY DEF NotCalled
<1>4. ReaderInv'
  BY ReaderStays DEF BatchInv
<1>5. TypeOK'
  <2>1. engine' \in [given : {"nothing", "audio", "text"}, bytes : Nat, rate : Rates \cup {0},
                     outcome : Outcomes \cup {"none", "done"}, samples : Nat]
    BY <1>2
  <2> QED
    BY <1>4, <2>1 DEF BatchInv, TypeOK, ReaderInv
<1>6. EngineGetsWhatWasSent' /\ AnswersAreFaithful'
  BY <1>3 DEF EngineGetsWhatWasSent, AnswersAreFaithful, LetThrough, IsCall
<1>7. file = NoFile /\ reading = "idle"
  BY DEF BatchInv, SpeechIsKept, InStep
<1>8. SpeechIsKept'
  BY <1>1, <1>7 DEF SpeechIsKept
<1>9. InStep'
  BY <1>1, <1>3, <1>7 DEF InStep, LetThrough
<1>10. RequestIsOneOf'
  BY DEF RequestIsOneOf
<1> QED
  BY <1>4, <1>5, <1>6, <1>8, <1>9, <1>10 DEF BatchInv

LEMMA BeginsReading ==
  ASSUME BatchInv, at \in {"received", "fields"}, at' = "reading",
         UNCHANGED <<wavVars, request, form, engine, answer>>,
         \E any \in RateTexts : Claims("wav", any), LetThrough,
         \A kind \in Postable, own \in Rates, samples \in Outputs :
            UploadIsSpeech(kind, own, samples) => kind = "wav" /\ file.length <= ExtractorLimit
  PROVE  BatchInv'
<1>1. UNCHANGED <<file, reading, pass, offset, format, data>>
  BY DEF wavVars
<1>2. engine = NotCalled
  BY DEF BatchInv, InStep
<1>3. engine.given = "nothing" /\ engine.outcome = "none"
  BY <1>2 DEF NotCalled
<1>4. ReaderInv'
  BY ReaderStays DEF BatchInv
<1>5. TypeOK'
  BY <1>4 DEF BatchInv, TypeOK, ReaderInv
<1>6. EngineGetsWhatWasSent' /\ AnswersAreFaithful'
  BY <1>3 DEF EngineGetsWhatWasSent, AnswersAreFaithful
<1>7. SpeechIsKept'
  BY <1>1, <1>3 DEF BatchInv, SpeechIsKept
<1>8. InStep'
  BY <1>2, <1>3 DEF InStep, LetThrough, Claims, IsTool, NotCalled
<1>9. RequestIsOneOf'
  <2>1. ASSUME NEW kind \in Postable, NEW own \in Rates, NEW samples \in Outputs,
               UploadIsSpeech(kind, own, samples)
        PROVE  UploadIsSpeech(kind, own, samples)'
    BY <1>1, <2>1 DEF UploadIsSpeech
  <2> QED
    BY <1>1, <2>1, SettledRequest
<1> QED
  BY <1>4, <1>5, <1>6, <1>7, <1>8, <1>9 DEF BatchInv

-----------------------------------------------------------------------------
(***************************************************************************)
(* The handlers, from the request to the audio.                            *)
(***************************************************************************)
HandlerLeaves == UNCHANGED <<request, form, reading, pass, offset, format, data>>

\* Raw audio within the limits of an upload is what ReadPcm accepts.
LEMMA PcmSpeech ==
  ASSUME BatchInv, NEW rate \in Rates, NEW samples \in Outputs,
         UploadIsSpeech("pcm", rate, samples), file.length <= ExtractorLimit
  PROVE  /\ file.length = 2 * samples
         /\ AcceptsPcm(file.length, rate) <=> Uploadable(rate, samples)
<1>1. /\ file.length = 2 * samples
      /\ AcceptsPcm(2 * samples, rate) <=> Admits(2 * samples, rate, samples)
  BY SpeechFile DEF UploadIsSpeech, Postable
<1>2. Admits(2 * samples, rate, samples) => 2 * samples <= MaxEncodedBytes
  BY DEF Admits
<1> QED
  BY <1>1, <1>2 DEF Uploadable

\* An error, for a call on its way to an engine or back.
LEMMA ErrorIsFaithful ==
  ASSUME request.route = "mcp", LetThrough, NEW outcome, NEW code \in RpcErrors,
         outcome \in Outcomes => code \in {"-32602", "-32800", "-32003"}
  PROVE  Faithful(request, outcome, Normalized(RpcAnswer(code, request.id)))
<1>1. /\ request.document = "json" /\ request.id = "given"
      /\ ~IsNotification(request) /\ WantsEngine(request)
  BY DEF LetThrough, IsCall, IsNotification
<1>2. code # "result"
  BY DEF RpcErrors
<1> QED
  BY <1>1, <1>2, RpcIsFaithful

LEMMA InvalidAudio ==
  ASSUME LetThrough, Fail("invalid")
  PROVE  /\ Faithful(request, "none", Normalized(answer'))
         /\ request.route # "mcp" => answer'.status = 400
<1>1. CASE request.route = "mcp"
  <2>1. answer' = RpcAnswer(RpcRefusal("invalid"), request.id)
    BY <1>1 DEF Fail, Reply
  <2>2. "none" \notin Outcomes /\ RpcRefusal("invalid") = "-32602"
    BY DEF Outcomes, RpcRefusal
  <2> QED
    BY <1>1, <2>1, <2>2, ErrorIsFaithful DEF RpcErrors
<1>2. CASE request.route # "mcp"
  <2>1. answer' = Refusal("invalid")
    BY <1>2 DEF Fail, Reply
  <2> QED
    BY <1>2, <2>1, RefusalIsFaithful
<1> QED
  BY <1>1, <1>2

LEMMA ReadPcmStep ==
  ASSUME BatchInv, at = "received" \/ at = "fields", HandlerLeaves, LetThrough,
         NEW rate, ReadPcm(rate), Claims("pcm", rate),
         \A kind \in Postable, own \in Rates, samples \in Outputs :
            UploadIsSpeech(kind, own, samples) =>
              kind = "pcm" /\ rate = own /\ file.length <= ExtractorLimit
  PROVE  BatchInv'
<1>0. file.length \in Nat
  BY DEF BatchInv, ReaderInv, WavTypeOK
<1>1. CASE AcceptsPcm(file.length, rate)
  <2>1. Call("audio", file.length, rate) /\ rate \in Rates
    BY <1>1 DEF ReadPcm, AcceptsPcm
  <2>2. ASSUME NEW kind \in Postable, NEW own \in Rates, NEW samples \in Outputs,
               UploadIsSpeech(kind, own, samples)
        PROVE  Uploadable(own, samples) /\ rate = own /\ file.length = 2 * samples
    BY <1>1, <2>2, PcmSpeech
  <2>3. UNCHANGED <<wavVars, request, form, answer>>
    BY <2>1 DEF Call, HandlerLeaves, wavVars
  <2> QED
    BY <1>0, <1>1, <2>1, <2>2, <2>3, CallsAudio DEF Call, Deciding
<1>2. CASE ~AcceptsPcm(file.length, rate)
  <2>1. Fail("invalid") /\ UNCHANGED <<file, engine>>
    BY <1>2 DEF ReadPcm
  <2>2. ASSUME NEW kind \in Postable, NEW own \in Rates, NEW samples \in Outputs,
               UploadIsSpeech(kind, own, samples)
        PROVE  ~Uploadable(own, samples) /\ answer'.status \in {400, 413}
    <3>1. ~Uploadable(own, samples)
      BY <1>2, <2>2, PcmSpeech
    <3>2. request.route = "native"
      BY <2>2, SpeechFacts DEF UploadIsSpeech
    <3> QED
      BY <2>1, <3>1, <3>2, InvalidAudio
  <2>3. Faithful(request, "none", Normalized(answer'))
    BY <2>1, InvalidAudio
  <2>4. UNCHANGED <<wavVars, request, form, engine>> /\ at' = "replied"
    BY <2>1 DEF Fail, Reply, HandlerLeaves, wavVars
  <2> QED
    BY <2>2, <2>3, <2>4, Replies DEF Deciding
<1> QED
  BY <1>1, <1>2

\* Invalid, for a request that is no speech.
LEMMA InvalidStep ==
  ASSUME BatchInv, at \in Deciding, Reply(Invalid), UNCHANGED <<wavVars, request, form, engine>>,
         request.route # "mcp",
         \A kind \in Postable, own \in Rates, samples \in Outputs :
            ~UploadIsSpeech(kind, own, samples)
  PROVE  BatchInv'
BY InvalidIsFaithful, Replies DEF Reply

LEMMA DecodeAudioStep ==
  ASSUME BatchInv, at = "received" \/ at = "fields", HandlerLeaves,
         request.route \in {"native", "openai"},
         NEW media, NEW parameter \in RateTexts, NEW rate \in RateTexts,
         DecodeAudio(media, parameter, rate),
         Claims(media, IF rate = Absent THEN parameter ELSE rate),
         \A kind \in Postable, own \in Rates, samples \in Outputs :
            UploadIsSpeech(kind, own, samples) =>
              /\ media = kind /\ rate = (IF kind = "wav" THEN Absent ELSE own)
              /\ file.length <= ExtractorLimit
  PROVE  BatchInv'
<1>0. LetThrough /\ request.route # "mcp"
  BY DEF LetThrough
<1>1. CASE media = "wav" /\ rate = Absent
  <2>1. ReadWav
    BY <1>1 DEF DecodeAudio
  <2>2. \E any \in RateTexts : Claims("wav", any)
    BY <1>1
  <2>3. UNCHANGED <<wavVars, request, form, engine, answer>> /\ at' = "reading"
    BY <2>1 DEF ReadWav, HandlerLeaves, wavVars
  <2>4. \A kind \in Postable, own \in Rates, samples \in Outputs :
           UploadIsSpeech(kind, own, samples) => kind = "wav" /\ file.length <= ExtractorLimit
    BY <1>1
  <2> QED
    BY <1>0, <2>2, <2>3, <2>4, BeginsReading
<1>2. CASE media = "pcm" /\ rate # Absent
  <2>1. ReadPcm(rate) /\ Claims("pcm", rate)
    BY <1>2 DEF DecodeAudio
  <2>2. ASSUME NEW kind \in Postable, NEW own \in Rates, NEW samples \in Outputs,
               UploadIsSpeech(kind, own, samples)
        PROVE  kind = "pcm" /\ rate = own /\ file.length <= ExtractorLimit
    BY <1>2, <2>2
  <2> QED
    BY <1>0, <2>1, <2>2, ReadPcmStep
<1>3. CASE media = "pcm" /\ rate = Absent
  <2>1. ReadPcm(parameter) /\ Claims("pcm", parameter)
    BY <1>3 DEF DecodeAudio
  <2>2. ASSUME NEW kind \in Postable, NEW own \in Rates, NEW samples \in Outputs,
               UploadIsSpeech(kind, own, samples)
        PROVE  FALSE
    <3>1. Absent \notin Rates
      BY ApiAssumption
    <3> QED
      BY <1>3, <2>2, <3>1
  <2> QED
    BY <1>0, <2>1, <2>2, ReadPcmStep
<1>4. CASE media \notin {"wav", "pcm"} \/ (media = "wav" /\ rate # Absent)
  <2>1. Refuse(Invalid)
    BY <1>4 DEF DecodeAudio
  <2>2. ASSUME NEW kind \in Postable, NEW own \in Rates, NEW samples \in Outputs,
               UploadIsSpeech(kind, own, samples)
        PROVE  FALSE
    BY <1>4, <2>2 DEF Postable
  <2>3. UNCHANGED <<wavVars, request, form, engine>> /\ Reply(Invalid)
    BY <2>1 DEF Refuse, HandlerLeaves, wavVars
  <2> QED
    BY <1>0, <2>2, <2>3, InvalidStep DEF Deciding
<1> QED
  BY <1>1, <1>2, <1>3, <1>4

LEMMA NativeStep ==
  ASSUME BatchInv, NativeTranscription
  PROVE  BatchInv'
<1>1. at = "received" /\ request.route = "native" /\ HandlerLeaves
  BY DEF NativeTranscription, HandlerLeaves
<1>2. HasRecording(request) /\ (TooLarge <=> file.length > ExtractorLimit)
  BY <1>1 DEF TooLarge, HasRecording, BodySize
<1>3. file.length \in Nat /\ ExtractorLimit \in Nat
  BY ApiAssumption DEF BatchInv, ReaderInv, WavTypeOK
<1>4. ASSUME NEW kind \in Postable, NEW own \in Rates, NEW samples \in Outputs,
             UploadIsSpeech(kind, own, samples)
      PROVE  /\ request.media = kind
             /\ request.rate = (IF kind = "wav" THEN Absent ELSE own)
             /\ request.rate # Malformed
  <2>1. Malformed \notin Rates /\ Absent # Malformed
    BY ApiAssumption
  <2> QED
    BY <1>4, <2>1, SpeechFacts DEF UploadIsSpeech
<1>5. CASE TooLarge
  <2>1. Refuse(Plain(413))
    BY <1>5 DEF NativeTranscription
  <2>2. UNCHANGED <<wavVars, request, form, engine>> /\ at' = "replied" /\ answer' = Plain(413)
    BY <1>1, <2>1 DEF Refuse, Reply, HandlerLeaves, wavVars
  <2>3. Faithful(request, "none", Normalized(answer'))
    BY <1>1, <2>2, PlainIsFaithful
  <2>4. ASSUME NEW kind \in Postable, NEW own \in Rates, NEW samples \in Outputs,
               UploadIsSpeech(kind, own, samples)
        PROVE  ~Uploadable(own, samples) /\ answer'.status \in {400, 413}
    <3>1. ~(file.length <= ExtractorLimit)
      BY <1>2, <1>3, <1>5
    <3>2. answer'.status = 413
      BY <2>2 DEF Plain
    <3> QED
      BY <3>1, <3>2 DEF Uploadable
  <2> QED
    BY <1>1, <2>2, <2>3, <2>4, Replies DEF Deciding
<1>6. CASE ~TooLarge /\ (request.media = "absent" \/ request.rate = Malformed)
  <2>1. Refuse(Invalid)
    BY <1>6 DEF NativeTranscription
  <2>2. UNCHANGED <<wavVars, request, form, engine>> /\ Reply(Invalid)
    BY <1>1, <2>1 DEF Refuse, HandlerLeaves, wavVars
  <2>3. ASSUME NEW kind \in Postable, NEW own \in Rates, NEW samples \in Outputs,
               UploadIsSpeech(kind, own, samples)
        PROVE  FALSE
    BY <1>4, <1>6, <2>3 DEF Postable
  <2> QED
    BY <1>1, <2>2, <2>3, InvalidStep DEF Deciding
<1>7. CASE ~TooLarge /\ ~(request.media = "absent" \/ request.rate = Malformed)
  <2>1. DecodeAudio(request.media, request.parameter, request.rate)
    BY <1>7 DEF NativeTranscription
  <2>2. request.parameter \in RateTexts /\ request.rate \in RateTexts
    <3>1. CASE request \in Requests /\ Shaped(request)
      BY <1>1, <3>1 DEF Shaped
    <3>2. CASE \E kind \in Postable, rate \in Rates, samples \in Outputs :
                 UploadIsSpeech(kind, rate, samples)
      BY <3>2, SpeechFacts DEF UploadIsSpeech, RateTexts
    <3> QED
      BY <1>1, <3>1, <3>2, UnderWay
  <2>3. Claims(request.media, IF request.rate = Absent THEN request.parameter ELSE request.rate)
    BY <1>1 DEF Claims
  <2>4. ASSUME NEW kind \in Postable, NEW own \in Rates, NEW samples \in Outputs,
               UploadIsSpeech(kind, own, samples)
        PROVE  /\ request.media = kind
               /\ request.rate = (IF kind = "wav" THEN Absent ELSE own)
               /\ file.length <= ExtractorLimit
    BY <1>2, <1>3, <1>4, <1>7, <2>4
  <2> QED
    BY <1>1, <2>1, <2>2, <2>3, <2>4, DecodeAudioStep
<1> QED
  BY <1>5, <1>6, <1>7

\* Only the native endpoint takes speech back.
LEMMA OthersAreNoSpeech ==
  ASSUME BatchInv, request.route # "native" \/ at = "fields"
  PROVE  \A kind \in Postable, own \in Rates, samples \in Outputs :
            ~UploadIsSpeech(kind, own, samples)
BY SpeechFacts DEF UploadIsSpeech

\* The handler refuses a request that is no speech.
LEMMA RefuseStep ==
  ASSUME BatchInv, at \in Deciding, HandlerLeaves, NEW a, Refuse(a),
         Faithful(request, "none", Normalized(a)),
         request.route # "native" \/ at = "fields"
  PROVE  BatchInv'
<1>1. UNCHANGED <<wavVars, request, form, engine>> /\ at' = "replied" /\ answer' = a
  BY DEF Refuse, Reply, HandlerLeaves, wavVars
<1> QED
  BY <1>1, OthersAreNoSpeech, Replies

LEMMA FormOpens ==
  ASSUME BatchInv, at = "received", at' = "fields", request.route = "openai",
         UNCHANGED <<wavVars, request, form, engine, answer>>
  PROVE  BatchInv'
<1>1. UNCHANGED <<file, reading, pass, offset, format, data>>
  BY DEF wavVars
<1>2. engine = NotCalled /\ reading = "idle"
  BY DEF BatchInv, InStep
<1>3. engine.given = "nothing" /\ engine.outcome = "none"
  BY <1>2 DEF NotCalled
<1>4. ReaderInv'
  BY ReaderStays DEF BatchInv
<1>5. TypeOK'
  BY <1>4 DEF BatchInv, TypeOK, ReaderInv
<1>6. EngineGetsWhatWasSent' /\ AnswersAreFaithful'
  BY <1>3 DEF EngineGetsWhatWasSent, AnswersAreFaithful
<1>7. SpeechIsKept'
  BY <1>1, <1>3 DEF BatchInv, SpeechIsKept
<1>8. InStep'
  BY <1>1, <1>2 DEF InStep, NotCalled
<1>9. RequestIsOneOf'
  BY <1>1, SettledRequest, OthersAreNoSpeech
<1> QED
  BY <1>4, <1>5, <1>6, <1>7, <1>8, <1>9 DEF BatchInv

LEMMA OpenFormStep ==
  ASSUME BatchInv, OpenForm
  PROVE  BatchInv'
<1>1. at = "received" /\ request.route = "openai" /\ HandlerLeaves
  BY DEF OpenForm, HandlerLeaves
<1>2. CASE request.multipart
  <2>1. at' = "fields" /\ UNCHANGED <<wavVars, request, form, engine, answer>>
    BY <1>2 DEF OpenForm, wavVars
  <2> QED
    BY <1>1, <2>1, FormOpens
<1>3. CASE ~request.multipart
  <2>1. Refuse(Plain(400))
    BY <1>3 DEF OpenForm
  <2> QED
    BY <1>1, <2>1, PlainIsFaithful, RefuseStep DEF Deciding
<1> QED
  BY <1>2, <1>3

Fields ==
  [media : Media \cup {"none"}, parameter : RateTexts, rate : RateTexts, fields : 0..MaxFields]

LEMMA FormRoute ==
  ASSUME BatchInv, at = "fields"
  PROVE  request.route = "openai"
BY DEF BatchInv, InStep

\* A field is read and the form goes on, or the form is refused.
LEMMA FieldStep ==
  ASSUME BatchInv, Field,
         \/ form' \in Fields /\ UNCHANGED <<at, answer>>
         \/ Reply(Invalid) /\ UNCHANGED form
  PROVE  BatchInv'
<1>1. /\ at = "fields"
      /\ UNCHANGED <<file, request, engine, reading, pass, offset, format, data>>
      /\ UNCHANGED wavVars
  BY DEF Field, wavVars
<1>2. request.route = "openai"
  BY <1>1, FormRoute
<1>3. CASE form' \in Fields /\ UNCHANGED <<at, answer>>
  <2>1. engine.given = "nothing"
    BY <1>1 DEF BatchInv, InStep, NotCalled
  <2>2. ReaderInv'
    BY <1>1, ReaderStays DEF BatchInv
  <2>3. TypeOK'
    BY <1>1, <1>3, <2>2 DEF BatchInv, TypeOK, ReaderInv, Fields
  <2>4. EngineGetsWhatWasSent' /\ AnswersAreFaithful'
    BY <1>1, <1>3, <2>1 DEF EngineGetsWhatWasSent, AnswersAreFaithful
  <2>5. SpeechIsKept'
    BY <1>1, <1>3, <2>1 DEF BatchInv, SpeechIsKept
  <2>6. InStep'
    BY <1>1, <1>3, <2>1 DEF BatchInv, InStep, NotCalled
  <2>7. RequestIsOneOf'
    BY <1>1, SettledRequest, OthersAreNoSpeech
  <2> QED
    BY <2>2, <2>3, <2>4, <2>5, <2>6, <2>7 DEF BatchInv
<1>4. CASE Reply(Invalid) /\ UNCHANGED form
  BY <1>1, <1>2, <1>4, OthersAreNoSpeech, InvalidStep DEF Deciding
<1> QED
  BY <1>3, <1>4

LEMMA FormSteps ==
  ASSUME BatchInv, NEW media \in Media, NEW text \in RateTexts,
         FileField(media, text) \/ RateField(text) \/ ModelField \/ BadField
  PROVE  BatchInv'
<1>1. Field /\ form \in Fields /\ form.fields + 1 \in 0..MaxFields
  <2>1. Field /\ form.fields < MaxFields
    BY DEF FileField, RateField, ModelField, BadField, Field
  <2>2. form \in Fields
    BY DEF BatchInv, TypeOK, Fields
  <2>3. form.fields \in 0..MaxFields
    BY <2>2 DEF Fields
  <2> QED
    BY <2>1, <2>2, <2>3, ApiAssumption
<1>2. CASE FileField(media, text)
  <2>1. [form EXCEPT !.media = media, !.parameter = text, !.fields = @ + 1] \in Fields
    BY <1>1 DEF Fields
  <2> QED
    BY <1>1, <1>2, <2>1, FieldStep DEF FileField
<1>3. CASE RateField(text)
  <2>1. [form EXCEPT !.rate = text, !.fields = @ + 1] \in Fields
    BY <1>1 DEF Fields
  <2> QED
    BY <1>1, <1>3, <2>1, FieldStep DEF RateField
<1>4. CASE ModelField
  <2>1. [form EXCEPT !.fields = @ + 1] \in Fields
    BY <1>1 DEF Fields
  <2> QED
    BY <1>1, <1>4, <2>1, FieldStep DEF ModelField
<1>5. CASE BadField
  BY <1>1, <1>5, FieldStep DEF BadField
<1> QED
  BY <1>2, <1>3, <1>4, <1>5

LEMMA FormEndsStep ==
  ASSUME BatchInv, FormEnds
  PROVE  BatchInv'
<1>1. at = "fields" /\ HandlerLeaves
  BY DEF FormEnds, HandlerLeaves
<1>2. form \in Fields
  BY DEF BatchInv, TypeOK, Fields
<1>3. CASE form.media \in {"none", "absent"}
  <2>1. Refuse(Invalid)
    BY <1>3 DEF FormEnds
  <2> QED
    BY <1>1, <2>1, FormRoute, InvalidIsFaithful, RefuseStep DEF Deciding
<1>4. CASE form.media \notin {"none", "absent"}
  <2>1. DecodeAudio(form.media, form.parameter, form.rate)
    BY <1>4 DEF FormEnds
  <2>2. Claims(form.media, IF form.rate = Absent THEN form.parameter ELSE form.rate)
    BY <1>1, FormRoute DEF Claims
  <2>3. form.parameter \in RateTexts /\ form.rate \in RateTexts
    BY <1>2 DEF Fields
  <2> QED
    BY <1>1, <2>1, <2>2, <2>3, FormRoute, OthersAreNoSpeech, DecodeAudioStep
<1> QED
  BY <1>3, <1>4

\* Speech and documents come from clients.
LEMMA ClientRequest ==
  ASSUME BatchInv, at # "idle", request.route # "native"
  PROVE  request \in Requests /\ Shaped(request)
BY UnderWay

LEMMA SpeechRequestStep ==
  ASSUME BatchInv, SpeechRequest
  PROVE  BatchInv'
<1>1. at = "received" /\ request.route = "speech" /\ HandlerLeaves
  BY DEF SpeechRequest, HandlerLeaves
<1>2. /\ request \in Requests /\ request.format \in {"wav", "pcm", "other"}
      /\ request.body \in {"json", "syntax", "shape", "untyped", "large"}
  BY <1>1, ClientRequest DEF Shaped
<1>3. CASE request.body # "json" \/ ~(request.curated /\ request.format # "other")
  <2>1. Refuse(Plain(400)) \/ Refuse(Plain(422)) \/ Refuse(Plain(415)) \/ Refuse(Plain(413))
          \/ Refuse(Invalid)
    BY <1>2, <1>3 DEF SpeechRequest
  <2>2. \A s \in {400, 413, 415, 422} : Faithful(request, "none", Normalized(Plain(s)))
    BY <1>1, PlainIsFaithful
  <2>3. Faithful(request, "none", Normalized(Invalid))
    BY <1>1, InvalidIsFaithful
  <2> QED
    BY <1>1, <2>1, <2>2, <2>3, RefuseStep DEF Deciding
<1>4. CASE request.body = "json" /\ request.curated /\ request.format # "other"
  <2>1. Call("text", 0, 0)
    BY <1>4 DEF SpeechRequest
  <2>2. UNCHANGED <<wavVars, request, form, answer>> /\ at' = "engine"
    BY <1>1, <2>1 DEF Call, HandlerLeaves, wavVars
  <2>3. ~HasRecording(request) /\ LetThrough
    BY <1>1 DEF HasRecording, LetThrough
  <2> QED
    BY <1>1, <1>2, <1>4, <2>1, <2>2, <2>3, CallsText DEF Call
<1> QED
  BY <1>3, <1>4

\* An answer given at once to a call: a result if it was understood.
LEMMA AtOnce ==
  ASSUME BatchInv, at = "received", HandlerLeaves, request.route = "mcp", IsCall,
         NEW code \in RpcErrors \cup {"result"}, RpcRefuse(code),
         ~WantsEngine(request) => (IsUnderstood(request) <=> code = "result"),
         WantsEngine(request) => code # "result"
  PROVE  BatchInv'
<1>1. ~IsNotification(request) /\ request.document = "json" /\ "none" \notin Outcomes
  BY DEF IsCall, IsNotification, Outcomes
<1>2. Faithful(request, "none", Normalized(RpcAnswer(code, request.id)))
  BY <1>1, RpcIsFaithful
<1> QED
  BY <1>2, RefuseStep DEF RpcRefuse, Deciding

LEMMA CallToolStep ==
  ASSUME BatchInv, at = "received", HandlerLeaves, request.route = "mcp", IsCall,
         request.method = "tools/call", CallTool
  PROVE  BatchInv'
<1>1. /\ request \in Requests /\ ShapedCall(request)
      /\ request.document = "json" /\ request.id = "given" /\ request.version
  BY ClientRequest DEF Shaped, IsCall
<1>2. /\ request.params \in {"good", "bad"}
      /\ request.tool \in Tools \cup {"transcribe_audio", "synthesize_speech"}
  BY <1>1 DEF ShapedCall
<1>3. /\ IsUnderstood(request) <=> request.params = "good" /\ request.tool # "other"
      /\ WantsEngine(request) <=> request.tool \in {"transcribe_audio", "synthesize_speech"}
      /\ {"-32602"} \subseteq RpcErrors /\ "-32602" # "result"
  BY <1>1 DEF IsUnderstood, WantsEngine, RpcErrors
<1>8. request.params = "good" /\ request.tool \in {"transcribe_audio", "synthesize_speech"}
        => LetThrough
  BY <1>3 DEF LetThrough
<1>4. CASE request.params = "bad" \/ request.tool = "other"
  <2>1. RpcRefuse("-32602")
    BY <1>4 DEF CallTool
  <2> QED
    BY <1>3, <1>4, <2>1, AtOnce
<1>5. CASE request.params = "good" /\ request.tool \in {"list_models", "health"}
  <2>1. RpcRefuse("result")
    BY <1>5 DEF CallTool, Result, RpcRefuse
  <2> QED
    BY <1>3, <1>5, <2>1, AtOnce
<1>6. CASE request.params = "good" /\ request.tool = "transcribe_audio"
  <2>1. \/ RpcRefuse("-32602")
        \/ request.media = "pcm" /\ ReadPcm(request.rate)
        \/ request.media = "wav" /\ ReadWav
    BY <1>1, <1>2, <1>6 DEF CallTool, ShapedCall
  <2>2. request.media \in {"wav", "pcm"} => Claims(request.media, request.rate)
    BY <1>6 DEF Claims, IsTool
  <2>3. request.rate \in RateTexts
    BY <1>1, <1>6 DEF ShapedCall
  <2>4. CASE request.media = "pcm" /\ ReadPcm(request.rate)
    <3>1. Claims("pcm", request.rate)
      BY <2>2, <2>4
    <3> QED
      BY <1>6, <1>8, <2>4, <3>1, OthersAreNoSpeech, ReadPcmStep
  <2>5. CASE request.media = "wav" /\ ReadWav
    <3>1. \E any \in RateTexts : Claims("wav", any)
      BY <2>2, <2>3, <2>5
    <3>2. UNCHANGED <<wavVars, request, form, engine, answer>> /\ at' = "reading"
      BY <2>5 DEF ReadWav, HandlerLeaves, wavVars
    <3> QED
      BY <1>6, <1>8, <3>1, <3>2, OthersAreNoSpeech, BeginsReading
  <2> QED
    BY <1>3, <1>6, <2>1, <2>4, <2>5, AtOnce
<1>7. CASE request.params = "good" /\ request.tool = "synthesize_speech"
  <2>1. RpcRefuse("-32602") \/ (request.format # "other" /\ Call("text", 0, 0))
    BY <1>7 DEF CallTool
  <2>2. request.format \in {"wav", "pcm", "other"} /\ ~HasRecording(request)
    BY <1>1, <1>7 DEF ShapedCall, HasRecording
  <2>3. CASE request.format # "other" /\ Call("text", 0, 0)
    <3>1. UNCHANGED <<wavVars, request, form, answer>> /\ at' = "engine"
      BY <2>3 DEF Call, HandlerLeaves, wavVars
    <3> QED
      BY <1>1, <1>7, <1>8, <2>2, <2>3, <3>1, CallsText DEF Call
  <2> QED
    BY <1>3, <1>7, <2>1, <2>3, AtOnce
<1> QED
  BY <1>2, <1>4, <1>5, <1>6, <1>7 DEF Tools

LEMMA DispatchStep ==
  ASSUME BatchInv, at = "received", HandlerLeaves, request.route = "mcp", IsCall, Dispatch
  PROVE  BatchInv'
<1>1. /\ request \in Requests /\ ShapedCall(request)
      /\ request.document = "json" /\ request.id = "given" /\ request.version
  BY ClientRequest DEF Shaped, IsCall
<1>2. CASE request.method = "tools/call"
  <2>1. CallTool
    BY <1>2 DEF Dispatch
  <2> QED
    BY <1>2, <2>1, CallToolStep
<1>3. CASE request.method \in Methods
  <2>1. request.params \in {"good", "bad", "unknown"}
    BY <1>1 DEF ShapedCall
  <2>2. CASE \/ request.method \in {"ping", "tools/list", "resources/list"}
             \/ request.method \in {"initialize", "resources/read"} /\ request.params = "good"
    <3>1. RpcRefuse("result")
      BY <2>2 DEF Dispatch, Result, RpcRefuse
    <3>2. ~WantsEngine(request) /\ IsUnderstood(request)
      BY <1>1, <2>2 DEF WantsEngine, IsUnderstood
    <3> QED
      BY <3>1, <3>2, AtOnce
  <2>3. CASE /\ request.method \notin {"ping", "tools/list", "resources/list"}
             /\ request.method \in {"initialize", "resources/read"} => request.params # "good"
    <3>1. RpcRefuse("-32600") \/ RpcRefuse("-32602") \/ RpcRefuse("-32002") \/ RpcRefuse("-32601")
      BY <1>3, <2>1, <2>3 DEF Dispatch, Methods
    <3>2. ~WantsEngine(request) /\ ~IsUnderstood(request)
      BY <1>3, <2>3 DEF WantsEngine, IsUnderstood, Methods
    <3>3. {"-32600", "-32602", "-32002", "-32601"} \subseteq RpcErrors \ {"result"}
      BY DEF RpcErrors
    <3> QED
      BY <3>1, <3>2, <3>3, AtOnce
  <2> QED
    BY <2>2, <2>3
<1> QED
  BY <1>1, <1>2, <1>3 DEF ShapedCall

LEMMA HandleStep ==
  ASSUME BatchInv, Handle
  PROVE  BatchInv'
<1>1. at = "received" /\ request.route = "mcp" /\ HandlerLeaves
  BY DEF Handle, HandlerLeaves
<1>2. request.document \in {"json", "syntax", "shape"}
  BY <1>1, ClientRequest DEF Shaped
<1>3. ASSUME NEW a, Refuse(a), Faithful(request, "none", Normalized(a))
      PROVE  BatchInv'
  BY <1>1, <1>3, RefuseStep DEF Deciding
<1>4. "none" \notin Outcomes
  BY DEF Outcomes
<1>5. CASE TooLarge
  <2>1. Refuse(Plain(413))
    BY <1>5 DEF Handle
  <2> QED
    BY <1>3, <2>1, PlainIsFaithful
<1>6. CASE ~TooLarge /\ request.document # "json"
  <2>1. Refuse(RpcAnswer("-32700", "absent")) \/ Refuse(RpcAnswer("-32600", "absent"))
    BY <1>2, <1>6 DEF Handle
  <2>2. ~IsNotification(request) /\ ~IsUnderstood(request)
    BY <1>6 DEF IsNotification, IsUnderstood
  <2>3. {"-32700", "-32600"} \subseteq RpcErrors \ {"result"}
    BY DEF RpcErrors
  <2>4. \A code \in {"-32700", "-32600"} :
          Faithful(request, "none", Normalized(RpcAnswer(code, "absent")))
    BY <1>1, <1>4, <1>6, <2>2, <2>3, RpcIsFaithful
  <2> QED
    BY <1>3, <2>1, <2>4
<1>7. CASE ~TooLarge /\ request.document = "json" /\ ~request.version
  <2>1. Refuse(RpcAnswer("-32600", request.id))
    BY <1>7 DEF Handle, RpcRefuse
  <2>2. Faithful(request, "none", Normalized(RpcAnswer("-32600", request.id)))
    <3>1. ~IsNotification(request) /\ ~IsUnderstood(request)
      BY <1>7 DEF IsNotification, IsUnderstood
    <3>2. "-32600" \in RpcErrors \ {"result"}
      BY DEF RpcErrors
    <3> QED
      BY <1>1, <1>4, <1>7, <3>1, <3>2, RpcIsFaithful
  <2> QED
    BY <1>3, <2>1, <2>2
<1>8. CASE ~TooLarge /\ request.document = "json" /\ request.version /\ request.id # "given"
  <2>1. Refuse([Unanswered EXCEPT !.status = 202, !.shape = "empty"])
    BY <1>8 DEF Handle
  <2> QED
    BY <1>1, <1>3, <1>8, <2>1, AcknowledgementIsFaithful DEF IsNotification
<1>9. CASE ~TooLarge /\ request.document = "json" /\ request.version /\ request.id = "given"
  <2>1. Dispatch
    BY <1>9 DEF Handle
  <2> QED
    BY <1>1, <1>9, <2>1, DispatchStep DEF IsCall
<1> QED
  BY <1>5, <1>6, <1>7, <1>8, <1>9

-----------------------------------------------------------------------------
(***************************************************************************)
(* The reader at work, and its verdict.                                    *)
(***************************************************************************)
LEMMA NewFile ==
  ASSUME ReaderInv, reading = "idle", UNCHANGED <<reading, pass, offset, format, data>>,
         file' \in Files, Ordered(file'.chunks), AllFit(file')
  PROVE  ReaderInv'
<1>1. pass = 0 /\ Len(file'.chunks) \in Nat
  BY LenProperties DEF ReaderInv, Files
<1>2. WavTypeOK'
  BY <1>1 DEF ReaderInv, WavTypeOK, Files, Headers
<1>3. ChunksFit'
  BY DEF ChunksFit, Ordered, AllFit
<1> QED
  BY <1>1, <1>2, <1>3 DEF ReaderInv, ReaderSound

\* Whoever is read has a recording and has been let through.
LEMMA BeingRead ==
  ASSUME BatchInv, at = "reading"
  PROVE  /\ \E any \in RateTexts : Claims("wav", any)
         /\ LetThrough /\ engine = NotCalled /\ engine.given = "nothing"
         /\ request \in Requests => HasRecording(request)
<1>1. (\E any \in RateTexts : Claims("wav", any)) /\ LetThrough /\ engine = NotCalled
  BY DEF BatchInv, InStep, LetThrough, IsCall, IsUnderstood
<1>2. ASSUME request \in Requests
      PROVE  HasRecording(request)
  <2>1. Shaped(request)
    BY <1>2, RequestShapes
  <2> QED
    BY <1>1, <2>1 DEF Claims, IsTool, LetThrough, IsCall, HasRecording, Shaped, ShapedCall
<1> QED
  BY <1>1, <1>2 DEF NotCalled

\* Every chunk of what the service has written is known already.
LEMMA WrittenIsKnown ==
  ASSUME BatchInv, WavStep, NEW rate \in Rates, NEW samples \in Outputs,
         CanWrite(samples), file = Written(rate, samples)
  PROVE  UNCHANGED file
<1>0. samples \in Nat
  BY ApiAssumption
<1>1. Len(file.chunks) = 2 /\ After(file.chunks[2]) = file.length
  BY <1>0, WrittenFiles
<1>2. ASSUME NEW h, Chunk(h)
      PROVE  UNCHANGED file
  <2>1. reading = "chunks" /\ offset < file.length /\ Find(h)
    BY <1>2 DEF Chunk
  <2>2. pass \in 0..2 /\ WalkedSoFar /\ offset \in Nat /\ file.length \in Nat
    BY <1>1, <2>1 DEF BatchInv, ReaderInv, WavTypeOK
  <2>3. pass # 2
    BY <1>1, <2>1, <2>2 DEF WalkedSoFar
  <2> QED
    BY <1>1, <2>1, <2>2, <2>3 DEF Find
<1> QED
  BY <1>2 DEF WavStep, FromWav, HeaderCut, EndOfFile

LEMMA ReadStep ==
  ASSUME BatchInv, Read
  PROVE  BatchInv'
<1>1. at = "reading" /\ WavStep /\ UNCHANGED <<request, at, form, engine, answer>>
  BY DEF Read, apiVars
<1>2. ReaderInv'
  BY <1>1, ReaderStep DEF BatchInv
<1>3. TypeOK'
  BY <1>1, <1>2 DEF BatchInv, TypeOK, ReaderInv
<1>4. EngineGetsWhatWasSent' /\ AnswersAreFaithful'
  BY <1>1, BeingRead DEF EngineGetsWhatWasSent, AnswersAreFaithful
<1>5. SpeechIsKept'
  BY <1>1, BeingRead DEF SpeechIsKept
<1>6. InStep'
  BY <1>1, BeingRead DEF BatchInv, InStep, Claims, IsTool
<1>7. RequestIsOneOf'
  <2>1. CASE request \in Requests
    BY <1>1, <2>1 DEF RequestIsOneOf
  <2>2. ASSUME NEW kind \in Postable, NEW rate \in Rates, NEW samples \in Outputs,
               UploadIsSpeech(kind, rate, samples)
        PROVE  RequestIsOneOf'
    <3>1. kind = "wav" /\ CanWrite(samples) /\ file = Written(rate, samples)
      BY <1>1, <2>2 DEF UploadIsSpeech, Encoded
    <3>2. UNCHANGED file
      BY <1>1, <3>1, WrittenIsKnown
    <3>3. UploadIsSpeech(kind, rate, samples)'
      BY <1>1, <2>2, <3>2 DEF UploadIsSpeech
    <3> QED
      BY <3>3 DEF RequestIsOneOf, Postable
  <2> QED
    BY <1>1, <2>1, <2>2, UnderWay
<1> QED
  BY <1>2, <1>3, <1>4, <1>5, <1>6, <1>7 DEF BatchInv

LEMMA WavReadStep ==
  ASSUME BatchInv, WavRead
  PROVE  BatchInv'
<1>1. at = "reading" /\ HandlerLeaves /\ LetThrough /\ \E any \in RateTexts : Claims("wav", any)
  BY BeingRead DEF WavRead, HandlerLeaves
<1>2. ReaderSound /\ data.size \in Nat
  BY DEF BatchInv, ReaderInv, WavTypeOK
<1>3. ASSUME NEW kind \in Postable, NEW rate \in Rates, NEW samples \in Outputs,
             UploadIsSpeech(kind, rate, samples)
      PROVE  /\ file = Written(rate, samples) /\ CanWrite(samples) /\ samples \in Nat \ {0}
             /\ file.length <= ExtractorLimit /\ request.route = "native"
  BY <1>1, <1>3, SpeechFile, SpeechFacts DEF UploadIsSpeech, Encoded
<1>4. CASE reading = "accepted" /\ Call("audio", data.size, format)
  <2>1. Describes(file, format, data) /\ format \in Rates
    BY <1>2, <1>4 DEF ReaderSound, Describes, AcceptsPcm
  <2>2. ASSUME NEW kind \in Postable, NEW rate \in Rates, NEW samples \in Outputs,
               UploadIsSpeech(kind, rate, samples)
        PROVE  Uploadable(rate, samples) /\ format = rate /\ data.size = 2 * samples
    <3>1. /\ file = Written(rate, samples) /\ CanWrite(samples) /\ samples \in Nat \ {0}
          /\ file.length <= ExtractorLimit
      BY <1>3, <2>2
    <3>2. /\ format = rate /\ data.size = 2 * samples
          /\ file.length <= MaxEncodedBytes /\ Admits(2 * samples, rate, samples)
      BY <2>1, <3>1, WrittenDescribes
    <3> QED
      BY <3>1, <3>2 DEF Uploadable
  <2>3. UNCHANGED <<wavVars, request, form, answer>> /\ at' = "engine"
    BY <1>1, <1>4 DEF Call, HandlerLeaves, wavVars
  <2> QED
    BY <1>1, <1>2, <1>4, <2>1, <2>2, <2>3, CallsAudio DEF Call, Deciding
<1>5. CASE reading = "rejected" /\ Fail("invalid") /\ UNCHANGED <<file, engine>>
  <2>1. ASSUME NEW kind \in Postable, NEW rate \in Rates, NEW samples \in Outputs,
               UploadIsSpeech(kind, rate, samples)
        PROVE  ~Uploadable(rate, samples) /\ answer'.status \in {400, 413}
    <3>1. /\ file = Written(rate, samples) /\ CanWrite(samples) /\ samples \in Nat \ {0}
          /\ request.route = "native"
      BY <1>3, <2>1
    <3>2. DEFINE own == Body(file.chunks[2])
    <3>3. /\ own \in {Body(file.chunks[i]) : i \in 1..Len(file.chunks)}
          /\ file.length <= MaxEncodedBytes /\ Admits(2 * samples, rate, samples) =>
               Describes(file, rate, own)
      BY <3>1, WrittenDescribes
    <3>4. ~Describes(file, rate, own)
      <4>1. Len(file.chunks) = 2
        BY <3>1, WrittenFiles
      <4>2. file.chunks[2] \in {file.chunks[i] : i \in 1..Len(file.chunks)}
        BY <4>1
      <4> QED
        BY <1>2, <1>5, <4>2 DEF ReaderSound
    <3>5. answer'.status = 400
      BY <1>1, <1>5, <3>1, InvalidAudio
    <3> QED
      BY <3>3, <3>4, <3>5 DEF Uploadable
  <2>2. UNCHANGED <<wavVars, request, form, engine>> /\ at' = "replied"
    BY <1>1, <1>5 DEF Fail, Reply, HandlerLeaves, wavVars
  <2> QED
    BY <1>1, <1>5, <2>1, <2>2, InvalidAudio, Replies DEF Deciding
<1> QED
  BY <1>4, <1>5 DEF WavRead

-----------------------------------------------------------------------------
(***************************************************************************)
(* The engines return.                                                     *)
(***************************************************************************)
LEMMA EngineReturns ==
  ASSUME BatchInv, at = "engine", at' = "replied", NEW outcome \in Outcomes \cup {"done"},
         engine' = [engine EXCEPT !.outcome = outcome],
         UNCHANGED <<wavVars, request, form>>,
         Faithful(request, outcome, Normalized(answer'))
  PROVE  BatchInv'
<1>1. UNCHANGED <<file, reading, pass, offset, format, data>>
  BY DEF wavVars
<1>2. engine \in [given : {"nothing", "audio", "text"}, bytes : Nat, rate : Rates \cup {0},
                  outcome : Outcomes \cup {"none", "done"}, samples : Nat]
  BY DEF BatchInv, TypeOK
<1>3. /\ engine'.given = engine.given /\ engine'.bytes = engine.bytes
      /\ engine'.rate = engine.rate /\ engine'.samples = engine.samples
      /\ engine'.outcome = outcome
  BY <1>2
<1>4. ReaderInv'
  BY ReaderStays DEF BatchInv
<1>5. TypeOK'
  <2>1. engine' \in [given : {"nothing", "audio", "text"}, bytes : Nat, rate : Rates \cup {0},
                     outcome : Outcomes \cup {"none", "done"}, samples : Nat]
    BY <1>2
  <2> QED
    BY <1>4, <2>1 DEF BatchInv, TypeOK, ReaderInv
<1>6. EngineGetsWhatWasSent'
  BY <1>1, <1>3 DEF BatchInv, EngineGetsWhatWasSent, Claims, IsTool
<1>7. AnswersAreFaithful'
  BY DEF AnswersAreFaithful
<1>8. SpeechIsKept'
  BY <1>1, <1>3 DEF BatchInv, SpeechIsKept
<1>9. InStep'
  BY <1>1, <1>3 DEF BatchInv, InStep
<1>10. RequestIsOneOf'
  <2>1. ASSUME NEW kind \in Postable, NEW rate \in Rates, NEW samples \in Outputs,
               UploadIsSpeech(kind, rate, samples)
        PROVE  UploadIsSpeech(kind, rate, samples)'
    <3>1. Uploadable(rate, samples)' /\ ReadBack(rate, samples)'
      BY <1>1, <1>3, <2>1 DEF UploadIsSpeech, Uploadable, ReadBack
    <3> QED
      BY <1>1, <2>1, <3>1 DEF UploadIsSpeech
  <2> QED
    BY <1>1, <2>1, SettledRequest
<1> QED
  BY <1>4, <1>5, <1>6, <1>7, <1>8, <1>9, <1>10 DEF BatchInv

LEMMA WithEngine ==
  ASSUME BatchInv, at = "engine"
  PROVE  LetThrough
BY DEF BatchInv, InStep, LetThrough, IsCall, IsUnderstood

LEMMA EngineFailsStep ==
  ASSUME BatchInv, NEW outcome \in Outcomes, EngineFails(outcome)
  PROVE  BatchInv'
<1>1. at = "engine" /\ Fail(outcome)
  BY DEF EngineFails
<1>2. Faithful(request, outcome, Normalized(answer'))
  <2>1. CASE request.route = "mcp"
    <3>1. answer' = RpcAnswer(RpcRefusal(outcome), request.id)
      BY <1>1, <2>1 DEF Fail, Reply
    <3>2. RpcRefusal(outcome) \in {"-32602", "-32800", "-32003"}
      BY DEF RpcRefusal
    <3> QED
      BY <1>1, <2>1, <3>1, <3>2, WithEngine, ErrorIsFaithful DEF RpcErrors
  <2>2. CASE request.route # "mcp"
    <3>1. answer' = Refusal(outcome)
      BY <1>1, <2>2 DEF Fail, Reply
    <3> QED
      BY <2>2, <3>1, RefusalIsFaithful
  <2> QED
    BY <2>1, <2>2
<1> QED
  BY <1>1, <1>2, EngineReturns DEF EngineFails, Fail, Reply

\* What was asked for has been done.
LEMMA Success ==
  ASSUME BatchInv, at = "engine", NEW shape \in {"json", "audio"}, Succeed(shape)
  PROVE  Faithful(request, "done", Normalized(answer'))
<1>1. CASE request.route = "mcp"
  <2>1. answer' = RpcAnswer("result", request.id)
    BY <1>1 DEF Succeed, Reply
  <2>2. /\ request.document = "json" /\ ~IsNotification(request)
        /\ IsUnderstood(request) /\ "done" \notin Outcomes
    BY <1>1, WithEngine DEF LetThrough, IsCall, IsNotification, Outcomes
  <2> QED
    BY <1>1, <2>1, <2>2, RpcIsFaithful
<1>2. CASE request.route # "mcp"
  <2>1. answer' = [status |-> 200, shape |-> shape, code |-> "none", id |-> "absent"]
    BY <1>2 DEF Succeed, Reply
  <2> QED
    BY <1>2, <2>1, SuccessIsFaithful
<1> QED
  BY <1>1, <1>2

LEMMA TranscribedStep ==
  ASSUME BatchInv, Transcribed
  PROVE  BatchInv'
BY Success, EngineReturns DEF Transcribed, Succeed, Reply

LEMMA SynthesizedStep ==
  ASSUME BatchInv, NEW rate \in Rates, NEW samples \in Outputs, Synthesized(rate, samples)
  PROVE  BatchInv'
<1>1. /\ at = "engine" /\ engine.given = "text" /\ HandlerLeaves
      /\ engine' = [engine EXCEPT !.outcome = "done", !.rate = rate, !.samples = samples]
  BY DEF Synthesized, HandlerLeaves
<1>2. /\ UNCHANGED <<request, form, reading, pass, offset, format, data>>
      /\ samples \in Nat
  BY <1>1, ApiAssumption DEF HandlerLeaves
<1>3. /\ request \in Requests /\ request.format \in {"wav", "pcm"} /\ file = NoFile
      /\ reading = "idle" /\ LetThrough
  BY <1>1 DEF BatchInv, SpeechIsKept, InStep, LetThrough, IsCall, IsUnderstood
<1>4. /\ at' = "replied" /\ Faithful(request, "done", Normalized(answer'))
      /\ \/ file' = NoFile
         \/ /\ file' = Encoded(request.format, rate, samples)
            /\ request.format = "wav" => CanWrite(samples)
  <2>1. CASE Fail("engine") /\ UNCHANGED file
    <3>1. CASE request.route = "mcp"
      <4>1. answer' = RpcAnswer(RpcRefusal("engine"), request.id)
        BY <2>1, <3>1 DEF Fail, Reply
      <4>2. RpcRefusal("engine") \in RpcErrors /\ "done" \notin Outcomes
        BY DEF RpcRefusal, RpcErrors, Outcomes
      <4> QED
        BY <1>3, <2>1, <3>1, <4>1, <4>2, ErrorIsFaithful DEF Fail, Reply
    <3>2. CASE request.route # "mcp"
      <4>1. answer' = Refusal("engine")
        BY <2>1, <3>2 DEF Fail, Reply
      <4> QED
        BY <1>3, <2>1, <3>2, <4>1, RefusalIsFaithful DEF Fail, Reply
    <3> QED
      BY <3>1, <3>2
  <2>2. CASE request.route = "mcp" /\ Reply(RpcAnswer("-32003", request.id)) /\ UNCHANGED file
    <3>1. "-32003" \in RpcErrors /\ "done" \notin Outcomes
      BY DEF RpcErrors, Outcomes
    <3> QED
      BY <1>3, <2>2, <3>1, ErrorIsFaithful DEF Reply
  <2>3. CASE /\ Succeed("audio") /\ file' = Encoded(request.format, rate, samples)
             /\ request.format = "wav" => CanWrite(samples)
    BY <1>1, <2>3, Success DEF Succeed, Reply
  <2> QED
    BY <2>1, <2>2, <2>3 DEF Synthesized
<1>5. engine \in [given : {"nothing", "audio", "text"}, bytes : Nat, rate : Rates \cup {0},
                  outcome : Outcomes \cup {"none", "done"}, samples : Nat]
  BY DEF BatchInv, TypeOK
<1>6. /\ engine'.given = "text" /\ engine'.rate = rate /\ engine'.samples = samples
      /\ engine'.outcome = "done"
  BY <1>1, <1>5
<1>7. ReaderInv'
  <2>1. file' \in Files /\ Ordered(file'.chunks) /\ AllFit(file')
    BY <1>3, <1>4, RecordingFiles, SpeechFile DEF Postable
  <2> QED
    BY <1>2, <1>3, <2>1, NewFile DEF BatchInv
<1>8. TypeOK'
  <2>1. engine' \in [given : {"nothing", "audio", "text"}, bytes : Nat, rate : Rates \cup {0},
                     outcome : Outcomes \cup {"none", "done"}, samples : Nat]
    BY <1>1, <1>2, <1>5
  <2> QED
    BY <1>2, <1>4, <1>7, <2>1 DEF BatchInv, TypeOK, ReaderInv
<1>9. EngineGetsWhatWasSent' /\ AnswersAreFaithful'
  BY <1>2, <1>3, <1>4, <1>6 DEF EngineGetsWhatWasSent, AnswersAreFaithful, LetThrough, IsCall
<1>10. SpeechIsKept'
  BY <1>2, <1>3, <1>4, <1>6 DEF SpeechIsKept
<1>11. InStep'
  BY <1>2, <1>3, <1>4, <1>6 DEF InStep
<1>12. RequestIsOneOf'
  BY <1>2, <1>3 DEF RequestIsOneOf
<1> QED
  BY <1>7, <1>8, <1>9, <1>10, <1>11, <1>12 DEF BatchInv

-----------------------------------------------------------------------------
(***************************************************************************)
(* Answers go out, requests come in, and speech comes back.                *)
(***************************************************************************)
LEMMA NormalizeStep ==
  ASSUME BatchInv, Normalize
  PROVE  BatchInv'
<1>1. /\ at = "replied" /\ at' = "answered" /\ answer' = Normalized(answer)
      /\ UNCHANGED <<wavVars, request, form, engine>>
  BY DEF Normalize
<1>2. UNCHANGED <<file, reading, pass, offset, format, data>>
  BY <1>1 DEF wavVars
<1>3. ReaderInv'
  BY <1>1, ReaderStays DEF BatchInv
<1>4. TypeOK'
  BY <1>1, <1>3 DEF BatchInv, TypeOK, ReaderInv
<1>5. EngineGetsWhatWasSent'
  BY <1>1, <1>2 DEF BatchInv, EngineGetsWhatWasSent, Claims, IsTool
<1>6. AnswersAreFaithful'
  BY <1>1 DEF BatchInv, InStep, AnswersAreFaithful
<1>7. SpeechIsKept'
  BY <1>1, <1>2 DEF BatchInv, SpeechIsKept
<1>8. InStep'
  BY <1>1, <1>2 DEF BatchInv, InStep
<1>9. RequestIsOneOf'
  <2>1. answer.status \in {400, 413} => answer'.status \in {400, 413}
    <3>1. \/ Normalized(answer) = answer
          \/ answer.status \in {400, 422} /\ Normalized(answer) = Invalid
          \/ /\ answer.status \in {405, 413, 415}
             /\ Normalized(answer) = Json(answer.status, "invalid_request")
      BY DEF Normalized
    <3> QED
      BY <1>1, <3>1 DEF Invalid, Json
  <2>2. ASSUME NEW kind \in Postable, NEW rate \in Rates, NEW samples \in Outputs,
               UploadIsSpeech(kind, rate, samples)
        PROVE  UploadIsSpeech(kind, rate, samples)'
    <3>1. /\ Uploadable(rate, samples)' <=> Uploadable(rate, samples)
          /\ ReadBack(rate, samples)' <=> ReadBack(rate, samples)
      BY <1>1, <1>2 DEF Uploadable, ReadBack
    <3> QED
      BY <1>1, <1>2, <2>1, <2>2, <3>1 DEF UploadIsSpeech
  <2> QED
    BY <1>1, <1>2, <2>2, SettledRequest
<1> QED
  BY <1>3, <1>4, <1>5, <1>6, <1>7, <1>8, <1>9 DEF BatchInv

LEMMA SendStep ==
  ASSUME BatchInv, at = "idle", NEW r \in Requests,
         NEW f \in IF HasRecording(r) THEN Recordings ELSE {NoFile}, Send(r, f)
  PROVE  BatchInv'
<1>1. /\ request' = r /\ file' = f /\ at' = "received"
      /\ UNCHANGED <<reading, pass, offset, format, data, form, engine, answer>>
  BY DEF Send
<1>2. engine = NotCalled /\ reading = "idle"
  BY DEF BatchInv, InStep
<1>3. engine.given = "nothing" /\ engine.outcome = "none"
  BY <1>2 DEF NotCalled
<1>4. ReaderInv'
  <2>1. f \in Recordings \cup {NoFile}
    OBVIOUS
  <2> QED
    BY <1>1, <1>2, <2>1, RecordingFiles, NewFile DEF BatchInv
<1>5. TypeOK'
  BY <1>1, <1>4 DEF BatchInv, TypeOK, ReaderInv
<1>6. EngineGetsWhatWasSent' /\ AnswersAreFaithful'
  BY <1>1, <1>3 DEF EngineGetsWhatWasSent, AnswersAreFaithful
<1>7. SpeechIsKept'
  BY <1>1, <1>3 DEF SpeechIsKept
<1>8. InStep'
  BY <1>1, <1>2, <1>3 DEF InStep, NotCalled
<1>9. RequestIsOneOf'
  BY <1>1 DEF RequestIsOneOf
<1> QED
  BY <1>4, <1>5, <1>6, <1>7, <1>8, <1>9 DEF BatchInv

LEMMA ReturnStep ==
  ASSUME BatchInv, Return
  PROVE  BatchInv'
<1>1. /\ at = "answered" /\ engine.given = "text" /\ file # NoFile
      /\ request' = Spoken(request.format, engine.rate, engine.samples) /\ at' = "received"
      /\ engine' = NotCalled /\ answer' = Unanswered
      /\ UNCHANGED <<wavVars, form>>
      /\ UNCHANGED <<file, reading, pass, offset, format, data>>
  BY DEF Return, wavVars
<1>2. PICK kind \in Postable, rate \in Rates, samples \in Outputs :
         /\ request' = Spoken(kind, rate, samples)
         /\ file = Encoded(kind, rate, samples)
         /\ kind = "wav" => CanWrite(samples)
         /\ reading = "idle"
  BY <1>1 DEF BatchInv, SpeechIsKept, InStep, Postable
<1>3. engine'.given = "nothing" /\ engine'.outcome = "none"
  BY <1>1 DEF NotCalled
<1>4. ReaderInv'
  BY <1>1, ReaderStays DEF BatchInv
<1>5. TypeOK'
  <2>1. engine' \in [given : {"nothing", "audio", "text"}, bytes : Nat, rate : Rates \cup {0},
                     outcome : Outcomes \cup {"none", "done"}, samples : Nat]
    BY <1>1 DEF NotCalled
  <2> QED
    BY <1>1, <1>4, <2>1 DEF BatchInv, TypeOK, ReaderInv
<1>6. EngineGetsWhatWasSent' /\ AnswersAreFaithful'
  BY <1>1, <1>3 DEF EngineGetsWhatWasSent, AnswersAreFaithful
<1>7. SpeechIsKept'
  <2>1. request' \notin Requests
    BY <1>1, <1>2, SpeechFacts
  <2> QED
    BY <1>3, <2>1 DEF SpeechIsKept
<1>8. InStep'
  BY <1>1, <1>2, <1>3 DEF InStep, NotCalled
<1>9. RequestIsOneOf'
  <2>1. UploadIsSpeech(kind, rate, samples)'
    BY <1>1, <1>2 DEF UploadIsSpeech
  <2> QED
    BY <1>2, <2>1 DEF RequestIsOneOf, Postable
<1> QED
  BY <1>4, <1>5, <1>6, <1>7, <1>8, <1>9 DEF BatchInv

LEMMA NothingHappens ==
  ASSUME BatchInv, UNCHANGED vars
  PROVE  BatchInv'
<1>1. /\ UNCHANGED <<file, reading, pass, offset, format, data>> /\ UNCHANGED wavVars
      /\ UNCHANGED <<request, at, form, engine, answer>>
  BY DEF vars, wavVars, apiVars
<1>2. ReaderInv'
  BY <1>1, ReaderStays DEF BatchInv
<1>3. TypeOK'
  BY <1>1, <1>2 DEF BatchInv, TypeOK, ReaderInv
<1>4. EngineGetsWhatWasSent' /\ AnswersAreFaithful'
  BY <1>1 DEF BatchInv, EngineGetsWhatWasSent, AnswersAreFaithful, Claims, IsTool
<1>5. SpeechIsKept'
  BY <1>1 DEF BatchInv, SpeechIsKept
<1>6. InStep'
  BY <1>1 DEF BatchInv, InStep, Claims, IsTool
<1>7. RequestIsOneOf'
  BY <1>1 DEF BatchInv, RequestIsOneOf, UploadIsSpeech, Uploadable, ReadBack
<1> QED
  BY <1>2, <1>3, <1>4, <1>5, <1>6, <1>7 DEF BatchInv

-----------------------------------------------------------------------------
LEMMA BatchInvInit ==
  ASSUME Init
  PROVE  BatchInv
<1>1. /\ file = NoFile /\ reading = "idle" /\ pass = 0 /\ offset = 0
      /\ format = Unsupported /\ data = Missing
      /\ request = None /\ at = "idle"
      /\ form = EmptyForm /\ engine = NotCalled /\ answer = Unanswered
  BY DEF Init, WavInit, ApiInit
<1>2. engine.given = "nothing" /\ engine.outcome = "none"
  BY <1>1 DEF NotCalled
<1>3. file \in Files /\ Ordered(file.chunks) /\ AllFit(file) /\ Len(file.chunks) \in Nat
  BY <1>1, RecordingFiles, LenProperties DEF Files
<1>4. ReaderInv
  <2>1. WavTypeOK
    BY <1>1, <1>3 DEF WavTypeOK, Files, Headers, Missing
  <2>2. ChunksFit
    BY <1>3 DEF ChunksFit, Ordered, AllFit
  <2> QED
    BY <1>1, <2>1, <2>2 DEF ReaderInv, ReaderSound
<1>5. TypeOK
  <2>1. form \in Fields
    BY <1>1, ApiAssumption DEF Fields, EmptyForm, RateTexts
  <2>2. engine \in [given : {"nothing", "audio", "text"}, bytes : Nat, rate : Rates \cup {0},
                    outcome : Outcomes \cup {"none", "done"}, samples : Nat]
    BY <1>1 DEF NotCalled
  <2> QED
    BY <1>1, <1>4, <2>1, <2>2 DEF TypeOK, ReaderInv, Fields
<1>6. EngineGetsWhatWasSent /\ AnswersAreFaithful
  BY <1>1, <1>2 DEF EngineGetsWhatWasSent, AnswersAreFaithful
<1>7. SpeechIsKept /\ InStep /\ RequestIsOneOf
  BY <1>1, <1>2 DEF SpeechIsKept, InStep, RequestIsOneOf
<1> QED
  BY <1>4, <1>5, <1>6, <1>7 DEF BatchInv

LEMMA BatchInvNext ==
  ASSUME BatchInv, [Next]_vars
  PROVE  BatchInv'
<1>1. CASE at = "idle" /\ \E r \in Requests :
             \E f \in IF HasRecording(r) THEN Recordings ELSE {NoFile} : Send(r, f)
  BY <1>1, SendStep
<1>2. CASE HandlerStep
  <2>1. CASE NativeTranscription \/ OpenForm \/ FormEnds \/ SpeechRequest \/ Handle
    BY <2>1, NativeStep, OpenFormStep, FormEndsStep, SpeechRequestStep, HandleStep
  <2>2. CASE \E media \in Media, text \in RateTexts : FileField(media, text)
    BY <2>2, FormSteps
  <2>3. CASE (\E text \in RateTexts : RateField(text)) \/ ModelField \/ BadField
    <3>1. "wav" \in Media /\ Absent \in RateTexts
      BY DEF Media, RateTexts
    <3> QED
      BY <2>3, <3>1, FormSteps
  <2>4. CASE Read \/ WavRead \/ Normalize
    BY <2>4, ReadStep, WavReadStep, NormalizeStep
  <2> QED
    BY <1>2, <2>1, <2>2, <2>3, <2>4 DEF HandlerStep
<1>3. CASE EngineStep
  BY <1>3, EngineFailsStep, TranscribedStep, SynthesizedStep DEF EngineStep
<1>4. CASE Return
  BY <1>4, ReturnStep
<1>5. CASE UNCHANGED vars
  BY <1>5, NothingHappens
<1> QED
  BY <1>1, <1>2, <1>3, <1>4, <1>5 DEF Next

(***************************************************************************)
(* The inductive invariant of the batch endpoints: reader, handlers,       *)
(* engines and answers are in step, whatever is sent.                      *)
(***************************************************************************)
THEOREM BatchInvariant == Spec => []BatchInv
<1>1. Init => BatchInv
  BY BatchInvInit
<1>2. BatchInv /\ [Next]_vars => BatchInv'
  BY BatchInvNext
<1> QED
  BY <1>1, <1>2, PTL DEF Spec

(***************************************************************************)
(* decode_audio and decode_rpc_audio: what reaches the recognizer is what  *)
(* was sent, at the rate it came with, and never for a notification.       *)
(***************************************************************************)
THEOREM AudioReachesTheEngine == Spec => []EngineGetsWhatWasSent
<1>1. BatchInv => EngineGetsWhatWasSent
  BY DEF BatchInv
<1> QED
  BY <1>1, BatchInvariant, PTL

(***************************************************************************)
(* from_wav accepts the WAV files and nothing else, for files of any       *)
(* number of chunks.                                                       *)
(***************************************************************************)
THEOREM ReaderAcceptsWavFiles == Spec => []ReaderSound
<1>1. BatchInv => ReaderSound
  BY DEF BatchInv, ReaderInv
<1> QED
  BY <1>1, BatchInvariant, PTL

(***************************************************************************)
(* Whichever layer refuses a request, the answer is a JSON error with the  *)
(* code of its status, and MCP answers each call under its id.             *)
(***************************************************************************)
THEOREM EveryAnswerIsFaithful == Spec => []AnswersAreFaithful
<1>1. BatchInv => AnswersAreFaithful
  BY DEF BatchInv
<1> QED
  BY <1>1, BatchInvariant, PTL

(***************************************************************************)
(* to_wav and from_wav, and the raw format, agree: speech that is posted   *)
(* back is read at its own rate, with as many samples, or is too large.    *)
(***************************************************************************)
THEOREM SpeechRoundTrip == Spec => []SpeechReadsBack
<1>1. BatchInv => SpeechReadsBack
  <2> SUFFICES ASSUME BatchInv, at = "answered", IsSpoken
               PROVE  LET rate == request.spoken.rate
                          samples == request.spoken.samples
                      IN  IF Uploadable(rate, samples) THEN ReadBack(rate, samples)
                          ELSE engine.given = "nothing" /\ answer.status \in {400, 413}
    BY DEF SpeechReadsBack
  <2>1. request \notin Requests
    BY RequestShapes DEF Shaped, IsSpoken
  <2>2. PICK kind \in Postable, rate \in Rates, samples \in Outputs :
               UploadIsSpeech(kind, rate, samples)
    BY <2>1, UnderWay
  <2>3. request.spoken.rate = rate /\ request.spoken.samples = samples
    BY <2>2, SpeechFacts DEF UploadIsSpeech
  <2> QED
    BY <2>2, <2>3 DEF UploadIsSpeech
<1> QED
  BY <1>1, BatchInvariant, PTL
=============================================================================
