----------------------------- MODULE WavReader -----------------------------
(***************************************************************************)
(* Reading and writing WAV files.  A file is its length, what its RIFF     *)
(* header says, and the chunk headers a reader finds; what a reader finds  *)
(* at an offset nobody has read before can be anything, because two        *)
(* headers on the way of the reader never overlap.  Offsets are of type    *)
(* usize and chunk sizes of type u32.                                      *)
(***************************************************************************)
EXTENDS Integers, Sequences

CONSTANTS
  MaxU32,           \* u32::MAX
  MaxUsize,         \* usize::MAX
  MaxEncodedBytes,  \* AudioLimits.max_encoded_bytes
  MaxDurationMs,    \* AudioLimits.max_duration_ms
  Rates,            \* SUPPORTED_SAMPLE_RATES
  Unsupported,      \* the content of a fmt chunk that is not mono PCM16
  Lengths,          \* lengths of the files clients send
  Sizes             \* sizes found in chunk headers

ASSUME WavAssumption ==
  /\ {MaxU32, MaxUsize, MaxEncodedBytes, MaxDurationMs} \subseteq Nat
  /\ MaxU32 <= MaxUsize /\ MaxEncodedBytes < MaxUsize
  /\ Rates \subseteq Nat \ {0} /\ Unsupported \notin Rates
  /\ Lengths \subseteq 0..MaxUsize
  /\ Sizes \subseteq 0..MaxU32

VARIABLES
  file,     \* the file: length, declared, riff, and the chunks known so far
  reading,  \* "idle", "chunks", "accepted" or "rejected"
  pass,     \* chunk headers read in this pass
  offset,   \* offset of from_wav
  format,   \* the rate of the first fmt chunk
  data      \* where the first data chunk is

wavVars == <<file, reading, pass, offset, format, data>>

RiffHeader == 12
ChunkHeader == 8
FormatSize == 16
Missing == [from |-> 0, size |-> 0]   \* no data chunk ends before byte 20

\* Only the content of fmt chunks is told apart.
HeadersAt(offsets, sizes) ==
  [id : {"fmt"}, size : sizes, rate : Rates \cup {Unsupported}, from : offsets]
    \cup [id : {"data", "other"}, size : sizes, rate : {Unsupported}, from : offsets]

Admits(bytes, rate, samples) ==
  bytes <= MaxEncodedBytes /\ samples * 1000 <= rate * MaxDurationMs

\* from_pcm16_le, of a given length.
AcceptsPcm(bytes, rate) ==
  rate \in Rates /\ bytes > 0 /\ bytes % 2 = 0 /\ Admits(bytes, rate, bytes \div 2)

NoFile == [length |-> 0, declared |-> 0, riff |-> FALSE, chunks |-> <<>>]

Upload(n, declared, riff) ==
  [length |-> n, declared |-> declared, riff |-> riff, chunks |-> <<>>]

\* Clients' files: good headers, lengths that do not add up, wrong magic numbers.
Uploads ==
  {Upload(n, MaxU32, TRUE) : n \in Lengths}
    \cup {Upload(n, n - 8, TRUE) : n \in Lengths \ 0..7}
    \cup {Upload(n, n - 8, FALSE) : n \in Lengths \ 0..7}

WavInit ==
  /\ file = NoFile
  /\ reading = "idle" /\ pass = 0 /\ offset = 0
  /\ format = Unsupported /\ data = Missing

-----------------------------------------------------------------------------
WellBegun(f) ==
  /\ f.length >= RiffHeader /\ f.riff
  /\ f.length <= MaxEncodedBytes
  /\ f.declared + 8 <= MaxUsize /\ f.declared + 8 = f.length

FromWav ==
  /\ reading = "idle"
  /\ reading' = IF WellBegun(file) THEN "chunks" ELSE "rejected"
  /\ offset' = RiffHeader /\ pass' = 0
  /\ format' = Unsupported /\ data' = Missing
  /\ UNCHANGED file

Reject ==
  /\ reading' = "rejected"
  /\ UNCHANGED <<offset, format, data>>

HeaderCut ==
  /\ reading = "chunks" /\ offset < file.length
  /\ offset + ChunkHeader > file.length
  /\ Reject
  /\ UNCHANGED <<file, pass>>

\* What the reader finds here: the same as before, if it has been here before.
Findable ==
  IF pass < Len(file.chunks) THEN {file.chunks[pass + 1]} ELSE HeadersAt({offset}, Sizes)

Find(h) ==
  /\ file' = IF pass < Len(file.chunks) THEN file ELSE [file EXCEPT !.chunks = Append(@, h)]
  /\ pass' = pass + 1

Start == offset + ChunkHeader
End(h) == Start + h.size
Fits(h) == End(h) <= MaxUsize /\ End(h) <= file.length

\* Bug: chunks are not padded to even sizes.
Unpadded(h) == End(h)

Padded(h) == End(h) + (h.size % 2)

IsFirstFormat(h) == h.id = "fmt" /\ format = Unsupported
ParsesFormat(h) == h.size >= FormatSize /\ h.rate # Unsupported

\* Bug: a chunk that does not fit is passed over, without going anywhere.
ChunkPassedOver(h) ==
  /\ reading = "chunks" /\ offset < file.length
  /\ IF offset + ChunkHeader <= file.length /\ Fits(h)
       THEN /\ Find(h)
            /\ offset' = Padded(h)
            /\ UNCHANGED <<reading, format, data>>
       ELSE /\ pass = Len(file.chunks)
            /\ file' = [file EXCEPT !.chunks = Append(@, h)]
            /\ UNCHANGED <<reading, pass, offset, format, data>>

Chunk(h) ==
  /\ reading = "chunks" /\ offset < file.length
  /\ offset + ChunkHeader <= file.length
  /\ Find(h)
  /\ IF Fits(h) /\ (IsFirstFormat(h) => ParsesFormat(h)) /\ Padded(h) <= MaxUsize
       THEN /\ format' = IF IsFirstFormat(h) THEN h.rate ELSE format
            /\ data' = IF h.id = "data" /\ data = Missing
                         THEN [from |-> Start, size |-> h.size] ELSE data
            /\ offset' = Padded(h)
            /\ UNCHANGED reading
       ELSE Reject

EndOfFile ==
  /\ reading = "chunks" /\ offset >= file.length
  /\ reading' = IF format # Unsupported /\ data # Missing /\ AcceptsPcm(data.size, format)
                  THEN "accepted" ELSE "rejected"
  /\ UNCHANGED <<file, pass, offset, format, data>>

WavStep ==
  \/ FromWav \/ HeaderCut \/ EndOfFile
  \/ \E h \in Findable : Chunk(h)

-----------------------------------------------------------------------------
(***************************************************************************)
(* The writer.                                                             *)
(***************************************************************************)
CanWrite(samples) == 2 * samples <= MaxU32 - 36

\* Bug: the RIFF length counts its own header.
WrittenTooLong(rate, samples) ==
  [length |-> 44 + 2 * samples, declared |-> 44 + 2 * samples, riff |-> TRUE,
   chunks |-> << [id |-> "fmt", size |-> FormatSize, rate |-> rate, from |-> RiffHeader],
                 [id |-> "data", size |-> 2 * samples, rate |-> Unsupported, from |-> 36] >>]

Written(rate, samples) ==
  [length |-> 44 + 2 * samples, declared |-> 36 + 2 * samples, riff |-> TRUE,
   chunks |-> << [id |-> "fmt", size |-> FormatSize, rate |-> rate, from |-> RiffHeader],
                 [id |-> "data", size |-> 2 * samples, rate |-> Unsupported, from |-> 36] >>]

-----------------------------------------------------------------------------
WavTypeOK ==
  /\ file \in [length : Nat, declared : Nat, riff : BOOLEAN,
               chunks : Seq(HeadersAt(Nat, 0..MaxU32))]
  /\ reading \in {"idle", "chunks", "accepted", "rejected"}
  /\ pass \in 0..Len(file.chunks)
  /\ offset \in Nat
  /\ format \in Rates \cup {Unsupported}
  /\ data \in [from : Nat, size : Nat]

(***************************************************************************)
(* What a WAV file is, said without a reader: chunks laid end to end, each *)
(* padded to an even size except that the padding of the last one may be   *)
(* missing, whose first fmt chunk says mono PCM16 at a supported rate and  *)
(* whose first data chunk is admissible PCM.                               *)
(***************************************************************************)
After(c) == c.from + ChunkHeader + c.size + (c.size % 2)

Tiled(chunks) ==
  /\ chunks # <<>> => chunks[1].from = RiffHeader
  /\ \A i \in 1..Len(chunks) - 1 : chunks[i + 1].from = After(chunks[i])

FirstOf(id, chunks) ==
  {c \in {chunks[i] : i \in 1..Len(chunks)} :
     c.id = id /\ \A i \in 1..Len(chunks) : chunks[i].id = id => c.from <= chunks[i].from}

Body(c) == [from |-> c.from + ChunkHeader, size |-> c.size]

Describes(f, rate, body) ==
  LET last == f.chunks[Len(f.chunks)] IN
  /\ f.riff /\ f.length = f.declared + 8 /\ f.length <= MaxEncodedBytes
  /\ f.chunks # <<>> /\ Tiled(f.chunks)
  /\ last.from + ChunkHeader + last.size <= f.length /\ f.length <= After(last)
  /\ \E c \in FirstOf("fmt", f.chunks) : c.rate = rate /\ c.size >= FormatSize
  /\ \E c \in FirstOf("data", f.chunks) : Body(c) = body
  /\ AcceptsPcm(body.size, rate)

(***************************************************************************)
(* The reader accepts exactly the WAV files and takes its audio from the   *)
(* right place of them: no slice beyond the end, no sum that wraps, no     *)
(* padding that shifts what follows.                                       *)
(***************************************************************************)
ReaderSound ==
  /\ reading = "accepted" => Describes(file, format, data)
  /\ reading = "rejected" =>
       \A rate \in Rates, c \in {file.chunks[i] : i \in 1..Len(file.chunks)} :
          ~Describes(file, rate, Body(c))
  /\ reading = "chunks" => offset <= file.length + 1

(***************************************************************************)
(* Why this is so: the chunks known so far are laid end to end inside the  *)
(* file, and the reader stands behind those of its pass with the first fmt *)
(* and the first data chunk of them in hand.                               *)
(***************************************************************************)
NoneOf(id, n) == \A i \in 1..n : file.chunks[i].id # id
IsFirst(id, i) == file.chunks[i].id = id /\ NoneOf(id, i - 1)

ChunksFit ==
  LET chunks == file.chunks IN
  /\ Tiled(chunks)
  /\ \A i, j \in 1..Len(chunks) : i < j => After(chunks[i]) <= chunks[j].from
  /\ reading # "rejected" =>
       \A i \in 1..Len(chunks) : chunks[i].from + ChunkHeader + chunks[i].size <= file.length

WalkedSoFar ==
  /\ WellBegun(file)
  /\ offset = IF pass = 0 THEN RiffHeader ELSE After(file.chunks[pass])
  /\ IF format = Unsupported THEN NoneOf("fmt", pass)
     ELSE \E i \in 1..pass : /\ IsFirst("fmt", i) /\ file.chunks[i].rate = format
                             /\ file.chunks[i].size >= FormatSize
  /\ IF data = Missing THEN NoneOf("data", pass)
     ELSE \E i \in 1..pass : IsFirst("data", i) /\ Body(file.chunks[i]) = data

ReaderInv ==
  /\ WavTypeOK /\ ChunksFit
  /\ reading = "idle" => pass = 0
  /\ reading = "chunks" => WalkedSoFar
  /\ ReaderSound
=============================================================================
