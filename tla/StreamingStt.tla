---------------------------- MODULE StreamingStt ----------------------------
(***************************************************************************)
(* One incremental recognition session, StreamingSession of the stt crate: *)
(* bytes arrive in frames of any length, are decoded, resampled, cut into  *)
(* VAD frames and fed to a native stream; the end of an utterance closes   *)
(* that stream and opens the next.  The request's token may be cancelled,  *)
(* its deadline may pass and a native call may fail between any two steps. *)
(***************************************************************************)
EXTENDS PcmAudio

CONSTANTS
  SourceRates,   \* sample rates a session can be opened with
  FrameSamples,  \* VAD_FRAME_SAMPLES
  MaxChunk,      \* max_chunk_bytes
  MaxBytes,      \* AudioLimits.max_encoded_bytes
  MaxDuration    \* AudioLimits.max_duration, in the unit of the rates

ASSUME SttAssumption ==
  /\ SourceRates \subseteq Nat \ {0}
  /\ FrameSamples \in Nat \ {0}
  /\ {MaxChunk, MaxBytes, MaxDuration} \subseteq Nat \ {0}

VARIABLES
  rate,       \* source_sample_rate
  pc,         \* between calls, or where inside one
  live,       \* not cancelled and not past the deadline
  received,   \* bytes the caller has pushed
  carried,    \* IncrementalPcm16.pending
  samples,    \* IncrementalPcm16.samples and StreamingResampler.input
  resampled,  \* what StreamingResampler has put out, in order
  residual,   \* how many of these wait for a full VAD frame
  vad,        \* EnergyVad
  opened,     \* first resampled sample the native stream was given
  hasAudio,   \* current_has_audio
  lastFinal,  \* last_final, the piece of audio its text is about
  updates,    \* finals of the push under way
  delivered   \* finals returned to the caller

audioVars == <<received, carried, samples, resampled>>
finalVars == <<lastFinal, updates, delivered>>
vars == <<rate, pc, live, audioVars, residual, vad, opened, hasAudio, finalVars>>

None == <<>>
Fed == Len(resampled) - residual   \* resampled samples given to native streams
Piece(first, next) == [first |-> first, next |-> next]
Pieces == [first : Nat, next : Nat]
Bytes(first, count) == [i \in 1..count |-> first + i - 1]

\* AudioLimits.admit: bytes, and duration by cross-multiplication.
Admits(bytes) ==
  /\ bytes <= MaxBytes
  /\ bytes \div 2 <= rate * MaxDuration

TypeOK ==
  /\ rate \in SourceRates
  /\ pc \in {"idle", "frames", "ended", "committing", "done", "failed"}
  /\ live \in BOOLEAN
  /\ received \in Nat
  /\ carried \in Seq(Nat) /\ Len(carried) <= 1
  /\ samples \in Seq(Nat \X Nat)
  /\ resampled \in Seq([left : Nat, right : Nat, part : Nat])
  /\ residual \in Nat
  /\ vad \in [active : BOOLEAN, speech : Nat, silence : Nat, utterance : Nat]
  /\ opened \in Nat
  /\ hasAudio \in BOOLEAN
  /\ lastFinal \in Pieces \cup {None}
  /\ updates \in Seq(Pieces) /\ delivered \in Seq(Pieces)

Init ==
  /\ rate \in SourceRates
  /\ pc = "idle"
  /\ live = TRUE
  /\ received = 0
  /\ carried = <<>>
  /\ samples = <<>>
  /\ resampled = <<>>
  /\ residual = 0
  /\ vad = Quiet
  /\ opened = 0
  /\ hasAudio = FALSE
  /\ lastFinal = None
  /\ updates = <<>>
  /\ delivered = <<>>

-----------------------------------------------------------------------------
\* IncrementalPcm16::push: the carried byte counts against the limits.
Total(n) == 2 * Len(samples) + Len(carried) + n

Decode(n) ==
  LET bytes == carried \o Bytes(received, n)
  IN  /\ received' = received + n
      /\ samples' = samples \o Pairs(bytes)
      /\ carried' = Odd(bytes)

\* Bug: the output is what the new input alone would give.
ResampleAhead(count) ==
  [i \in 1..(Available(count, rate) + 1 - Len(resampled)) |->
     Point(Len(resampled) + i - 1, rate, count - 1)]

\* StreamingResampler::push: from next_output to what count samples determine.
NewOutput(count) ==
  [i \in 1..(Available(count, rate) - Len(resampled)) |->
     Point(Len(resampled) + i - 1, rate, count - 1)]

Push(n) ==
  /\ pc = "idle"
  /\ live
  /\ n \in 1..MaxChunk
  /\ Admits(Total(n))
  /\ Decode(n)
  /\ IF samples' = samples
       THEN UNCHANGED <<pc, resampled, residual>>
       ELSE /\ resampled' = resampled \o NewOutput(Len(samples'))
            /\ residual' = residual + Len(resampled') - Len(resampled)
            /\ pc' = "frames"
  /\ UNCHANGED <<rate, live, vad, opened, hasAudio, finalVars>>

Fail ==
  /\ pc' = "failed"
  /\ UNCHANGED <<rate, live, audioVars, residual, vad, opened, hasAudio, finalVars>>

PushRefused(n) ==
  /\ pc = "idle"
  /\ n \notin 1..MaxChunk \/ ~live \/ ~Admits(Total(n))
  /\ Fail

\* One VAD frame: accepted, classified, and an interim text read or, at the
\* end of an utterance, the stream finished.
Frame(voiced) ==
  /\ pc = "frames"
  /\ residual >= FrameSamples
  /\ live
  /\ residual' = residual - FrameSamples
  /\ hasAudio' = TRUE
  /\ vad' = Process(vad, voiced, FrameSamples)
  /\ pc' = IF Ends(vad, voiced, FrameSamples) THEN "ended" ELSE "frames"
  /\ UNCHANGED <<rate, live, audioVars, opened, finalVars>>

\* Bug: the fresh stream is not recorded as empty.
EndUtteranceKeepsFlag ==
  /\ pc = "ended"
  /\ live
  /\ lastFinal' = Piece(opened, Fed)
  /\ updates' = Append(updates, Piece(opened, Fed))
  /\ opened' = Fed
  /\ pc' = "frames"
  /\ UNCHANGED <<rate, live, audioVars, residual, vad, hasAudio, delivered>>

\* Bug: the final is returned but not remembered for a commit.
EndUtteranceForgets ==
  /\ pc = "ended"
  /\ live
  /\ updates' = Append(updates, Piece(opened, Fed))
  /\ opened' = Fed
  /\ hasAudio' = FALSE
  /\ pc' = "frames"
  /\ UNCHANGED <<rate, live, audioVars, residual, vad, lastFinal, delivered>>

EndUtterance ==
  /\ pc = "ended"
  /\ live
  /\ lastFinal' = Piece(opened, Fed)
  /\ updates' = Append(updates, Piece(opened, Fed))
  /\ opened' = Fed
  /\ hasAudio' = FALSE
  /\ pc' = "frames"
  /\ UNCHANGED <<rate, live, audioVars, residual, vad, delivered>>

PushReturns ==
  /\ pc = "frames"
  /\ residual < FrameSamples
  /\ live
  /\ delivered' = delivered \o updates
  /\ updates' = <<>>
  /\ pc' = "idle"
  /\ UNCHANGED <<rate, live, audioVars, residual, vad, opened, hasAudio, lastFinal>>

-----------------------------------------------------------------------------
\* The residual is recognised, and shown to the detector, whose verdict does
\* not matter any more.
Finish ==
  /\ pc = "idle"
  /\ live
  /\ carried = <<>> /\ samples # <<>>
  /\ residual' = 0
  /\ hasAudio' = (hasAudio \/ residual > 0)
  /\ vad' \in IF residual > 0
                THEN {Process(vad, voiced, residual) : voiced \in BOOLEAN}
                ELSE {vad}
  /\ pc' = "committing"
  /\ UNCHANGED <<rate, live, audioVars, opened, finalVars>>

FinishRefused ==
  /\ pc = "idle"
  /\ ~live \/ carried # <<>> \/ samples = <<>>
  /\ Fail

\* With nothing fed to the current stream the last final is repeated.
Commit ==
  /\ pc = "committing"
  /\ live
  /\ hasAudio \/ lastFinal # None
  /\ delivered' = Append(delivered, IF hasAudio THEN Piece(opened, Fed) ELSE lastFinal)
  /\ lastFinal' = IF hasAudio THEN lastFinal ELSE None
  /\ pc' = "done"
  /\ UNCHANGED <<rate, live, audioVars, residual, vad, opened, hasAudio, updates>>

\* A native call fails, or ensure_active finds the request stopped: the
\* caller drops the session, and the updates of the push with it.
CallFails ==
  /\ pc \in {"frames", "ended", "committing"}
  /\ Fail

Stop ==
  /\ live
  /\ pc \notin {"done", "failed"}
  /\ live' = FALSE
  /\ UNCHANGED <<rate, pc, audioVars, residual, vad, opened, hasAudio, finalVars>>

Next ==
  \/ \E n \in 0..(MaxChunk + 1) : Push(n) \/ PushRefused(n)
  \/ \E voiced \in BOOLEAN : Frame(voiced)
  \/ EndUtterance \/ PushReturns
  \/ Finish \/ FinishRefused \/ Commit
  \/ CallFails \/ Stop

Spec == Init /\ [][Next]_vars

-----------------------------------------------------------------------------
(***************************************************************************)
(* However the bytes were cut into frames, the samples are those of the    *)
(* whole recording: no byte is lost, repeated or paired with the wrong one.*)
(***************************************************************************)
DecodesInOrder ==
  /\ samples \o [i \in 1..Len(carried) |-> <<carried[1]>>] =
       [i \in 1..((received + 1) \div 2) |->
          IF 2 * i <= received THEN <<2 * i - 2, 2 * i - 1>> ELSE <<2 * i - 2>>]
  /\ Admits(received)

(***************************************************************************)
(* "Output is identical to resampling the concatenated input with          *)
(* MonoPcm::resample": at every moment, for everything received so far.    *)
(***************************************************************************)
StreamEqualsOneShot ==
  samples # <<>> =>
    LET whole == Resample(Len(samples), rate)
    IN  /\ Len(resampled) = Len(whole)
        /\ \A k \in 1..Len(whole) : SamePoint(resampled[k], whole[k])

(***************************************************************************)
(* Streaming changes nothing: decoding and resampling frame by frame give  *)
(* what IncrementalPcm16 and MonoPcm::resample give for the whole input.   *)
(***************************************************************************)
StreamIsOneShot == TypeOK /\ DecodesInOrder /\ StreamEqualsOneShot

(***************************************************************************)
(* The final transcripts are about consecutive, non-empty pieces of the    *)
(* audio that begin where it begins: nothing is transcribed twice or       *)
(* skipped.  Only a commit right after the end of an utterance repeats its *)
(* final.                                                                  *)
(***************************************************************************)
Finals == delivered \o updates

FinalsPartition ==
  \A i \in 1..Len(Finals) :
    /\ Finals[i].first < Finals[i].next
    /\ \/ Finals[i].first = IF i = 1 THEN 0 ELSE Finals[i - 1].next
       \/ /\ i > 1 /\ i = Len(Finals) /\ pc = "done"
          /\ Finals[i] = Finals[i - 1]

(***************************************************************************)
(* A commit that succeeds ends with a final, and by then every sample      *)
(* received has been recognised.  A commit never finds both no audio and   *)
(* no earlier final.                                                       *)
(***************************************************************************)
CommitCoversAll ==
  /\ pc = "done" =>
       /\ delivered # <<>>
       /\ delivered[Len(delivered)].next = Available(Len(samples), rate)
       /\ 2 * Len(samples) = received
  /\ pc = "committing" => hasAudio \/ lastFinal # None

(***************************************************************************)
(* What the client reads is the whole of what it said: the finals divide   *)
(* the audio without gap or overlap, and after a commit none is missing    *)
(* (push_pcm16 and finish of StreamingSession together).                   *)
(***************************************************************************)
TranscriptCoversAudio == FinalsPartition /\ CommitCoversAll

(***************************************************************************)
(* The detector and the native stream agree: an utterance lies inside the  *)
(* open stream, ends within one frame of its bound, and a stream without   *)
(* audio has a quiet detector.                                             *)
(***************************************************************************)
VadFollowsStream ==
  pc \in {"idle", "frames"} =>
    /\ hasAudio <=> Fed > opened
    /\ vad.speech <= Fed - opened
    /\ vad.active => /\ vad.utterance <= Fed - opened
                     /\ vad.silence < TrailingSilence
                     /\ vad.utterance < MaxUtterance + FrameSamples
    /\ ~vad.active => vad.silence = 0 /\ vad.speech < MinSpeech

(***************************************************************************)
(* Why this is so, of one step after another: each sample and each output  *)
(* is where its position says; the open stream begins where the last final *)
(* ended; a stream has been given audio exactly when it is not empty; and  *)
(* whoever ends an utterance leaves a quiet detector behind.               *)
(***************************************************************************)
DecodedSoFar ==
  /\ Len(samples) = received \div 2 /\ Len(carried) = received % 2
  /\ \A i \in 1..Len(samples) : samples[i] = <<2 * i - 2, 2 * i - 1>>
  /\ carried # <<>> => carried[1] = received - 1
  /\ Admits(received)

ResampledSoFar ==
  /\ Len(resampled) = IF samples = <<>> THEN 0 ELSE Available(Len(samples), rate)
  /\ \A k \in 1..Len(resampled) :
       /\ resampled[k].left = Left(k - 1, rate) /\ resampled[k].part = Part(k - 1, rate)
       /\ resampled[k].part # 0 => resampled[k].right = resampled[k].left + 1

StreamFollowsFinals ==
  /\ residual <= Len(resampled) /\ opened <= Fed
  /\ hasAudio <=> Fed > opened
  /\ pc # "done" =>
       IF Finals = <<>> THEN opened = 0 /\ lastFinal = None
       ELSE opened = Finals[Len(Finals)].next /\ lastFinal = Finals[Len(Finals)]
  /\ pc \in {"idle", "committing", "done"} => updates = <<>>
  /\ pc \in {"committing", "done"} => residual = 0 /\ carried = <<>> /\ samples # <<>>

DetectorFollows ==
  /\ pc = "ended" => vad = Quiet /\ hasAudio
  /\ VadFollowsStream

SttInv ==
  /\ TypeOK /\ DecodedSoFar /\ ResampledSoFar
  /\ StreamFollowsFinals /\ TranscriptCoversAudio /\ DetectorFollows
=============================================================================
