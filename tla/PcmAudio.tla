------------------------------ MODULE PcmAudio ------------------------------
(***************************************************************************)
(* The pure audio algorithms: PCM16 decoding, linear resampling and the    *)
(* energy voice-activity detector.  A byte, an input sample and an output  *)
(* sample are named by their position; an output sample is the pair of     *)
(* input samples it lies between and how far along it lies.                *)
(***************************************************************************)
EXTENDS Integers, Sequences

CONSTANTS
  TargetRate,       \* ENGINE_SAMPLE_RATE
  MinSpeech,        \* samples_for(min_speech_ms)
  TrailingSilence,  \* samples_for(trailing_silence_ms)
  MaxUtterance      \* samples_for(max_utterance_ms)

ASSUME AudioAssumption ==
  /\ TargetRate \in Nat \ {0}
  /\ MinSpeech \in Nat \ {0}
  /\ TrailingSilence \in Nat \ {0}
  /\ MaxUtterance \in Nat
  /\ MaxUtterance >= MinSpeech

-----------------------------------------------------------------------------
(***************************************************************************)
(* IncrementalPcm16: whole samples are cut from the carried byte and the   *)
(* new ones; an odd byte is carried to the next frame.                     *)
(***************************************************************************)
Pairs(bytes) == [i \in 1..(Len(bytes) \div 2) |-> <<bytes[2 * i - 1], bytes[2 * i]>>]

Odd(bytes) == SubSeq(bytes, 2 * (Len(bytes) \div 2) + 1, Len(bytes))

-----------------------------------------------------------------------------
(***************************************************************************)
(* Resampling.  The same point is computed by MonoPcm::resample over the   *)
(* whole recording and by StreamingResampler over what has arrived.        *)
(***************************************************************************)
\* Output samples that count > 0 input samples determine.
Available(count, rate) == ((count - 1) * TargetRate) \div rate + 1

Left(k, rate) == (k * rate) \div TargetRate
Part(k, rate) == (k * rate) % TargetRate

Point(k, rate, last) ==
  [left |-> Left(k, rate),
   right |-> IF Left(k, rate) + 1 <= last THEN Left(k, rate) + 1 ELSE last,
   part |-> Part(k, rate)]

\* A zero fraction makes the right neighbour irrelevant.
SamePoint(p, q) ==
  /\ p.left = q.left
  /\ p.part = q.part
  /\ p.part # 0 => p.right = q.right

\* MonoPcm::resample copies the samples when the rates are equal.
Resample(count, rate) ==
  IF rate = TargetRate
    THEN [k \in 1..count |-> [left |-> k - 1, right |-> k - 1, part |-> 0]]
    ELSE [k \in 1..Available(count, rate) |-> Point(k - 1, rate, count - 1)]

-----------------------------------------------------------------------------
(***************************************************************************)
(* EnergyVad::process, for a frame of len samples whose energy does or     *)
(* does not reach the threshold.                                           *)
(***************************************************************************)
Quiet == [active |-> FALSE, speech |-> 0, silence |-> 0, utterance |-> 0]

Heard(vad, voiced, len) ==
  [vad EXCEPT !.speech = IF voiced THEN @ + len ELSE 0,
              !.silence = IF voiced THEN 0 ELSE IF vad.active THEN @ + len ELSE @,
              !.utterance = IF vad.active THEN @ + len ELSE @]

Ends(vad, voiced, len) ==
  /\ vad.active
  /\ LET heard == Heard(vad, voiced, len)
     IN  heard.silence >= TrailingSilence \/ heard.utterance >= MaxUtterance

\* Bug: the end of an utterance leaves the runs as they are.
ProcessWithoutReset(vad, voiced, len) ==
  LET heard == Heard(vad, voiced, len)
  IN  IF Ends(vad, voiced, len) THEN [heard EXCEPT !.active = FALSE]
      ELSE IF ~vad.active /\ heard.speech >= MinSpeech
        THEN [heard EXCEPT !.active = TRUE, !.utterance = heard.speech]
      ELSE heard

Process(vad, voiced, len) ==
  LET heard == Heard(vad, voiced, len)
  IN  IF Ends(vad, voiced, len) THEN Quiet
      ELSE IF ~vad.active /\ heard.speech >= MinSpeech
        THEN [heard EXCEPT !.active = TRUE, !.utterance = heard.speech]
      ELSE heard
=============================================================================
