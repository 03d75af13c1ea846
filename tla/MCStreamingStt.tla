--------------------------- MODULE MCStreamingStt ---------------------------
(***************************************************************************)
(* Source rates below, at and above the engine's rate; VAD frames of two   *)
(* samples, odd-length pushes, utterances that end by silence and by the   *)
(* hard limit, and both limits of the audio within reach.                  *)
(***************************************************************************)
EXTENDS StreamingStt
=============================================================================
