----------------------------- MODULE MCBatchApi -----------------------------
(***************************************************************************)
(* Files of up to some sixty bytes on a machine whose usize is as narrow   *)
(* as u32: chunk sizes near u32::MAX, odd ones, a fmt chunk too short, and *)
(* a recording that is too long at 8 kHz and admissible at 16 kHz.         *)
(***************************************************************************)
EXTENDS BatchApi

MCRates == {8000, 16000}
MCLengths == {7, 12, 45, 46, 52, 53, 72}
MCSizes == {0, 1, 8, 15, 16, 17, 120}
MCPcmLengths == {0, 1, 18, 34, 74}
MCOutputs == {1, 8, 10, 14, 60}
=============================================================================
