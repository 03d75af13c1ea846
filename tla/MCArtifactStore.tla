--------------------------- MODULE MCArtifactStore ---------------------------
(***************************************************************************)
(* Two setups, one after another or side by side, and two processes that   *)
(* read the store, over a profile of two artifacts, on a host that loads   *)
(* both or only the first; every combination of up to two crashes,         *)
(* failures and damaged files.                                             *)
(***************************************************************************)
EXTENDS EngineLoader

CONSTANTS runtime, stt
MCProfile == <<runtime, stt>>
MCHosts == {{runtime, stt}, {runtime}}
=============================================================================
