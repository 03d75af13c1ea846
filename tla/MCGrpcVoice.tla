---------------------------- MODULE MCGrpcVoice ----------------------------
(***************************************************************************)
(* One call of any kind, two slots per engine that the rest of the server  *)
(* takes and returns at will, and a queue shorter than the longest burst   *)
(* of items.                                                               *)
(***************************************************************************)
EXTENDS GrpcVoice
=============================================================================
