------------------------- MODULE MCRequestAdmission -------------------------
(***************************************************************************)
(* Three requests, one execution permit and a queue of one: the third is   *)
(* refused while two are in the house, and an inference left behind meets  *)
(* the next request at the engine.                                         *)
(***************************************************************************)
EXTENDS RequestAdmission, TLC

Symmetry == Permutations(Requests)
=============================================================================
