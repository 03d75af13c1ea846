------------------------- MODULE MCRealtimeSession -------------------------
(***************************************************************************)
(* One session, step by step, among other sessions, batch requests and     *)
(* RPCs that take and return the session permits and the slots of both     *)
(* engines at any moment.                                                  *)
(***************************************************************************)
EXTENDS RealtimeSession
=============================================================================
