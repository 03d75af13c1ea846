--------------------------- MODULE MCShutdownGate ---------------------------
(***************************************************************************)
(* Three operations against an admission ceiling of two, a bounded and an  *)
(* unbounded drain and a third call: the last guard, a firing timer and a  *)
(* forced stop can all meet between one critical section and its token,    *)
(* while a task arms, reads and sleeps on that token.                      *)
(***************************************************************************)
EXTENDS StopSignal
=============================================================================
