--------------------------- MODULE MCNativeEngine ---------------------------
(***************************************************************************)
(* Two batch recognitions, a streaming session and a synthesis over two    *)
(* slots of each engine and one async worker: the session waits for a gate *)
(* a batch call owns while nothing else can run on the worker.             *)
(***************************************************************************)
EXTENDS NativeEngine
=============================================================================
