------------------------- MODULE MCChunkedExecution -------------------------
(* Small instances of ChunkedExecution for TLC. *)
EXTENDS ChunkedExecution

Callers == Permutations(Caller)
=============================================================================
