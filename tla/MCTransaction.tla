--------------------------- MODULE MCTransaction ---------------------------
(* Small instances of Transaction for TLC. *)
EXTENDS Transaction, TLC

CONSTANTS a1, a2, a3

BothNodes == <<a1, a2>>
Callers == Permutations(Caller)
OtherNodes == {<<a2, a1, a3>>}
=============================================================================
