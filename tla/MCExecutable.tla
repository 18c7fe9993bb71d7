---------------------------- MODULE MCExecutable ----------------------------
(* Small instances of Executable for TLC. *)
EXTENDS Executable, TLC

CONSTANTS a1, a2, h1, h2, r1, r2

BothNodes == h1 :> a1 @@ h2 :> a2
OneBook == {BothNodes}
ChangingBooks == {BothNodes, h2 :> a2}

FromNetwork == [r \in Request |-> <<>>]
TransactionThenReceipt == [r \in Request |-> IF r \in ReceiptQueries THEN <<a1>> ELSE <<a1, a2>>]

Objects == Permutations(Node)
=============================================================================
