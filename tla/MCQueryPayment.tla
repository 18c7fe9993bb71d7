--------------------------- MODULE MCQueryPayment ---------------------------
(* Small instances of QueryPayment for TLC. *)
EXTENDS QueryPayment

\* The lists of nodes a query may be sent to.
TwoNodes == <<"n1", "n2">>
OtherNodes == {<<"n2">>}
=============================================================================
