------------------------ MODULE MCTransactionFields ------------------------
(* TransactionFields for TLC.                                              *)
EXTENDS TransactionFields
============================================================================
