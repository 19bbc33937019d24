---------------------------- MODULE MCRetryDebit ----------------------------
(* Three debits of which not all fit into the account, whatever the order. *)
EXTENDS RetryDebit, TLC

CONSTANTS R42, R43, R44

MCAmount == (R42 :> 5) @@ (R43 :> 5) @@ (R44 :> 3)
=============================================================================
