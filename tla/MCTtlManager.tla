---------------------------- MODULE MCTtlManager ----------------------------
(* TtlManager with two documents of one collection.                         *)
EXTENDS TtlManager
=============================================================================
