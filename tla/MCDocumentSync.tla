---------------------------- MODULE MCDocumentSync ----------------------------
(***************************************************************************)
(* The sync of one document between two nodes, alone, for TLC.             *)
(***************************************************************************)
EXTENDS DocumentSync

CONSTANTS a, b, x, y
=============================================================================
