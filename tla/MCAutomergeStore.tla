-------------------------- MODULE MCAutomergeStore --------------------------
(* AutomergeStore with every operation, two threads and three changes.      *)
EXTENDS AutomergeStore
=============================================================================
