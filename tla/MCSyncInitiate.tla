--------------------------- MODULE MCSyncInitiate ---------------------------
(* SyncInitiate with one peer, one document and two tasks.                  *)
EXTENDS SyncInitiate
=============================================================================
