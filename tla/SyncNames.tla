----------------------------- MODULE SyncNames ------------------------------
(***************************************************************************)
(* The names the sync modules share: peers (EndpointId) and document keys. *)
(***************************************************************************)
CONSTANTS Peers, Docs
=============================================================================
