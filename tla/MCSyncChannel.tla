--------------------------- MODULE MCSyncChannel ---------------------------
(* SyncChannel: two senders that contend for one channel object, or one     *)
(* sender and two objects (MCSyncChannelReconnect).                         *)
EXTENDS SyncChannel
=============================================================================
