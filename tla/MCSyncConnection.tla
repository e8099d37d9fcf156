-------------------------- MODULE MCSyncConnection --------------------------
(* Instance of SyncConnection for TLC. *)
EXTENDS SyncConnection
=============================================================================
