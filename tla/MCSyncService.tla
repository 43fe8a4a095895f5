---------------------------- MODULE MCSyncService ----------------------------
(* The instance of SyncService that TLC checks, given by the .cfg files. *)
EXTENDS SyncService, TLC
=============================================================================
