-------------------------- MODULE MCSyncController --------------------------
(* Small instances of SyncController.                                      *)
EXTENDS SyncController
=============================================================================
