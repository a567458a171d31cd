---------------------------- MODULE MCSyncClient ----------------------------
(* SyncClient with pairings, reconnecting refreshes and a process end that *)
(* meet each other.                                                        *)
EXTENDS SyncClient
=============================================================================
