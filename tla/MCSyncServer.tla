---------------------------- MODULE MCSyncServer ----------------------------
(* SyncServer with one connection, reopened at will, against the tray, the *)
(* pairing handler and the publishing loop.                                *)
EXTENDS SyncServer
=============================================================================
