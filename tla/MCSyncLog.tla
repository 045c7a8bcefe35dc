----------------------------- MODULE MCSyncLog -----------------------------
(* SyncLog for TLC: the codes are those that differ in what they lead to.  *)
EXTENDS SyncLog
=============================================================================
