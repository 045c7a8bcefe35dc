--------------------------- MODULE MCSyncAccount ---------------------------
(* Instance of SyncAccount for TLC: the calendars are interchangeable. *)
EXTENDS SyncAccount, TLC

Symmetry == Permutations(Sources)
=============================================================================
