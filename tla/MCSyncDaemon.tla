---------------------------- MODULE MCSyncDaemon ----------------------------
(* Instance of SyncDaemon for TLC: accounts are interchangeable. *)
EXTENDS SyncDaemon, TLC

Symmetry == Permutations(Accounts) \cup Permutations(Sources)
=============================================================================
