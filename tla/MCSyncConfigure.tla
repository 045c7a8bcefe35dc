-------------------------- MODULE MCSyncConfigure --------------------------
(* Instance of SyncConfigure for TLC. *)
EXTENDS SyncConfigure, TLC

CONSTANTS a1, a2, x, y, n1, n2

\* The calendars of a1 and one of a2 share a name; the other of a2 has its own.
Naming == (a1 :> (x :> n1 @@ y :> n1)) @@ (a2 :> (x :> n2 @@ y :> n1))
=============================================================================
