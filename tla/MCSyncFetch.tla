---------------------------- MODULE MCSyncFetch ----------------------------
(* Instance of SyncFetch for TLC: two messages, the configuration and up to *)
(* two fetches at a time.                                                    *)
EXTENDS SyncFetch
=============================================================================
