---------------------------- MODULE MCTwoQueues ----------------------------
(* Instance of TwoQueues for TLC: accounts and sources are interchangeable. *)
EXTENDS TwoQueues, TLC

Symmetry == Permutations(Accounts) \cup Permutations(Sources)
=============================================================================
