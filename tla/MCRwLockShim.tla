---------------------------- MODULE MCRwLockShim ----------------------------
(* RwLockShim for TLC: threads and addresses are interchangeable. *)
EXTENDS RwLockShim, TLC

Symmetry == Permutations(Threads) \cup Permutations(Addrs)
=============================================================================
