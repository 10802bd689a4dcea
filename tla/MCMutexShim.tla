---------------------------- MODULE MCMutexShim ----------------------------
(* MutexShim for TLC: threads and addresses are interchangeable. *)
EXTENDS MutexShim, TLC

Symmetry == Permutations(Threads) \cup Permutations(Addrs)
=============================================================================
