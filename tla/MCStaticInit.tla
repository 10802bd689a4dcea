--------------------------- MODULE MCStaticInit ---------------------------
(* StaticInit for TLC: threads and addresses are interchangeable. *)
EXTENDS StaticInit, TLC

Symmetry == Permutations(Threads) \cup Permutations(Addrs)
=============================================================================
