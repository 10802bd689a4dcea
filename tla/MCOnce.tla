------------------------------- MODULE MCOnce -------------------------------
(* Once for TLC: two controls, the routine of one may call the other's. *)
EXTENDS Once

CONSTANTS c1, c2

InOrder == {<<c1, c2>>}
=============================================================================
