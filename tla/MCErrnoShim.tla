---------------------------- MODULE MCErrnoShim ----------------------------
(* ErrnoShim for TLC: error numbers that move, that stay, and that only one *)
(* of the two systems has.                                                  *)
EXTENDS ErrnoShim

SomeHostErrs == {2, 11, 35, 45, 60, 67, 78, 93, 106}
SomeAppErrs  == {0, 2, 11, 35, 110}
=============================================================================
