----------------------------- MODULE MCSockets -----------------------------
(* Sockets for TLC: two threads, a vector of two messages, an IPv4 sender   *)
(* whose address fits, a UNIX sender whose address never does, and the end  *)
(* of a stream, which has no address.                                       *)
EXTENDS Sockets

SomeKinds == { [family |-> 2, len |-> 1], [family |-> 1, len |-> 1],
               [family |-> 0, len |-> 0] }
=============================================================================
