----------------------------- MODULE MCWaitLoop -----------------------------
(* WaitLoop for TLC; no symmetry, as the property is a liveness property. *)
EXTENDS WaitLoop
=============================================================================
