---------------------------- MODULE MCRunDispatch ----------------------------
(* Instances of RunDispatch for TLC. *)
EXTENDS RunDispatch

CONSTANTS w1, w2, u1, u2
=============================================================================
