---------------------------- MODULE MCWaitNotify ----------------------------
(* WaitNotify with a few threads; those that wait are alike. *)
EXTENDS WaitNotify, TLC

Symmetry == Permutations(Waiters)
=============================================================================
