---------------------------- MODULE MCClassInit ----------------------------
(* ClassInit with a few threads and a chain of three classes. *)
EXTENDS ClassInit, TLC

CONSTANTS c1, c2, c3

MCSuper == c1 :> None @@ c2 :> c1 @@ c3 :> c2
Symmetry == Permutations(Threads)
=============================================================================
