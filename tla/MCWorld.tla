------------------------------ MODULE MCWorld ------------------------------
(* World with a few threads; the threads other than Main are alike. *)
EXTENDS World, TLC

Symmetry == Permutations(Threads \ {Main})
=============================================================================
