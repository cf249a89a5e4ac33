------------------------------- MODULE MCHeap -------------------------------
(* Heap with a few pages, one block size and two kinds of large object. *)
EXTENDS Heap, TLC

MCBlocks == [s \in Sizes |-> 2]
Symmetry == Permutations(Threads)
=============================================================================
