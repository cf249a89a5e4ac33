----------------------------- MODULE MCMonitor -----------------------------
(* Monitor with a few threads, objects and fat locks, all alike. *)
EXTENDS Monitor, TLC

Symmetry ==
  Permutations(Threads) \cup Permutations(Objects) \cup Permutations(FatIds)
=============================================================================
