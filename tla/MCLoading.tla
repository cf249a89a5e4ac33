----------------------------- MODULE MCLoading -----------------------------
(* Loading with the boot loader and a user loader u: d extends a, and z    *)
(* itself; x is the type d[], and ax is a[].  One object has a and b.  The *)
(* user loader has a class file of d that is not the boot loader's.        *)
EXTENDS Loading

CONSTANTS a, b, d, z, x, ax, boot, u

MCElem == [n \in {x, ax} |-> IF n = x THEN d ELSE a]
MCSupers == [n \in {a, b, d, z} |->
  CASE n \in {a, b} -> <<>> [] n = d -> <<a>> [] n = z -> <<z>>]
MCClassFiles == [l \in Loaders |-> IF l = boot THEN {a, b, d, z} ELSE {d, z}]
MCVersion == [l \in Loaders |-> [n \in {a, b, d, z} |-> IF l = u /\ n = d THEN 2 ELSE 1]]
MCObjectFiles == [n \in {a, b, d, z} |->
  CASE n = d -> <<d>> [] n \in {a, b} -> <<a, b>> [] n = z -> <<>>]
=============================================================================
