-------------------------------- MODULE MCGc --------------------------------
(* Gc with a thread, an object whose class belongs to a loader that can be *)
(* unloaded, a reference, and the loader's ClassLoader.                     *)
EXTENDS Gc

CONSTANTS t, a, r, k, boot, l

MCLoaderOf == [o \in Objects |-> IF o = a THEN l ELSE boot]
MCClassLoader == [x \in {l} |-> k]
MCKinds == [o \in Objects |->
  CASE o = r -> {"soft", "weak", "phantom"} [] o = k -> {"loader"} [] OTHER -> {"plain"}]
MCTargets == [x \in Things |->
  CASE x = t -> {a, l} [] x = a -> {r} [] x = l -> {r} [] OTHER -> {}]
=============================================================================
