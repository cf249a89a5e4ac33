SPECIFICATION FairSpec
CONSTANTS
  t = t
  a = a
  r = r
  k = k
  boot = boot
  l = l
  None = None
  Objects = {t, a, r, k}
  Loaders = {boot, l}
  Boot = boot
  Thread = t
  LoaderOf <- MCLoaderOf
  ClassLoader <- MCClassLoader
  Kinds <- MCKinds
  Targets <- MCTargets
  Referents = {a}
  Finalizers = {a}
  MaxHeld = 1
  MaxCycles = 2
INVARIANT NothingDangles
INVARIANT MarksExactly
PROPERTY ReferencesInOrder
CHECK_DEADLOCK FALSE
PROPERTY FinalizerReachesAll
