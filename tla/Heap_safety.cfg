SPECIFICATION Spec
CONSTANTS
  Threads = {t1, t2}
  None = None
  t1 = t1
  t2 = t2
  s1 = s1
  MaxPages = 3
  InitPages = 2
  Reserved = 1
  MaxCycles = 1
  Sizes = {s1}
  Blocks <- MCBlocks
  MaxBlocks = 2
  LargeSizes = {2}
  MaxHeld = 1
SYMMETRY Symmetry
INVARIANT MemoryApart
INVARIANT WalkFindsObjects
INVARIANT HeapConsistent
CHECK_DEADLOCK FALSE
