SPECIFICATION Spec
CONSTANTS
  Threads = {t1, t2, t3}
  Objects = {o1, o2}
  FatIds = {f1}
  None = None
  t1 = t1
  t2 = t2
  t3 = t3
  o1 = o1
  o2 = o2
  f1 = f1
  MaxThin = 2
  MaxDepth = 3
  Races = {"unowned", "idOverlap", "exit"}
SYMMETRY Symmetry
INVARIANT MutualExclusion
INVARIANT IInv
PROPERTY RefinesMonitors
CHECK_DEADLOCK FALSE
