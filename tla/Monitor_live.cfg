SPECIFICATION Spec
CONSTANTS
  Threads = {t1, t2, t3}
  Objects = {o1, o2}
  FatIds = {f1, f2}
  None = None
  t1 = t1
  t2 = t2
  t3 = t3
  o1 = o1
  o2 = o2
  f1 = f1
  f2 = f2
  MaxThin = 1
  MaxDepth = 1
  Races = {}
INVARIANT NoStrandedWaiter
PROPERTY ReleaseWakes
CHECK_DEADLOCK FALSE
