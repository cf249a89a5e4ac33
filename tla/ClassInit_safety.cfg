SPECIFICATION Spec
CONSTANTS
  Threads = {t1, t2, t3}
  Classes = {c1, c2, c3}
  None = None
  c1 = c1
  c2 = c2
  c3 = c3
  Super <- MCSuper
  Finalizers = {c2}
  Failing = {"resolve", "lock", "wait", "fields", "box", "notify"}
SYMMETRY Symmetry
INVARIANT ClinitOnce
INVARIANT SuperFirst
INVARIANT IInv
CHECK_DEADLOCK FALSE
