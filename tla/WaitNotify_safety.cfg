SPECIFICATION Spec
CONSTANTS
  Threads = {t1, t2, t3}
  Waiters = {t1, t2}
  Callers = {t3}
  None = None
  t1 = t1
  t2 = t2
  t3 = t3
  CountMod = 3
SYMMETRY Symmetry
INVARIANT NoSpuriousReturn
INVARIANT InterruptedWillWake
INVARIANT IInv
PROPERTY InterruptReported
CHECK_DEADLOCK FALSE
