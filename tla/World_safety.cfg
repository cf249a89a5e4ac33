SPECIFICATION Spec
CONSTANTS
  Threads = {t1, t2, t3}
  NoThread = NoThread
  Main = t1
  t1 = t1
  t2 = t2
  t3 = t3
  Ops = {"gc", "suspend", "start", "attach", "native", "exit"}
  StartMayFail = TRUE
  HandOff = TRUE
SYMMETRY Symmetry
INVARIANT WorldStoppedSafe
INVARIANT IInv
CHECK_DEADLOCK FALSE
