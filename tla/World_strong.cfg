SPECIFICATION StrongSpec
CONSTANTS
  Threads = {t1, t2}
  NoThread = NoThread
  Main = t1
  t1 = t1
  t2 = t2
  Ops = {"gc", "suspend", "start", "attach", "native", "exit"}
  StartMayFail = FALSE
  HandOff = TRUE
PROPERTY SuspendTakesEffect
PROPERTY CollectionDone
CHECK_DEADLOCK FALSE
