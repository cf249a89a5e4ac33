SPECIFICATION Spec
CONSTANTS
  t1 = t1
  t2 = t2
  d = d
  a = a
  b = b
  z = z
  x = x
  ax = ax
  boot = boot
  u = u
  Threads = {t1, t2}
  None = None
  Ok = Ok
  OutOfMemory = OutOfMemory
  Loaders = {boot, u}
  Boot = boot
  Names = {a, b, d, z, x, ax}
  Elem <- MCElem
  Supers <- MCSupers
  Final = {}
  Core = {a}
  ClassFiles <- MCClassFiles
  Version <- MCVersion
  ObjectFiles <- MCObjectFiles
  Modes = {"interpret", "generate", "objects"}
  MayFail = TRUE
  MaxLoads = 1
INVARIANT OneType
INVARIANT SupersKnown
INVARIANT FilesCounted
PROPERTY LoadsEnd
CHECK_DEADLOCK FALSE
