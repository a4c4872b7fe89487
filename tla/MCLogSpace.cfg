SPECIFICATION Spec
CONSTANTS
  p1 = p1
  p2 = p2
  p3 = p3
  b1 = b1
  b2 = b2
  b3 = b3
  Procs = {p1, p2, p3}
  Blocks = {b1, b2, b3}
  MaxOp = 2
  LogSize = 4
  SbNlog = 4
  OpWrites = 1
  HookDisks = {1}
  MaxVersion = 4
  MaxCrashes = 0
SYMMETRY ProcBlockSymmetry
INVARIANTS
  NoPanic
  NoLostWakeup
  OutstandingExact
  PinsExact
