SPECIFICATION FairSpec
CONSTANTS
  p1 = p1
  p2 = p2
  b1 = b1
  b2 = b2
  Procs = {p1, p2}
  Blocks = {b1, b2}
  MaxOp = 4
  LogSize = 8
  SbNlog = 8
  OpWrites = 2
  HookDisks = {}
  MaxVersion = 3
  MaxCrashes = 2
INVARIANTS
  CommittedIsDurable
  MirrorCurrent
PROPERTIES
  ImplementsAtomicDisk
  LogLive
