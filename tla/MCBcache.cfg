SPECIFICATION FairSpec
CONSTANTS
  b1 = b1
  b2 = b2
  r1 = r1
  u1 = u1
  c1 = c1
  x1 = x1
  None = None
  Bufs = {b1, b2}
  DiskSize = 2
  Readers = {r1}
  Updaters = {u1}
  Committers = {c1}
  RawUsers = {x1}
  ReadBlocks = {0, 1}
  WriteBlocks = {0}
  RawBlocks = {0, 2}
  HookDisks = {0, 1}
  HookBlocks = {}
  MaxVersion = 2
  MaxCalls = 2
INVARIANTS
  BuffersExact
  
  
  
  
PROPERTIES
  CallsEnd
CONSTRAINT NotRenamed
CHECK_DEADLOCK FALSE
