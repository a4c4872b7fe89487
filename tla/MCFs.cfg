SPECIFICATION FairSpec
CONSTANTS
  Procs = {1, 2}
  NInodes = 5
  NInode = 6
  NBlocks = 5
  KernelFrames = 6
  Setups <- MCSetups
INVARIANTS
  CacheSound
  DiskSound
PROPERTIES
  NoWriteWithoutPermission
  CallsReturn
CHECK_DEADLOCK FALSE
