SPECIFICATION FairSpec
CONSTANTS
  NPROC = 3
  NCPU = 2
  MaxPid = 4
  MaxKills = 1
INVARIANTS
  LocksSound
  ProcessTree
  NoLostWakeup
PROPERTIES
  CallsEnd
CHECK_DEADLOCK FALSE
