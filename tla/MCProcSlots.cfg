SPECIFICATION Spec
CONSTANTS
  NPROC = 4
  NCPU = 3
  MaxPid = 5
  MaxKills = 0
INVARIANTS
  StaleParentHarmless
CHECK_DEADLOCK FALSE
