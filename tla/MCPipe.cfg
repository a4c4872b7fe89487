SPECIFICATION PipeSpec
CONSTANTS
  NPROC = 3
  NCPU = 2
  MaxPid = 3
  MaxKills = 1
  PIPESIZE = 2
  CountMod = 4
  Sizes = {4}
  MaxCalls = 2
CONSTRAINT Focus
INVARIANTS
  SleepersHaveReason
  PipeSound
PROPERTIES
  ImplementsChannel
CHECK_DEADLOCK FALSE
