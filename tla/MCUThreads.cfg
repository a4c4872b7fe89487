SPECIFICATION FairSpec
CONSTANTS
  MaxThreads = 3
  Signals = {1}
  SelfKill = FALSE
INVARIANTS
  RunQueueSound
PROPERTIES
  TurnsTaken
  SignalDelivered
CHECK_DEADLOCK FALSE
