SPECIFICATION Spec
CONSTANTS
  MaxThrdNum = 5
  Setups <- AllPrograms
INVARIANTS
  ThreadsKept
  PolicyKept
  TimeKept
  MatchesGrader
PROPERTY
  DeadlinesKept
