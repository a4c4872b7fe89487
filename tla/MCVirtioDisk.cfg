SPECIFICATION FairSpec
CONSTANTS
  NUM = 8
  Procs = {p1, p2, p3}
  p1 = p1
  p2 = p2
  p3 = p3
INVARIANTS
  RingsSound
PROPERTIES
  RequestsComplete
