SPECIFICATION Spec
CONSTANTS
  p1 = p1
  p2 = p2
  p3 = p3
  p4 = p4
  p5 = p5
  p6 = p6
  Pages = {p1, p2, p3, p4, p5, p6}
  MaxObjects = 3
  InCacheObj = 2
  MinAvail = 2
SYMMETRY PageSymmetry
INVARIANTS
  PagesPartitioned
  NoDoubleAllocation
  ListsMatchOccupancy
  MemoryReturned
PROPERTIES
  ImplementsObjectPool
