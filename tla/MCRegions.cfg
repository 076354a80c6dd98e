SPECIFICATION Spec
CONSTANTS
  m1 = m1
  m2 = m2
  Mutators = {m1, m2}
  MainThread = m1
  NumRegions = 2
  RegionLog = 2
  InitialRegions = 1
  MinRegions = 1
  TlabSize = 4
  MinTlabSize = 1
  Sizes = {2, 3, 6}
  MaxObjects = 2
  MaxReturned = 1
CHECK_DEADLOCK FALSE
INVARIANT FreeIsFree
INVARIANT FreeSetOK
INVARIANT ObjectsWhole
PROPERTY MemorySpec
