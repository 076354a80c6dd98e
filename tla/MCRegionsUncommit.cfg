SPECIFICATION Spec
CONSTANTS
  m1 = m1
  m2 = m2
  Mutators = {m1, m2}
  MainThread = m1
  NumRegions = 3
  RegionLog = 1
  InitialRegions = 2
  MinRegions = 1
  TlabSize = 2
  MinTlabSize = 1
  Sizes = {1, 3}
  MaxObjects = 2
  MaxReturned = 1
CHECK_DEADLOCK FALSE
INVARIANT DecommitUnused
