SPECIFICATION FairSpec
CONSTANTS
  m1 = m1
  m2 = m2
  w1 = w1
  w2 = w2
  Mutators = {m1, m2}
  Markers = {w1, w2}
  AlwaysFull = FALSE
  SpuriousCAS = FALSE
  MaxCalls = 1
  MaxConcurrent = 1
INVARIANT TypeOK
INVARIANT RetriedAfterFullGC
PROPERTY CancelKept
PROPERTY WaitsEnd
