SPECIFICATION FairSpec
CONSTANTS
  t1 = t1
  t2 = t2
  t3 = t3
  Threads = {t1, t2, t3}
  MaxLocks <- Bounds
CHECK_DEADLOCK FALSE
INVARIANT QueuesOK
PROPERTY MesaSpec
PROPERTY WaitsEnd
