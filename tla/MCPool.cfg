SPECIFICATION MCSpec
CONSTANTS
  w1 = w1
  w2 = w2
  w3 = w3
  Workers = {w1, w2, w3}
  MaxJoins = 3
  MaxWorkers = 3
  MaxTasks = 3
CHECK_DEADLOCK FALSE
INVARIANT SetOK
INVARIANT PoolOK
PROPERTY PauseSpec
PROPERTY WaitsEnd
