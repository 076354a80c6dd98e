SPECIFICATION FairSpec
CONSTANTS
  m = m
  t1 = t1
  Main = m
  Threads = {m, t1}
  Conditional = FALSE
  MaxDepth = 2
INVARIANT TypeOK
INVARIANT ListedAlive
INVARIANT StackCoveredPastSetSp
PROPERTY PauseSpec
PROPERTY NobodyStuck
