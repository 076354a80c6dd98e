SPECIFICATION FairSpec
CONSTANTS
  w1 = w1
  w2 = w2
  a = a
  b = b
  c = c
  NoTask = NoTask
  Workers = {w1, w2}
  Objects = {a, b, c}
  Graphs <- LeafGraphs
  Roots = {a}
  Cancellable = TRUE
  SegmentSize = 1
  DefensiveAfter = 0
  DefensiveMin = 0
INVARIANT TypeOK
INVARIANT MarkingComplete
INVARIANT TaskInOnePlace
PROPERTY MarkingSpec
PROPERTY LoopEnds
