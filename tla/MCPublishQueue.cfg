SPECIFICATION FairSpec
CONSTANTS
  Workers = {w1, w2}
  Producers = {p1, p2}
  Depth = 2
  MaxTasks = 4
  MaxLives = 2
INVARIANTS Accounted OvertakesFew
PROPERTIES Refines LatestPublished StopReturns
