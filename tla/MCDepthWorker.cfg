SPECIFICATION FairSpec
CONSTANTS
  CacheSize = 2
  MaxFrames = 5
  MaxLives = 2
INVARIANTS CacheIsCurrent
PROPERTIES Refines LatestTaken StopReturns
CHECK_DEADLOCK FALSE
