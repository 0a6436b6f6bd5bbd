SPECIFICATION Spec
CONSTANTS
  NaN = NaN
  None = None
  Failed = Failed
  Malformed <- BadNames
  Params <- MCParams
  Files <- MCFiles
  Projections <- MCProjections
  MaxFrames = 2
INVARIANTS OutputsHaveSources BoardSnapshot
PROPERTIES Settled EndsClean
CHECK_DEADLOCK FALSE
