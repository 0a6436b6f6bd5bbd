SPECIFICATION AuditSpec
CONSTANTS
  f1 = f1
  f2 = f2
  f3 = f3
  v1 = v1
  o1 = o1
  o2 = o2
  Malformed = Malformed
  Local = Local
  Frames <- MCFrames
  Values <- MCValues
  Owners <- MCOwners
  Capacity = 2
  MaxHeard = 4
SYMMETRY Interchangeable
INVARIANTS AuditTypeOK ConflictExact PauseIsFinal SearchIsExact
PROPERTY NoHotReload
