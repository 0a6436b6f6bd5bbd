SPECIFICATION Spec
CONSTANTS
  None = None
  Failed = Failed
  Absent = Absent
  Earlier = Earlier
  Malformed <- BadNames
  Jobs <- MCJobs
  Parts = 2
INVARIANTS FrontCameraAgrees BranchesIndependent RobotPreservesGeometry ExportIsWhole
CHECK_DEADLOCK FALSE
