SPECIFICATION Spec
CONSTANTS
  world = world
  other = other
  NoFrame = NoFrame
  Never = Never
  Poses <- MCPoses
  MaxPoses = 2
  PathPeriod = 2
  MaxReceived = 3
  Period = 3
  Settled = 2
  MaxSamples = 3
  Horizon = 7
INVARIANTS CountsExact Paced RecoveryIsReal PathIsLongestRun
