SPECIFICATION FairSpec
CONSTANTS
  Base = Base
  Device = Device
  Camera = Camera
  Imu = Imu
  World = World
  Odom = Odom
  v1 = v1
  v2 = v2
  rival = rival
  other = other
  e1 = e1
  e2 = e2
  Malformed = Malformed
  Local = Local
  NoEpoch = NoEpoch
  None = None
  Bridge = Bridge
  Frames <- MCFrames
  Values = {v1, v2}
  Owners = {Bridge, rival, other}
  Capacity = 8
  Epochs = {e1, e2}
  Stamps = {0, 1, 2, 3}
  Numbers = {0}
  Retain = 2
  Cameras = {Camera}
  Mount <- Mounting
  Anchor <- StartupAnchor
  Setups <- AllSetups
INVARIANTS TypeOK SnapshotIsAudited NeverReloads AnchorWorld
PROPERTIES DisputedNeverUsed InstallationFound DuplicatePauses
