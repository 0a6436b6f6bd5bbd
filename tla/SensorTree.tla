----------------------------- MODULE SensorTree -----------------------------
(***************************************************************************)
(* From the camera's calibration to ROS transforms, as transform_geometry  *)
(* .cpp and robot_tf.cpp compute them: the tree of the device, and what    *)
(* tf_mode=robot makes of it.  Pure operators; a failure that the code     *)
(* throws is the value Failed.                                             *)
(*                                                                         *)
(* A calibration is what getCalibration returned:                          *)
(*   version, hash  of the status, "" when absent                          *)
(*   json           the LiDAR part of its raw JSON, None if unreadable:    *)
(*                  version, hash, ready (a READY MID360 calibration with  *)
(*                  hash and source), extrinsics (a sequence), imu         *)
(*   rig            MakePanoramaCalibration's result, None on failure:     *)
(*                  hash, cameras (a sequence)                             *)
(* An extrinsic has id, index, target (the n of "camera_n"), source,       *)
(* readable (every field there, the convention the expected one) and rigid.*)
(***************************************************************************)
EXTENDS RigidGeometry, FiniteSets, Functions, TLC

CONSTANTS None, Failed, Malformed   \* Malformed: names that FrameName refuses

World == "camera_init"
Aft == "aft_mapped"
Imu == "mid360_imu"
Livox == "livox_frame"
DefaultDevice == "orbvi_link"
CameraIds == <<3, 2, 4, 5>>       \* of the camera indexes 0 .. 3
Ids == 2 .. 5

FrameName(n) == n # "" /\ n \notin Malformed

RawCameraFrameId(id) == "orbvi/camera/" \o ToString(id)

IsCameraFrame(n) == n \in {RawCameraFrameId(id) : id \in Ids}

\* The provers know nothing of what strings are made of.
ASSUME FramesAssumption ==
  /\ \A n \in {World, Aft, Imu, Livox} : FrameName(n) /\ ~IsCameraFrame(n)
  /\ \A id \in Ids : FrameName(RawCameraFrameId(id))
  /\ \A i, j \in Ids : RawCameraFrameId(i) = RawCameraFrameId(j) => i = j

(***************************************************************************)
(* Numbers are exact here, so the unit norm cannot fail; the zero vector   *)
(* is what an unset or underflown quaternion is.                           *)
(***************************************************************************)
ValidTransform(e) ==
  /\ FrameName(e.parent) /\ FrameName(e.child) /\ e.parent # e.child
  /\ e.quaternion # <<0, 0, 0, 0>>

-----------------------------------------------------------------------------
(***************************************************************************)
(* The LiDAR calibration.  The SDK wants all four extrinsics; otherwise    *)
(* PartialLidar recovers what stands on its own.                           *)
(***************************************************************************)
Differ(a, b) == a # "" /\ b # "" /\ a # b

Named(e) ==
  /\ e.index + 1 \in DOMAIN CameraIds /\ CameraIds[e.index + 1] = e.id
  /\ e.source = "lidar" /\ e.target = e.id

Recovered(e) == e.readable /\ Named(e)

Standing(extrinsics) == {i \in DOMAIN extrinsics : Recovered(extrinsics[i])}

ImuNominal(imu) == imu # None /\ imu.nominal /\ IsRigid(imu.rigid)

Lidar(c, extrinsics, imu) ==
  [hash |-> IF c.json.hash = "" THEN c.hash ELSE c.json.hash,
   extrinsics |-> extrinsics, imu |-> imu]

MakeLidarCalibration(c) ==
  IF c.json = None \/ ~c.json.ready \/ Len(c.json.extrinsics) # 4
       \/ \E i \in DOMAIN c.json.extrinsics : ~Recovered(c.json.extrinsics[i])
    THEN None
    ELSE Lidar(c, c.json.extrinsics, c.json.imu)

\* Mutated form of PartialLidar: one broken extrinsic discards the rest.
PartialLidarWhole(c) ==
  IF c.json = None \/ Differ(c.version, c.json.version)
       \/ Differ(c.hash, c.json.hash) \/ ~c.json.ready
       \/ \E i \in DOMAIN c.json.extrinsics : ~Recovered(c.json.extrinsics[i])
    THEN None
    ELSE Lidar(c, c.json.extrinsics, IF ImuNominal(c.json.imu) THEN c.json.imu ELSE None)

PartialLidar(c) ==
  IF c.json = None \/ Differ(c.version, c.json.version)
       \/ Differ(c.hash, c.json.hash) \/ ~c.json.ready
    THEN None
    ELSE Lidar(c, Restrict(c.json.extrinsics, Standing(c.json.extrinsics)),
               IF ImuNominal(c.json.imu) THEN c.json.imu ELSE None)

-----------------------------------------------------------------------------
(***************************************************************************)
(* BuildSensorTransforms.  A tree has edges, at most one per child, and    *)
(* diagnostics.                                                            *)
(***************************************************************************)
EmptyTree == [edges |-> {}, diagnostics |-> {}]

Diagnosed(tree, what) == [tree EXCEPT !.diagnostics = @ \cup {what}]

Children(edges) == {e.child : e \in edges}

ParentIn(edges) == [c \in Children(edges) |-> (CHOOSE e \in edges : e.child = c).parent]

AncestorsOf(edges, f) ==
  LET parent == ParentIn(edges)
      climb[n \in 0 .. Cardinality(edges)] ==
        IF n = 0 THEN {f}
        ELSE climb[n - 1] \cup {parent[g] : g \in climb[n - 1] \cap DOMAIN parent}
  IN  climb[Cardinality(edges)]

Added(tree, p, c, rigid) ==
  LET edge == Edge(p, c, rigid.t, Quaternion(rigid.r))
  IN  IF ~IsRigid(rigid) THEN Diagnosed(tree, "invalid_rigid_transform")
      ELSE IF ~ValidTransform(edge) \/ c \in Children(tree.edges)
        THEN Diagnosed(tree, "invalid_or_duplicate_frame")
      ELSE IF c \in AncestorsOf(tree.edges, p) THEN Diagnosed(tree, "frame_cycle")
      ELSE [tree EXCEPT !.edges = @ \cup {edge}]

HasImu(lidar) == lidar # None /\ ImuNominal(lidar.imu)

ImuBranch(tree, lidar) ==
  IF HasImu(lidar)
    THEN Added(Added(tree, Aft, Imu, Rigid(Identity, Zero)), Aft, Livox, lidar.imu.rigid)
    ELSE Diagnosed(tree, "missing_or_invalid_lidar_imu_extrinsic")

DepthName(n) == FrameName(n) /\ n \notin {Aft, Livox, Imu, World} /\ ~IsCameraFrame(n)

\* ROS_BODY: the reference optical axes (x, y, z) are (z, -x, -y).
BaseFromReference == Rigid(<<0, 0, 1, -1, 0, 0, 0, -1, 0>>, Zero)

Compatible(lidar, rig) == lidar = None \/ rig = None \/ ~Differ(lidar.hash, rig.hash)

FrontsOf(rig) == {i \in DOMAIN rig.cameras : rig.cameras[i].role = "front"}
AnchorsFor(lidar, camera) ==
  {i \in DOMAIN lidar.extrinsics : lidar.extrinsics[i].id = camera.id}

(***************************************************************************)
(* The anchor of the device on the IMU goes through the front camera.      *)
(* Ambiguous ones end the construction.                                    *)
(***************************************************************************)
Anchorable(lidar, rig) == HasImu(lidar) /\ rig # None /\ Compatible(lidar, rig)

Front(rig) == rig.cameras[CHOOSE i \in FrontsOf(rig) : TRUE]

Ambiguity(lidar, rig) ==
  IF ~Anchorable(lidar, rig) \/ FrontsOf(rig) = {} THEN None
  ELSE IF Cardinality(FrontsOf(rig)) > 1 THEN "duplicate_front_camera"
  ELSE IF Front(rig).full /\ Cardinality(AnchorsFor(lidar, Front(rig))) > 1
    THEN "duplicate_front_anchor"
  ELSE None

AnchorPose(lidar, front, anchor) ==
  Compose(lidar.imu.rigid,
          Inverted(Compose(Compose(BaseFromReference, front.rigid), anchor.rigid)))

AnchorBranch(tree, lidar, rig, depth) ==
  LET usable == /\ Anchorable(lidar, rig) /\ FrontsOf(rig) # {}
                /\ Front(rig).full /\ AnchorsFor(lidar, Front(rig)) # {}
      anchor == lidar.extrinsics[CHOOSE i \in AnchorsFor(lidar, Front(rig)) : TRUE]
      added == IF /\ usable
                  /\ anchor.source = "lidar" /\ anchor.target = Front(rig).id
                  /\ IsRigid(Front(rig).rigid) /\ IsRigid(anchor.rigid)
                 THEN Added(tree, Aft, depth, AnchorPose(lidar, Front(rig), anchor))
                 ELSE tree
  IN  IF depth \in Children(added.edges) THEN added
      ELSE Diagnosed(added, "missing_or_invalid_front_anchor_or_rig")

Distinct(seq) == \A i, j \in DOMAIN seq : seq[i] = seq[j] => i = j

CameraBranch(tree, c, depth) ==
  IF c.full /\ IsRigid(c.rigid)
    THEN Added(tree, depth, RawCameraFrameId(c.id), Compose(BaseFromReference, c.rigid))
    ELSE Diagnosed(tree, "invalid_camera")

CameraBranches(tree, rig, depth) ==
  LET branches[n \in 0 .. Len(rig.cameras)] ==
        IF n = 0 THEN tree ELSE CameraBranch(branches[n - 1], rig.cameras[n], depth)
  IN  IF rig = None THEN Diagnosed(tree, "missing_camera_rig")
      ELSE IF \/ ~Distinct([i \in DOMAIN rig.cameras |-> rig.cameras[i].id])
              \/ ~Distinct([i \in DOMAIN rig.cameras |-> rig.cameras[i].role])
        THEN Diagnosed(tree, "duplicate_camera_identity")
      ELSE branches[Len(rig.cameras)]

BuildSensorTransforms(lidar, rig, depth) ==
  LET start == IF rig # None /\ Len(rig.cameras) # 4
                 THEN Diagnosed(EmptyTree, "incomplete_camera_rig") ELSE EmptyTree
      imu == ImuBranch(start, lidar)
      compared == IF Compatible(lidar, rig) THEN imu
                  ELSE Diagnosed(imu, "camera_calibration_hash_mismatch")
  IN  IF ~DepthName(depth) THEN Diagnosed(imu, "invalid_depth_frame")
      ELSE IF Ambiguity(lidar, rig) # None THEN Diagnosed(compared, Ambiguity(lidar, rig))
      ELSE CameraBranches(AnchorBranch(compared, lidar, rig, depth), rig, depth)

LoadSensorTransforms(c, depth) ==
  LET whole == MakeLidarCalibration(c)
      tree == BuildSensorTransforms(IF whole # None THEN whole ELSE PartialLidar(c),
                                    c.rig, depth)
  IN  [tree EXCEPT !.diagnostics =
         @ \cup (IF whole = None THEN {"lidar_calibration"} ELSE {})
           \cup (IF c.rig = None THEN {"camera_calibration"} ELSE {})]

-----------------------------------------------------------------------------
(***************************************************************************)
(* The mounting.  A mounting has frames (the edge base_from_device), posed *)
(* (pose_from_config) and plane (None without one).                        *)
(***************************************************************************)
Reserved(n) == n \in {World, Aft, Imu, Livox} \/ IsCameraFrame(n)

ValidMounting(m) ==
  ValidTransform(m.frames) /\ ~Reserved(m.frames.parent) /\ ~Reserved(m.frames.child)

Checked(m) == IF ValidMounting(m) THEN m ELSE Failed

MakeRobotMounting(parent, child, xyz, rpy) ==
  Checked([frames |-> Edge(parent, child, xyz, RpyQuaternion(rpy[1], rpy[2], rpy[3])),
           posed |-> TRUE, plane |-> None])

(***************************************************************************)
(* The file: parent, child, pose (None or xyz and rpy in quarter turns)    *)
(* and plane, or None where it cannot be read or has other keys.  A pose   *)
(* is required or an unknown key.                                          *)
(***************************************************************************)
LoadRobotMounting(file, pose) ==
  IF file = None \/ (file.pose # None) # pose THEN Failed
  ELSE LET m == MakeRobotMounting(file.parent, file.child,
                                  IF pose THEN file.pose.xyz ELSE Zero,
                                  IF pose THEN file.pose.rpy ELSE Zero)
       IN  IF m = Failed \/ (file.plane # None /\ file.plane[1] = Zero) THEN Failed
           ELSE [m EXCEPT !.posed = pose, !.plane = file.plane]

ConfigureTf(mode, file, publish, body) ==
  LET m == LoadRobotMounting(file, publish)
  IN  IF mode = "device"
        THEN IF file # None \/ publish THEN Failed
             ELSE [device |-> IF body = "" THEN DefaultDevice ELSE body,
                   mounting |-> None, publish |-> FALSE]
      ELSE IF mode # "robot" \/ m = Failed THEN Failed
      ELSE IF body # "" /\ body # m.frames.child THEN Failed
      ELSE [device |-> m.frames.child, mounting |-> m, publish |-> publish]

(***************************************************************************)
(* mounting_config=sdk: the projection the board uses, with its quaternion.*)
(***************************************************************************)
ConfigureBoardTf(projection, publish, body) ==
  LET m == MakeRobotMounting(projection.parent, projection.child, projection.xyz, Zero)
  IN  IF m = Failed \/ (body # "" /\ body # projection.child) THEN Failed
      ELSE [device |-> projection.child, publish |-> publish,
            mounting |-> [m EXCEPT !.frames.quaternion = projection.quaternion,
                                   !.plane = projection.plane]]

-----------------------------------------------------------------------------
(***************************************************************************)
(* BuildRobotTransforms: sensors move from the IMU's frame to the device's *)
(* and aft_mapped becomes an alias below mid360_imu.                       *)
(***************************************************************************)
\* Mutated form of Reparented: the IMU takes its old parent along nowhere.
ReparentedUnaliased(anchor, e) == {ComposeTransforms(InverseTransform(anchor), e)}

Reparented(anchor, e) ==
  {ComposeTransforms(InverseTransform(anchor), e)}
    \cup (IF e.child = Imu THEN {InverseTransform(e)} ELSE {})

Throws(tree, m, publish) ==
  \/ ~ValidMounting(m)
  \/ \E e \in tree.edges : ~ValidTransform(e) \/ e.child = m.frames.parent
  \/ publish /\ ~m.posed

BuildRobotTransforms(tree, m, publish) ==
  LET mount == m.frames
      anchors == {e \in tree.edges : e.parent = Aft /\ e.child = mount.child}
      anchored == anchors # {}
      anchor == CHOOSE e \in anchors : TRUE
      sensors == {e \in tree.edges :
                    e.parent = mount.child \/ (~anchored /\ e.parent = Aft)}
      moved == IF ~anchored THEN {}
               ELSE UNION {Reparented(anchor, e) :
                             e \in {x \in tree.edges : x.parent = Aft /\ x.child # mount.child}}
  IN  IF Throws(tree, m, publish) THEN Failed
        ELSE [edges |-> sensors \cup moved \cup (IF publish THEN {mount} ELSE {}),
              diagnostics |-> tree.diagnostics \cup
                (IF anchored THEN {} ELSE {"robot_tf_missing_device_imu_anchor"}),
              imuFromBase |-> IF anchored /\ m.posed
                                THEN ComposeTransforms(anchor, InverseTransform(mount))
                                ELSE None]

RobotPoseTransform(worldFromImu, imuFromBase) ==
  IF /\ ValidTransform(worldFromImu) /\ ValidTransform(imuFromBase)
     /\ worldFromImu.parent = World /\ worldFromImu.child = Aft /\ imuFromBase.parent = Aft
    THEN ComposeTransforms(worldFromImu, imuFromBase)
    ELSE None
=============================================================================
