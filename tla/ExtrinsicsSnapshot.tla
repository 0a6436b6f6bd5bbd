------------------------- MODULE ExtrinsicsSnapshot -------------------------
(***************************************************************************)
(* The two programs that turn a calibration into transforms: BridgeNode's  *)
(* PreparePoseTransforms, which broadcasts them on /tf_static, and         *)
(* orbvi_export_extrinsics (export_extrinsics.cpp), which writes them to a *)
(* new file in as many write() calls as it takes.  The exporter may be     *)
(* killed at any point.                                                    *)
(***************************************************************************)
EXTENDS SensorTree

CONSTANTS
  Jobs,     \* program, calibration, and the TF arguments mode, file (a
            \* mounting file or None), publish and body; a board's projection
            \* (or None), which mounting_config=sdk uses instead of a file
  Parts,    \* write() calls that the JSON may take
  Absent,   \* no output file
  Earlier   \* somebody else's output file

ASSUME PartsAssumption == Parts \in Nat \ {0}
IsList(s) == Len(s) \in Nat /\ DOMAIN s = 1 .. Len(s)

\* What getCalibration returns: whole matrices and vectors, cameras 2 to 5.
ASSUME CalibrationAssumption ==
  \A j \in Jobs :
    LET c == j.calibration
    IN  /\ c.json # None =>
             /\ IsList(c.json.extrinsics)
             /\ \A i \in DOMAIN c.json.extrinsics : c.json.extrinsics[i].rigid \in Rigids
             /\ c.json.imu # None => c.json.imu.rigid \in Rigids
        /\ c.rig # None =>
             /\ IsList(c.rig.cameras)
             /\ \A i \in DOMAIN c.rig.cameras :
                  c.rig.cameras[i].id \in Ids /\ c.rig.cameras[i].rigid \in Rigids

\* None is no LiDAR calibration and nothing that Ambiguity finds.
ASSUME NoneAssumption ==
  /\ None \notin {"duplicate_front_camera", "duplicate_front_anchor"}
  /\ \A j \in Jobs :
       LET json == j.calibration.json
       IN  json # None =>
             \A known \in {json.extrinsics, Restrict(json.extrinsics, Standing(json.extrinsics))},
                imu \in {json.imu, None} :
               Lidar(j.calibration, known, imu) # None

\* What a mounting file holds that parses, and a projection that the SDK
\* calls valid.
ASSUME MountingAssumption ==
  \A j \in Jobs :
    /\ j.publish \in BOOLEAN
    /\ j.file # None /\ j.file.pose # None =>
         j.file.pose.xyz \in Vector /\ j.file.pose.rpy \in [1 .. 3 -> 0 .. 3]
    /\ j.projection # None =>
         j.projection.xyz \in Vector /\ j.projection.quaternion \in Quarters

ASSUME OutcomeAssumption == Absent # Earlier /\ None \notin {0, 1, 3}

VARIABLES
  job,
  tf,         \* tf_setup_, None before it is known
  tree,       \* device transforms, None before they are built
  robot,      \* what BuildRobotTransforms made of them, None without mounting
  sent,       \* edges on /tf_static
  file,       \* the output file: Absent, Earlier or the parts written so far
  found,      \* what the output file was when the program started
  at          \* step, "done" when it has ended, and status, None if killed

vars == <<job, tf, tree, robot, sent, file, found, at>>

IsExport == job.program = "export"

Ended(status) == at' = [step |-> "done", status |-> status]
GoTo(step) == at' = [step |-> step, status |-> None]

Init ==
  /\ job \in Jobs
  /\ tf = None /\ tree = None /\ robot = None /\ sent = {}
  /\ found \in (IF job.program = "export" THEN {Absent, Earlier} ELSE {Absent})
  /\ file = found
  /\ at = [step |-> "configure", status |-> None]

-----------------------------------------------------------------------------
Setup == IF job.mode = "robot" /\ job.projection # None
           THEN ConfigureBoardTf(job.projection, job.publish, job.body)
           ELSE ConfigureTf(job.mode, job.file, job.publish, job.body)

Configure ==
  /\ at.step = "configure"
  /\ tf' = Setup
  /\ IF Setup = Failed THEN Ended(1) ELSE GoTo("fetch")
  /\ UNCHANGED <<job, tree, robot, sent, file, found>>

(***************************************************************************)
(* getCalibration.  The bridge goes on without transforms, the exporter    *)
(* gives up.                                                               *)
(***************************************************************************)
FetchFails ==
  /\ at.step = "fetch"
  /\ Ended(IF IsExport THEN 1 ELSE 0)
  /\ UNCHANGED <<job, tf, tree, robot, sent, file, found>>

Build ==
  /\ at.step = "fetch"
  /\ tree' = LoadSensorTransforms(job.calibration, tf.device)
  /\ GoTo(IF tf.mounting = None THEN "use" ELSE "mount")
  /\ UNCHANGED <<job, tf, robot, sent, file, found>>

(***************************************************************************)
(* Only the exporter adds the mounting: the bridge's own session claims it *)
(* later.  An exception ends the exporter with 1 and the bridge with it.   *)
(***************************************************************************)
Mount ==
  /\ at.step = "mount"
  /\ robot' = BuildRobotTransforms(tree, tf.mounting, IsExport /\ tf.publish)
  /\ IF robot' = Failed THEN Ended(1) ELSE GoTo("use")
  /\ UNCHANGED <<job, tf, tree, sent, file, found>>

Snapshot == IF robot = None THEN tree ELSE robot

Broadcast ==
  /\ at.step = "use" /\ ~IsExport
  /\ sent' = Snapshot.edges
  /\ Ended(0)
  /\ UNCHANGED <<job, tf, tree, robot, file, found>>

-----------------------------------------------------------------------------
\* Mutated form of Open: without O_EXCL.
OpenAny ==
  /\ at.step = "use" /\ IsExport
  /\ file' = 0 /\ GoTo("write")
  /\ UNCHANGED <<job, tf, tree, robot, sent, found>>

Open ==
  /\ at.step = "use" /\ IsExport
  /\ IF file = Absent THEN file' = 0 /\ GoTo("write")
                      ELSE UNCHANGED file /\ Ended(1)
  /\ UNCHANGED <<job, tf, tree, robot, sent, found>>

Write ==
  /\ at.step = "write"
  /\ \E n \in file + 1 .. Parts :
       /\ file' = n
       /\ GoTo(IF n = Parts THEN "close" ELSE "write")
  /\ UNCHANGED <<job, tf, tree, robot, sent, found>>

(***************************************************************************)
(* A failing write or close removes what was written; EINTR is retried.    *)
(***************************************************************************)
OutputFails ==
  /\ at.step \in {"write", "close"}
  /\ file' = Absent
  /\ Ended(1)
  /\ UNCHANGED <<job, tf, tree, robot, sent, found>>

Interrupted == at.step = "write" /\ UNCHANGED vars

Close ==
  /\ at.step = "close"
  /\ Ended(IF Snapshot.diagnostics = {} THEN 0 ELSE 3)
  /\ UNCHANGED <<job, tf, tree, robot, sent, file, found>>

Killed ==
  /\ IsExport /\ at.step # "done"
  /\ Ended(None)
  /\ UNCHANGED <<job, tf, tree, robot, sent, file, found>>

Next ==
  \/ Configure \/ FetchFails \/ Build \/ Mount \/ Broadcast
  \/ Open \/ Write \/ OutputFails \/ Interrupted \/ Close \/ Killed

Spec == Init /\ [][Next]_vars

-----------------------------------------------------------------------------
(***************************************************************************)
(* The poses of all frames below one, by composing edges downwards.        *)
(***************************************************************************)
PosesBelow(edges, root) ==
  LET poses[n \in 0 .. Cardinality(edges)] ==
        IF n = 0 THEN [f \in {root} |-> Edge(root, root, Zero, <<0, 0, 0, 1>>)]
        ELSE LET known == poses[n - 1]
                 next == {e \in edges : e.parent \in DOMAIN known /\ e.child \notin DOMAIN known}
             IN  [f \in DOMAIN known \cup Children(next) |->
                    IF f \in DOMAIN known THEN known[f]
                    ELSE LET e == CHOOSE x \in next : x.child = f
                         IN  ComposeTransforms(known[e.parent], e)]
  IN  poses[Cardinality(edges)]

Forest(edges) ==
  /\ Cardinality(Children(edges)) = Cardinality(edges)
  /\ \A e \in edges : e.child \notin AncestorsOf(edges, e.parent)

Device == tf.device
Built == tree # None
Anchored == Device \in Children(tree.edges)

(***************************************************************************)
(* The device frame hangs from the IMU through the LiDAR and the front     *)
(* camera: a LiDAR point taken along the tree to that camera is where the  *)
(* calibration file says it is, for every rotation, half turns included    *)
(* (matrices are converted to quaternions, which ROS composes).  A device  *)
(* whose name DepthName refuses has no camera below it.                    *)
(***************************************************************************)
FrontCameraAgrees ==
  Built /\ DepthName(Device) /\ Anchored =>
    LET rig == job.calibration.rig
        front == Front(rig)
        anchor == CHOOSE e \in Range(job.calibration.json.extrinsics) :
                    Recovered(e) /\ e.id = front.id
        poses == PosesBelow(tree.edges, Aft)
    IN  RawCameraFrameId(front.id) \in DOMAIN poses =>
          \A p \in {Zero} \cup Range(Axes) :
            TransformPoint(InverseTransform(poses[RawCameraFrameId(front.id)]),
                           TransformPoint(poses[Livox], p))
              = Plus(Apply(anchor.rigid.r, p), anchor.rigid.t)

(***************************************************************************)
(* docs/TF.md: "invalid/missing dependencies emit diagnostics and omit     *)
(* affected branches; independent valid branches remain available."  The   *)
(* IMU pair stands as soon as the IMU extrinsic is sound, the device frame *)
(* as soon as the IMU, the front camera and its extrinsic are, and each    *)
(* camera as soon as it is sound itself and the rig names every camera     *)
(* once, whatever else is broken.  What the code calls ambiguous for the   *)
(* front camera is excluded: it costs every camera (see README).           *)
(***************************************************************************)
LidarHeader(c) ==
  c.json # None /\ c.json.ready /\ ~Differ(c.version, c.json.version) /\ ~Differ(c.hash, c.json.hash)

SoundImu(c) == LidarHeader(c) /\ ImuNominal(c.json.imu)

SoundCamera(camera) == camera.full /\ IsRigid(camera.rigid)

SoundRig(c) ==
  /\ c.rig # None
  /\ \A i, j \in DOMAIN c.rig.cameras :
       /\ c.rig.cameras[i].id = c.rig.cameras[j].id => i = j
       /\ c.rig.cameras[i].role = c.rig.cameras[j].role => i = j

Extrinsics(c, id) ==
  {i \in DOMAIN c.json.extrinsics : Recovered(c.json.extrinsics[i]) /\ c.json.extrinsics[i].id = id}

SoundAnchor(c) ==
  /\ SoundImu(c) /\ SoundRig(c) /\ c.json.hash = c.rig.hash
  /\ \E i \in DOMAIN c.rig.cameras :
       LET front == c.rig.cameras[i]
       IN  /\ front.role = "front" /\ SoundCamera(front)
           /\ Cardinality(Extrinsics(c, front.id)) = 1
           /\ \A j \in Extrinsics(c, front.id) : IsRigid(c.json.extrinsics[j].rigid)

Ambiguous(c) ==
  c.json # None /\ \E id \in Ids : Cardinality(Extrinsics(c, id)) > 1

BranchesIndependent ==
  Built =>
    LET c == job.calibration
        frames == Children(tree.edges)
    IN  /\ Forest(tree.edges)
        /\ SoundImu(c) => {Imu, Livox} \subseteq frames
        /\ DepthName(Device) =>
             /\ SoundAnchor(c) => Device \in frames
             /\ SoundRig(c) /\ ~Ambiguous(c) =>
                  \A camera \in Range(c.rig.cameras) :
                    SoundCamera(camera) => RawCameraFrameId(camera.id) \in frames

(***************************************************************************)
(* tf_mode=robot moves the sensors to another root and changes nothing     *)
(* else: no frame is lost, every two sensors keep their relative pose, the *)
(* result is a forest, and the pose of the base is the pose of the IMU     *)
(* taken through mounting and anchor.  BuildRobotTransforms never throws   *)
(* on a tree built for the mounting's own child frame, although it is      *)
(* called where nothing catches it (bridge_node_ros2.cpp:1294).            *)
(***************************************************************************)
WorldFromImu == Edge(World, Aft, <<3, -1, 2>>, <<1, 1, 1, 1>>)

RobotPreservesGeometry ==
  robot # None =>
    /\ ~Throws(tree, tf.mounting, IsExport /\ tf.publish) /\ Forest(robot.edges)
    /\ Children(tree.edges) \ {Device} \subseteq Children(robot.edges)
    /\ Anchored =>
         LET before == PosesBelow(tree.edges, Aft)
             after == PosesBelow(robot.edges, Device)
         IN  /\ DOMAIN before \subseteq DOMAIN after
             /\ \A f \in DOMAIN before :
                  Placement(after[f]) =
                    Placement(ComposeTransforms(InverseTransform(before[Device]), before[f]))
             /\ robot.imuFromBase # None =>
                  Placement(ComposeTransforms(RobotPoseTransform(WorldFromImu, robot.imuFromBase),
                                              tf.mounting.frames))
                    = Placement(ComposeTransforms(WorldFromImu, before[Device]))

(***************************************************************************)
(* "existing files are never overwritten" (--help): the output is there    *)
(* and whole when the exporter says so, with status 0 only if nothing was  *)
(* left out; when it reports a failure it leaves what it found.            *)
(***************************************************************************)
ExportIsWhole ==
  /\ found = Earlier => file = Earlier
  /\ IsExport /\ at.status \in {0, 3} => file = Parts
  /\ at.status = 1 => file = found
=============================================================================
