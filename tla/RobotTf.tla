------------------------------- MODULE RobotTf ------------------------------
(***************************************************************************)
(* tf_mode=robot: RobotTfSession (robot_tf_session.hpp) as BridgeNode of   *)
(* bridge_node_ros2.cpp drives it from three threads.                      *)
(*                                                                         *)
(*   spin thread   HandleRobotTf for every transform heard on /tf_static   *)
(*                 and /tf, and PollRobotTf every 100 ms                   *)
(*   SDK callback  the dynamic part of PublishVio, serialized by           *)
(*                 vio_tf_mutex_                                           *)
(*   clock         the 500 ms discovery period                             *)
(*                                                                         *)
(* A step is what happens under one hold of the session's mutex, plus      *)
(* thread-local work: the spin thread installs a record into the tf2       *)
(* buffer after it released the mutex, and PublishVio reads the snapshot,  *)
(* runs the gate, computes and sends in separate steps.                    *)
(***************************************************************************)
EXTENDS StaticTfRegistry, PoseGate

CONSTANTS
  Base, Device, Imu, World, Odom,   \* mounting parent and child, mid360_imu,
                                    \* camera_init, odom_frame
  Cameras,         \* orbvi/camera/... frames
  Mount,           \* base_from_device of the mounting config
  Anchor,          \* the record StartupOdomTransform computes
  Bridge,          \* the bridge's own publisher, as /tf_static names it
  Setups,          \* installations and the ROS graphs around them (below)
  None

(***************************************************************************)
(* A setup: sensors_, the records of the SDK calibration snapshot; which   *)
(* of mounting, sensors and odom the bridge publishes; the <<record,       *)
(* owner>> that other publishers may announce, and those of them whose     *)
(* publishers are certain to run; the children somebody publishes on /tf;  *)
(* and the optimized pose samples.  Such a sample is one of the gate's     *)
(* with two fields more.  native: its frames are camera_init and           *)
(* aft_mapped, the only ones RobotPoseTransform converts (they come from   *)
(* the metadata of every sample).  level: StartupOdomTransform finds a     *)
(* heading and a ground projection.                                        *)
(***************************************************************************)
PoseSample(p) ==
  /\ [f \in DOMAIN p \ {"native", "level"} |-> p[f]] \in Sample
  /\ {p.native, p.level} \subseteq BOOLEAN

ASSUME RobotTfAssumption ==
  /\ {Base, Device, Imu, World, Odom} \cup Cameras \subseteq Frames
  /\ Cardinality({Base, Device, Imu, World, Odom}) = 5
  /\ Mount \in Record /\ Valid(Mount) /\ Mount.parent = Base /\ Mount.child = Device
  /\ Anchor \in Record /\ Valid(Anchor) /\ Anchor.parent = Odom /\ Anchor.child = World
  /\ None \notin Record
  /\ Bridge \in Owners
  /\ \A s \in Setups :
       /\ s.sensors \subseteq {r \in Record : Valid(r)}
       /\ \A q, r \in s.sensors : q.child = r.child => q = r
       /\ s.publish \subseteq {"mounting", "sensors", "odom"}
       /\ s.present \subseteq s.static /\ s.static \subseteq Record \X (Owners \ {Bridge})
       /\ s.dynamic \subseteq Frames
       /\ \A p \in s.poses : PoseSample(p)

VARIABLES
  setup,       \* the setup of this process; never changes
  registry,    \* registry_
  buffer,      \* robot_tf_buffer_: child -> record
  snapshot,    \* snapshot_
  blocked,     \* blocked_
  installed,   \* mounting_installed_
  discovered,  \* 500 ms have passed since started_
  odom,        \* odom_
  announced,   \* records the bridge has sent to /tf_static
  spin,        \* record HandleRobotTf is about to put into the buffer
  vio,         \* what PublishVio is doing with a sample
  heard,       \* history: <<record, owner>> observed
  anchorWorld, \* history: producer epoch the startup anchor belongs to
  adopted      \* history: installations and IMU corrections ever adopted

sessionVars == <<registry, buffer, snapshot, blocked, installed, discovered,
                 odom, announced, spin>>
vars == <<setup, sessionVars, vio, heard, anchorWorld, adopted, gateVars>>

SdkSensors == setup.sensors
PublishMounting == "mounting" \in setup.publish
PublishSensors == "sensors" \in setup.publish
PublishOdom == "odom" \in setup.publish
StaticFeed == setup.static

-----------------------------------------------------------------------------
(***************************************************************************)
(* Query: the audited path must exist and tf2 must give the same pose.     *)
(***************************************************************************)
BufferParent(buf) == [c \in DOMAIN buf |-> buf[c].parent]

Lookup(buf, p, c) == {buf[e] : e \in PathEdges(BufferParent(buf), p, c)}

CanLookup(buf, p, c) ==
  LET parent == BufferParent(buf)
  IN  ~Cyclic(parent, p) /\ ~Cyclic(parent, c) /\ Joined(parent, p, c)

\* Mutated form of Query: what tf2 answers is believed.
QueryUnaudited(reg, buf, p, c) == CanLookup(buf, p, c)

Query(reg, buf, p, c) ==
  /\ Resolves(reg, p, c)
  /\ CanLookup(buf, p, c)
  /\ Lookup(buf, p, c) = Resolved(reg, p, c)

(***************************************************************************)
(* ResolvedRobotTf.  The cameras are those the SDK attached to the device. *)
(***************************************************************************)
DeviceCameras == {r.child : r \in {s \in SdkSensors : s.parent = Device /\ s.child \in Cameras}}

AuditSnapshot(reg, buf, snap) ==
  /\ Query(reg, buf, Base, Device)
  /\ snap.imu # None => Query(reg, buf, Base, Imu)
  /\ \A c \in DeviceCameras : Query(reg, buf, Base, c)

\* Mutated form of Recheck: only Poll looks at the paths again.
RecheckLater(reg, buf, snap) == snap

Recheck(reg, buf, snap) ==
  IF snap # None /\ ~AuditSnapshot(reg, buf, snap) THEN None ELSE snap

(***************************************************************************)
(* The part of Poll after the mounting is settled: everything must resolve *)
(* but the IMU branch, which may be missing or become connected later.     *)
(***************************************************************************)
Refreshed(reg, buf) ==
  IF \/ ~Query(reg, buf, Base, Device)
     \/ \E c \in DeviceCameras : ~Query(reg, buf, Base, c)
     \/ snapshot # None /\ ~AuditSnapshot(reg, buf, snapshot)
    THEN None
    ELSE [device |-> Resolved(reg, Base, Device),
          cameras |-> [c \in DeviceCameras |-> Resolved(reg, Base, c)],
          imu |-> IF HasChild(reg, Imu) /\ Query(reg, buf, Base, Imu)
                    THEN Resolved(reg, Base, Imu) ELSE None]

Store(buf, r) == [c \in DOMAIN buf \cup {r.child} |-> IF c = r.child THEN r ELSE buf[c]]

(***************************************************************************)
(* The constructor seeds the sensors, which PreparePoseTransforms then     *)
(* broadcasts; a bridge that publishes neither uses its mounting at once.  *)
(***************************************************************************)
Seeds == SdkSensors \cup
           IF PublishMounting /\ ~PublishSensors THEN {Mount} ELSE {}

SeedOf(c) == CHOOSE r \in Seeds : r.child = c
SeedChildren == {r.child : r \in Seeds}

Init ==
  /\ setup \in Setups
  /\ GateInit
  /\ registry = [EmptyRegistry EXCEPT !.entries =
                   [c \in SeedChildren |-> FirstEntry(SeedOf(c), Local)]]
  /\ buffer = [c \in SeedChildren |-> SeedOf(c)]
  /\ snapshot = None
  /\ blocked = FALSE
  /\ installed = (PublishMounting /\ ~PublishSensors)
  /\ discovered = FALSE
  /\ odom = None
  /\ announced = IF PublishSensors THEN SdkSensors ELSE {}
  /\ spin = None
  /\ vio = [at |-> "idle"]
  /\ heard = {}
  /\ anchorWorld = None
  /\ adopted = {}

Adopt == adopted' = IF snapshot' = None THEN adopted
                    ELSE adopted \cup {<<Device, snapshot'.device>>}
                           \cup {<<c, snapshot'.cameras[c]>> : c \in DeviceCameras}
                           \cup {<<Imu, i>> : i \in {snapshot'.imu} \ {None}}

-----------------------------------------------------------------------------
(***************************************************************************)
(* HandleRobotTf, one transform of a message: Observe under the mutex;     *)
(* then, if the child is tracked, the buffer takes the record (Install).   *)
(* The bridge hears its own broadcasts too.                                *)
(***************************************************************************)
Audible == StaticFeed \cup (announced \X {Bridge})

\* Mutated form of Installable: tf2 is left to refuse malformed records.
InstallableAny(reg, r) == TracksStatic(reg, r.child)

Installable(reg, r) == TracksStatic(reg, r.child) /\ Valid(r)

HearStatic(r, owner) ==
  /\ spin = None
  /\ <<r, owner>> \in Audible
  /\ registry' = Observed(registry, r, owner)
  /\ snapshot' = Recheck(registry', buffer, snapshot)
  /\ spin' = IF Installable(registry', r) THEN r ELSE None
  /\ heard' = heard \cup {<<r, owner>>}
  /\ UNCHANGED <<buffer, blocked, installed, discovered, odom, announced, vio,
                 anchorWorld, adopted, setup, gateVars>>

Install ==
  /\ spin # None
  /\ buffer' = Store(buffer, spin)
  /\ spin' = None
  /\ UNCHANGED <<registry, snapshot, blocked, installed, discovered, odom,
                 announced, vio, heard, anchorWorld, adopted, setup, gateVars>>

HearDynamic(c) ==
  /\ spin = None
  /\ c \in setup.dynamic
  /\ registry' = ObservedDynamic(registry, c)
  /\ snapshot' = Recheck(registry', buffer, snapshot)
  /\ UNCHANGED <<buffer, blocked, installed, discovered, odom, announced, spin,
                 vio, heard, anchorWorld, adopted, setup, gateVars>>

(***************************************************************************)
(* Poll on the 100 ms timer, which the same thread runs.  A blocked        *)
(* session stays as it is; a mounting still to be claimed waits for the    *)
(* discovery period and gives way to any publisher found meanwhile.        *)
(***************************************************************************)
MustClaim == PublishMounting /\ ~installed

DiscoveryEnds ==
  /\ ~discovered
  /\ discovered' = TRUE
  /\ UNCHANGED <<registry, buffer, snapshot, blocked, installed, odom, announced,
                 spin, vio, heard, anchorWorld, adopted, setup, gateVars>>

PollRefresh ==
  /\ spin = None /\ ~blocked /\ ~MustClaim
  /\ snapshot' = Refreshed(registry, buffer)
  /\ Adopt
  /\ UNCHANGED <<registry, buffer, blocked, installed, discovered, odom, announced,
                 spin, vio, heard, anchorWorld, setup, gateVars>>

PollClaim ==
  /\ spin = None /\ ~blocked /\ MustClaim /\ discovered
  /\ ~HasChild(registry, Device)
  /\ registry' = Observed(registry, Mount, Local)
  /\ buffer' = Store(buffer, Mount)
  /\ announced' = announced \cup {Mount}
  /\ installed' = TRUE
  /\ snapshot' = Refreshed(registry', buffer')
  /\ Adopt
  /\ UNCHANGED <<blocked, discovered, odom, spin, vio, heard, anchorWorld, setup, gateVars>>

PollYield ==
  /\ spin = None /\ ~blocked /\ MustClaim /\ discovered
  /\ HasChild(registry, Device)
  /\ blocked' = TRUE
  /\ snapshot' = None
  /\ UNCHANGED <<registry, buffer, installed, discovered, odom, announced, spin,
                 vio, heard, anchorWorld, adopted, setup, gateVars>>

Poll == PollRefresh \/ PollClaim \/ PollYield

-----------------------------------------------------------------------------
(***************************************************************************)
(* PublishVio.  TakeSample: Snapshot() is read, then the gate decides.     *)
(* A sample that meets no robot snapshot is dropped before the gate; one   *)
(* that the gate refuses leaves no trace.                                  *)
(***************************************************************************)
HasImu == snapshot # None /\ snapshot.imu # None

TakeSample(p) ==
  /\ vio.at = "idle"
  /\ HasImu
  /\ Accept(p)
  /\ vio' = [at |-> "pose", pose |-> p, changed |-> ReportsChange(p)]
  /\ UNCHANGED <<setup, sessionVars, heard, anchorWorld, adopted>>

DropSample(p) ==
  /\ vio.at = "idle"
  /\ HasImu => ~Accepts(p)
  /\ UNCHANGED vars

(***************************************************************************)
(* RobotTfSession::Pose, in the order of its early returns.  The ground    *)
(* plane is present whenever PublishOdom is (checked by Start).            *)
(***************************************************************************)
Convertible ==
  /\ ~blocked /\ HasImu /\ AuditSnapshot(registry, buffer, snapshot)
  /\ vio.pose.native

\* Mutated form of Restarted: the anchor is not looked at.
RestartedUnanchored == PublishOdom /\ vio.changed /\ odom = None

Restarted == PublishOdom /\ vio.changed /\ odom # None

Computed(path) == vio' = [at |-> "send", world |-> epoch, path |-> path]

PoseFails ==
  /\ vio' = [at |-> "idle"]
  /\ UNCHANGED <<registry, buffer, odom, announced, anchorWorld>>

PoseRefused ==
  /\ ~Convertible
  /\ PoseFails
  /\ UNCHANGED <<blocked, snapshot>>

PoseFixed ==
  /\ Convertible /\ ~PublishOdom
  /\ Computed(snapshot.imu)
  /\ UNCHANGED <<registry, buffer, blocked, snapshot, odom, announced, anchorWorld>>

PoseRestarted ==
  /\ Convertible /\ Restarted
  /\ PoseFails
  /\ blocked' = TRUE
  /\ snapshot' = None

OdomTaken == HasChild(registry, World)
OdomInside == Resolves(registry, Base, Odom)

PoseNoAnchor ==
  /\ Convertible /\ PublishOdom /\ odom = None
  /\ OdomTaken \/ OdomInside \/ ~vio.pose.level
  /\ PoseFails
  /\ blocked' = (OdomTaken \/ OdomInside)
  /\ snapshot' = IF ~OdomTaken /\ OdomInside THEN None ELSE snapshot

PoseAnchors ==
  /\ Convertible /\ PublishOdom /\ odom = None
  /\ ~OdomTaken /\ ~OdomInside /\ vio.pose.level
  /\ odom' = Anchor
  /\ registry' = Observed(registry, Anchor, Local)
  /\ buffer' = Store(buffer, Anchor)
  /\ announced' = announced \cup {Anchor}
  /\ anchorWorld' = epoch
  /\ Computed(snapshot.imu \cup {Anchor})
  /\ UNCHANGED <<blocked, snapshot>>

PoseAnchored ==
  /\ Convertible /\ PublishOdom /\ odom # None /\ ~Restarted
  /\ Query(registry, buffer, Odom, World)
  /\ Computed(snapshot.imu \cup {odom})
  /\ UNCHANGED <<registry, buffer, blocked, snapshot, odom, announced, anchorWorld>>

PoseAnchorLost ==
  /\ Convertible /\ PublishOdom /\ odom # None /\ ~Restarted
  /\ ~Query(registry, buffer, Odom, World)
  /\ PoseFails
  /\ blocked' = TRUE
  /\ snapshot' = None

ComputePose ==
  /\ vio.at = "pose"
  /\ \/ PoseRefused \/ PoseFixed \/ PoseRestarted
     \/ PoseNoAnchor \/ PoseAnchors \/ PoseAnchored \/ PoseAnchorLost
  /\ UNCHANGED <<installed, discovered, spin, heard, adopted, setup, gateVars>>

SendPose ==
  /\ vio.at = "send"
  /\ vio' = [at |-> "idle"]
  /\ UNCHANGED <<sessionVars, heard, anchorWorld, adopted, setup, gateVars>>

Next ==
  \/ \E a \in Audible : HearStatic(a[1], a[2])
  \/ \E c \in setup.dynamic : HearDynamic(c)
  \/ Install \/ DiscoveryEnds \/ Poll
  \/ \E p \in setup.poses : TakeSample(p) \/ DropSample(p)
  \/ ComputePose \/ SendPose

Spec == Init /\ [][Next]_vars

(***************************************************************************)
(* Fairness: the single-threaded executor serves its subscriptions and its *)
(* timer; /tf_static is reliable and transient-local, so the announcements *)
(* of the bridge and of the publishers that are present arrive; time       *)
(* passes.  Whether any other publisher is ever heard is left open.        *)
(***************************************************************************)
Running == setup.present \cup (({Mount, Anchor} \cup SdkSensors) \X {Bridge})
Lasting == UNION {s.present \cup (({Mount, Anchor} \cup s.sensors) \X {Bridge}) : s \in Setups}

Fairness ==
  /\ \A a \in Lasting : SF_vars(a \in Running /\ HearStatic(a[1], a[2]))
  /\ WF_vars(Install) /\ WF_vars(DiscoveryEnds) /\ SF_vars(Poll)

FairSpec == Spec /\ Fairness
-----------------------------------------------------------------------------
(***************************************************************************)
(* Type correctness; no malformed transform reaches the tf2 buffer.        *)
(***************************************************************************)
TypeOK ==
  /\ GateTypeOK
  /\ IsRegistry(registry)
  /\ DOMAIN buffer \subseteq Frames /\ Range(buffer) \cup {spin} \subseteq {None} \cup {r \in Record : Valid(r)}
  /\ snapshot # None => /\ snapshot.device \subseteq Record
                        /\ DOMAIN snapshot.cameras = DeviceCameras
                        /\ snapshot.imu # None => snapshot.imu \subseteq Record
  /\ {blocked, installed, discovered} \subseteq BOOLEAN
  /\ odom \in {None, Anchor}
  /\ announced \subseteq Record
  /\ vio.at \in {"idle", "pose", "send"}
  /\ heard \subseteq Record \X Owners
  /\ anchorWorld \in Epochs \cup {NoEpoch, None}

(***************************************************************************)
(* Whatever Snapshot() returns is true of the ROS graph as far as it was   *)
(* heard: board and host IPM and PublishVio use it without asking the      *)
(* registry again.  Observe resets it in the same critical section.        *)
(***************************************************************************)
SnapshotIsAudited ==
  snapshot # None =>
    LET Holds(c, path) == Resolves(registry, Base, c) /\ path = Resolved(registry, Base, c)
    IN  /\ Holds(Device, snapshot.device)
        /\ \A c \in DeviceCameras : Holds(c, snapshot.cameras[c])
        /\ snapshot.imu # None => Holds(Imu, snapshot.imu)

(***************************************************************************)
(* "Installation and sensor snapshots never silently hot-reload"           *)
(* (robot_tf_session.hpp:18): whatever was announced, paused and announced *)
(* again, the session adopts one pose of the device, of each camera and of *)
(* the IMU in its life.                                                    *)
(***************************************************************************)
NeverReloads ==
  \A a, b \in adopted : a[1] = b[1] => a[2] = b[2]

(***************************************************************************)
(* Announcements about one child that cannot both be right.                *)
(***************************************************************************)
Disputed(c) ==
  \/ c \in registry.dynamic
  \/ \E a, b \in heard : /\ a[1].child = c /\ b[1].child = c
                         /\ a # b \/ ~Valid(a[1])

(***************************************************************************)
(* A robot pose is never computed over an edge that was already disputed   *)
(* when it was computed, or that differs from what its publisher says:     *)
(* "Duplicate publishers or changing paths pause robot outputs"            *)
(* (docs/TF.md).  RobotTfSession::Pose audits under the mutex that Observe *)
(* holds, but converts with the snapshot Poll stored earlier.              *)
(***************************************************************************)
DisputedNeverUsed ==
  [][vio.at = "pose" /\ vio'.at = "send" =>
       \A r \in vio'.path :
         /\ ~Disputed(r.child)
         /\ \A a \in heard : a[1].child = r.child => a[1] = r]_vars

(***************************************************************************)
(* docs/TF.md: "An identified algorithm restart pauses this mode until     *)
(* bridge restart; the old static anchor must not be reused across changed *)
(* algorithm worlds."  A pose that leaves the bridge belongs to the        *)
(* producer life in which odom -> camera_init was anchored.                *)
(***************************************************************************)
AnchorWorld ==
  vio.at = "send" /\ PublishOdom => vio.world = anchorWorld

MountingRival == \E a \in heard : a[1].child = Device /\ a[2] # Bridge

(***************************************************************************)
(* The bridge ends up with a complete robot snapshot and keeps it unless a *)
(* second publisher of the mounting shows up, although it hears its own    *)
(* announcements come back as those of a publisher: where it publishes     *)
(* mounting and sensors itself and nobody speaks of the odom edge.         *)
(***************************************************************************)
Unrivalled ==
  /\ PublishMounting /\ PublishSensors
  /\ \A a \in StaticFeed : a[1].child \in {Device, Imu}

InstallationFound == Unrivalled => <>MountingRival \/ <>[]HasImu

(***************************************************************************)
(* "Duplicate publishers ... pause robot outputs" (docs/TF.md): once a     *)
(* second publisher of the installation edge is heard, the snapshot is     *)
(* gone for good in the end, whichever of the two was heard first and even *)
(* when both publish the same transform.                                   *)
(***************************************************************************)
DuplicatePauses == (Mount \in announced /\ MountingRival) ~> [](snapshot = None)
=============================================================================
