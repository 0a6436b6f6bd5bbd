---------------------------- MODULE MCExtrinsics ----------------------------
(* Calibrations for TLC: one sound camera head in every orientation of its  *)
(* LiDAR's IMU and of the extrinsic of its front camera, and the same head  *)
(* with up to two defects.                                                  *)
EXTENDS ExtrinsicsSnapshot

QuarterX == <<1, 0, 0, 0, 0, -1, 0, 1, 0>>
QuarterZ == <<0, -1, 0, 1, 0, 0, 0, 0, 1>>
HalfY == <<-1, 0, 0, 0, 1, 0, 0, 0, -1>>
Optical == <<0, 0, 1, 1, 0, 0, 0, 1, 0>>
Mirror == <<1, 0, 0, 0, 1, 0, 0, 0, -1>>

Camera(id, role, r, t) == [id |-> id, role |-> role, full |-> TRUE, rigid |-> Rigid(r, t)]

Extrinsic(index, r, t) ==
  [id |-> CameraIds[index + 1], index |-> index, source |-> "lidar",
   target |-> CameraIds[index + 1], readable |-> TRUE, rigid |-> Rigid(r, t)]

CameraHead(imu, front, anchor) ==
  [version |-> "v1", hash |-> "h1",
   json |-> [version |-> "v1", hash |-> "h1", ready |-> TRUE,
             extrinsics |-> <<Extrinsic(0, anchor, <<0, 3, -1>>), Extrinsic(1, HalfY, Zero),
                              Extrinsic(2, Optical, Zero), Extrinsic(3, QuarterX, Zero)>>,
             imu |-> [nominal |-> TRUE, rigid |-> Rigid(imu, <<1, 2, 3>>)]],
   rig |-> [hash |-> "h1",
            cameras |-> <<Camera(3, "front", front, <<-2, 0, 1>>),
                          Camera(2, "right", QuarterZ, <<0, 1, 0>>),
                          Camera(4, "rear", HalfY, <<2, 0, 1>>),
                          Camera(5, "left", Optical, <<0, -1, 0>>)>>]]

JsonDefects == {"not ready", "version", "hash", "no hash", "imu frames", "imu matrix",
                "no imu", "front unreadable", "side unreadable", "front missing",
                "front twice", "front matrix"}
RigDefects == {"two fronts", "no front", "front partial", "front reference", "side matrix",
               "same id", "three cameras", "rig hash"}

BreakJson(j, d) ==
  CASE d = "not ready" -> [j EXCEPT !.ready = FALSE]
    [] d = "version" -> [j EXCEPT !.version = "v2"]
    [] d = "hash" -> [j EXCEPT !.hash = "h2"]
    [] d = "no hash" -> [j EXCEPT !.hash = ""]
    [] d = "imu frames" /\ j.imu # None -> [j EXCEPT !.imu.nominal = FALSE]
    [] d = "imu matrix" /\ j.imu # None -> [j EXCEPT !.imu.rigid.r = Mirror]
    [] d = "no imu" -> [j EXCEPT !.imu = None]
    [] d = "front unreadable" -> [j EXCEPT !.extrinsics[1].readable = FALSE]
    [] d = "side unreadable" -> [j EXCEPT !.extrinsics[3].readable = FALSE]
    [] d = "front missing" -> [j EXCEPT !.extrinsics = SubSeq(@, 2, Len(@))]
    [] d = "front twice" -> [j EXCEPT !.extrinsics = @ \o <<@[1]>>]
    [] d = "front matrix" -> [j EXCEPT !.extrinsics[1].rigid.r = Mirror]
    [] OTHER -> j

BreakRig(r, d) ==
  CASE d = "two fronts" -> [r EXCEPT !.cameras[2].role = "front"]
    [] d = "no front" -> [r EXCEPT !.cameras[1].role = "left"]
    [] d = "front partial" -> [r EXCEPT !.cameras[1].full = FALSE]
    [] d = "front reference" -> [r EXCEPT !.cameras[1].rigid.r = Mirror]
    [] d = "side matrix" -> [r EXCEPT !.cameras[2].rigid.r = Mirror]
    [] d = "same id" -> [r EXCEPT !.cameras[3].id = 2]
    [] d = "three cameras" -> [r EXCEPT !.cameras = SubSeq(@, 1, 3)]
    [] OTHER -> [r EXCEPT !.hash = "h2"]

Broken(c, d) ==
  IF d = "no json" THEN [c EXCEPT !.json = None]
  ELSE IF d = "no rig" THEN [c EXCEPT !.rig = None]
  ELSE IF d \in JsonDefects /\ c.json # None THEN [c EXCEPT !.json = BreakJson(@, d)]
  ELSE IF d \in RigDefects /\ c.rig # None THEN [c EXCEPT !.rig = BreakRig(@, d)]
  ELSE c

Defects == JsonDefects \cup RigDefects \cup {"no json", "no rig"}

Sound == {CameraHead(imu, front, anchor) : imu \in Rotations, front \in {Optical, QuarterX},
                                     anchor \in Rotations}
Defective == {Broken(Broken(CameraHead(QuarterZ, Optical, HalfY), d), e) : d \in Defects, e \in Defects}

MountingFile(rpy) ==
  [parent |-> "base_link", child |-> "orbvi_link", plane |-> None,
   pose |-> [xyz |-> <<5, 0, 1>>, rpy |-> rpy]]
UrdfFile == [MountingFile(Zero) EXCEPT !.pose = None]
Projection == [parent |-> "base_link", child |-> "orbvi_link", xyz |-> <<5, 0, 1>>,
               quaternion |-> <<1, 0, 0, 1>>, plane |-> None]

Job(program, c, mode, mounting, publish, body) ==
  [program |-> program, calibration |-> c, mode |-> mode, file |-> mounting,
   publish |-> publish, body |-> body, projection |-> None]

Programs == {"bridge", "export"}
AnyHead == CameraHead(QuarterZ, Optical, HalfY)

MCJobs ==
  {Job("bridge", c, "robot", MountingFile(<<1, 2, 3>>), TRUE, "") : c \in Sound}
    \cup {Job("export", c, "robot", MountingFile(<<3, 0, 1>>), TRUE, "") : c \in Defective}
    \cup {Job("bridge", c, "device", None, FALSE, "") : c \in Defective}
    \cup {Job(p, AnyHead, "robot", UrdfFile, publish, body) :
            p \in Programs, publish \in BOOLEAN, body \in {"", "orbvi_link", "base_link"}}
    \cup {Job(p, AnyHead, "device", mounting, FALSE, body) :
            p \in Programs, mounting \in {None, UrdfFile}, body \in {Aft, "bad//name", "base_link"}}
    \cup {Job("bridge", AnyHead, "robot", [MountingFile(rpy) EXCEPT !.child = child], TRUE, "") :
            rpy \in [1 .. 3 -> 0 .. 3], child \in {"orbvi_link", "mid360_imu"}}
    \cup {[Job(p, c, "robot", None, FALSE, body) EXCEPT !.projection = Projection] :
            p \in Programs, c \in {AnyHead}, body \in {"", "base_link"}}
BadNames == {"bad//name"}
=============================================================================
