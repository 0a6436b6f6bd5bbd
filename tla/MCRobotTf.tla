----------------------------- MODULE MCRobotTf ------------------------------
(* Small robots for TLC: one camera, one IMU, a device on a base. *)
EXTENDS RobotTf, TLC

CONSTANTS Camera, v1, v2, rival, other, e1, e2

MCFrames == {Base, Device, Camera, Imu, World, Odom}

Edge(p, c, v) == [child |-> c, parent |-> p, value |-> v]
Mounting == Edge(Base, Device, v1)
StartupAnchor == Edge(Odom, World, v1)
CameraOnly == {Edge(Device, Camera, v1)}
CameraAndImu == CameraOnly \cup {Edge(Device, Imu, v1)}

(* A URDF, another mounting from a second publisher, and a broken IMU. *)
UrdfFeed == {<<Mounting, rival>>, <<Edge(Base, Device, v2), other>>,
             <<Edge(Device, Imu, Malformed), other>>}

(* A graph that the bridge's mounting and anchor may collide with. *)
CrowdedFeed == {<<Edge(Odom, World, v2), rival>>, <<Edge(Base, Odom, v1), other>>}

ImuFeed == {<<Edge(Device, Imu, v1), rival>>}
OpenFeed == ImuFeed \cup {<<Mounting, rival>>}

Pose(t, life, native, level) ==
  [stamp |-> t, fit |-> TRUE, epoch |-> life, numbered |-> FALSE, number |-> 0,
   native |-> native, level |-> level]

OneLife == {Pose(1, e1, TRUE, TRUE)}
LongLife == {Pose(t, e1, TRUE, level) : t \in 1 .. 2, level \in BOOLEAN}
TwoLives == {Pose(1, e1, TRUE, level) : level \in BOOLEAN} \cup {Pose(2, e, TRUE, TRUE) : e \in {e1, e2}}
OddFrames == {Pose(t, e, native, TRUE) : t \in 1 .. 3, e \in {e1, e2}, native \in BOOLEAN}

(* The installation is in the URDF; the bridge claims it, in a graph that    *)
(* announces the IMU and perhaps a rival; it is claimed in a crowded graph.  *)
Urdf == [sensors |-> CameraAndImu, publish |-> {"sensors"}, static |-> UrdfFeed,
         present |-> {}, dynamic |-> {Device}, poses |-> OneLife]
Claimed == [sensors |-> CameraOnly, publish |-> {"mounting", "sensors", "odom"},
            static |-> OpenFeed, present |-> ImuFeed, dynamic |-> {}, poses |-> LongLife]
Crowded == [sensors |-> CameraAndImu, publish |-> {"mounting", "odom"},
            static |-> CrowdedFeed, present |-> {}, dynamic |-> {World}, poses |-> TwoLives]
Foreign == [Crowded EXCEPT !.static = ImuFeed, !.dynamic = {}, !.poses = OddFrames]

AllSetups == {Urdf, Claimed, Crowded}
ForeignSetups == {Foreign}
=============================================================================
