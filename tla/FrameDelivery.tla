---------------------------- MODULE FrameDelivery ----------------------------
(***************************************************************************)
(* PublishDelivery of bridge_node_ros2.cpp: what each delivery of a        *)
(* subscribed stream is published as.  The callbacks of one subscription   *)
(* run one at a time, those of different ones side by side, and beside the *)
(* depth-derived worker.  They meet in the cache of rectified left images, *)
(* in the worker's slot of one (see DepthWorker for its lock) and in the   *)
(* audited snapshot of the robot's transforms (see RobotTf).               *)
(*                                                                         *)
(* A delivery is a record as FrameMessages describes it.  A disparity      *)
(* frame also has width, height, stride and encoding; a BEV frame also has *)
(* hash, the calibration's, and projection, what ReadBoardRobotProjection  *)
(* reads in it (None if it refuses).  What the generators of the SDK make  *)
(* of a frame is external.                                                 *)
(***************************************************************************)
EXTENDS FrameMessages, RigidGeometry, SteadyClock, FiniteSets

CONSTANTS
  Setups,          \* configurations: see Init
  RawDeliveries, RectifiedDeliveries, DisparityFrames, BevDeliveries,
  PanoramaImages, SensorFrames,
  DepthMaps,       \* the depth maps the SDK may generate of a frame
  DepthPanoramas,  \* and the panoramas of depth
  CacheDepth       \* 16 in the code

ASSUME DepthAssumption == CacheDepth \in Nat \ {0}

(***************************************************************************)
(* What the deliveries are.  The SDK hands images out as pictures of the   *)
(* camera or view that they name.                                          *)
(***************************************************************************)
Number == Nat \cup {None}

IsBundle(f) ==
  /\ f.bundle \in {"none", "RAW", "RECTIFIED"}
  /\ f.payload \in Number
  /\ f.entries # None =>
       \A i \in DOMAIN f.entries : f.entries[i].at \in Number /\ f.entries[i].size \in Number

IsRotationOf(q) == q \in [1 .. 4 -> Int] /\ q # <<0, 0, 0, 0>>
IsPlane(plane) == plane \in [1 .. 3 -> Int] \X Int

ASSUME RawAssumption ==
  \A d \in RawDeliveries :
    /\ d.frame.stream = "RawFisheye" /\ IsBundle(d.frame)
    /\ \A i \in DOMAIN d.images : d.images[i].shows = <<"camera", d.images[i].camera>>
    /\ d.image # None => d.image.shows = <<"camera", d.image.camera>>
    /\ d \notin DisparityFrames \cup PanoramaImages \cup SensorFrames \cup {None}

ASSUME RectifiedAssumption ==
  \A d \in RectifiedDeliveries :
    /\ d.frame.stream = "RectifiedFisheye" /\ IsBundle(d.frame)
    /\ d.images \in Seq({d.images[i] : i \in DOMAIN d.images})
    /\ \A i \in DOMAIN d.images :
         /\ d.images[i].stamp \in Nat
         /\ ViewAt(d, i) # None => d.images[i].shows = <<"view", ViewAt(d, i)[1], ViewAt(d, i)[2]>>
    /\ d.image # None =>
         /\ d.image.stamp \in Nat
         /\ ViewAt(d, 1) # None => d.image.shows = <<"view", ViewAt(d, 1)[1], ViewAt(d, 1)[2]>>

ASSUME BevAssumption ==
  \A d \in BevDeliveries :
    /\ d.frame.stream = "BevDisplay"
    /\ d.frame.projection # None =>
         IsRotationOf(d.frame.projection.quaternion) /\ IsPlane(d.frame.projection.plane)

ASSUME DisparityAssumption ==
  \A f \in DisparityFrames : f.stamp \in Nat

ASSUME SetupAssumption ==
  \A s \in Setups :
    /\ s.calibration # None =>
         /\ s.calibration.tile_count \in Nat
         /\ \A i \in DOMAIN s.calibration.tiles : s.calibration.tiles[i].index \in Nat
    /\ s.plane # None => IsPlane(s.plane)
    /\ s.installation # None => IsRotationOf(s.installation.mount.quaternion)

VARIABLES
  setup,       \* config_, depth_calibration_, depth_panorama_lookup_, tf_setup_
  cache,       \* rectified_left_images_
  rectified,   \* the callback of the rectified stream: its delivery and which
               \* of its images it has yet to cache, None outside
  slot,        \* depth_derived_frame_, None unless pending
  frame,       \* what the depth-derived worker works on, None if nothing
  session,     \* what robot_tf_session_->Snapshot() returns
  bev,         \* the callback of the BEV stream: delivery and snapshot
  lastIpm,     \* last_ipm_publish_time_
  sent         \* history: what the last step published, and of which delivery

vars == <<setup, cache, rectified, slot, frame, session, bev, lastIpm, sent, now>>

Pairs == 0 .. 3

Sends(delivery, messages) == sent' = [of |-> delivery, messages |-> messages]
Silent == Sends(None, {})

(***************************************************************************)
(* A setup has streams (those subscribed), compressed, decoded, cameras    *)
(* (raw_camera_ids), colorize, depth, cloud, viz and pcl (what is          *)
(* published), panorama (whether panorama depth is needed), calibration    *)
(* (or None), lookup, delta (of colours), ipm ("off", "host" or "board"),  *)
(* period of the host's, fallback (config_.ipm.frame_id), plane (None      *)
(* without robot mounting) and installation, what the session resolves.    *)
(***************************************************************************)
Init ==
  /\ setup \in Setups
  /\ cache = [p \in Pairs |-> << >>]
  /\ rectified = None
  /\ slot = None /\ frame = None
  /\ session = None /\ bev = None
  /\ lastIpm = Never /\ now = 0
  /\ sent = [of |-> None, messages |-> {}]

-----------------------------------------------------------------------------
(***************************************************************************)
(* PublishImages, for the raw stream.                                      *)
(***************************************************************************)
Images(delivery) ==
  (IF setup.compressed THEN MakeCompressedImageMessages(delivery.frame) ELSE {})
    \cup (IF setup.decoded THEN MakeDecodedImageMessages(delivery, setup.cameras) ELSE {})

IpmDue == setup.ipm = "host" /\ Elapsed(lastIpm, setup.period)

(***************************************************************************)
(* PublishIpm makes the board's view itself, at its own pace; Generate may *)
(* refuse the images.                                                      *)
(***************************************************************************)
Publish(delivery) ==
  \/ /\ Sends(delivery, Images(delivery))
     /\ UNCHANGED lastIpm
  \/ /\ IpmDue /\ delivery.images # << >>
     /\ Sends(delivery, Images(delivery) \cup
                {Message(<<"ipm", "image">>, setup.fallback, delivery.frame.stamp, <<"ground">>)})
     /\ lastIpm' = now

Raw ==
  /\ "RawFisheye" \in setup.streams
  /\ \E d \in RawDeliveries : Publish(d)
  /\ UNCHANGED <<setup, cache, rectified, slot, frame, session, bev, now>>

(***************************************************************************)
(* CacheRectifiedLeftImages: the lock is taken for each image.             *)
(***************************************************************************)
LeftFrame(pair) == RectifiedFrameId(<<PairDirections[pair + 1], "left">>)

PairOf(image) == CHOOSE p \in Pairs : LeftFrame(p) = image.id

Cacheable(image) ==
  /\ image.id \in {LeftFrame(p) : p \in Pairs}
  /\ image.size # 0 /\ Bgr(image)

Given(delivery) ==
  IF delivery.image = None THEN delivery.images ELSE Append(delivery.images, delivery.image)

LeftImages(delivery) ==
  {i \in DOMAIN Given(delivery) : setup.colorize /\ Cacheable(Given(delivery)[i])}

ReceiveRectified ==
  /\ "RectifiedFisheye" \in setup.streams /\ rectified = None
  /\ \E d \in RectifiedDeliveries : rectified' = [of |-> d, left |-> LeftImages(d)]
  /\ Silent
  /\ UNCHANGED <<setup, cache, slot, frame, session, bev, lastIpm, now>>

Latest(images) == IF Len(images) > CacheDepth THEN Tail(images) ELSE images

CacheOne ==
  /\ rectified # None
  /\ \E i \in rectified.left :
       LET image == Given(rectified.of)[i]
       IN  /\ \A j \in rectified.left : i <= j
           /\ cache' = [cache EXCEPT ![PairOf(image)] = Latest(Append(@, image))]
           /\ rectified' = [rectified EXCEPT !.left = @ \ {i}]
  /\ Silent
  /\ UNCHANGED <<setup, slot, frame, session, bev, lastIpm, now>>

PublishRectified ==
  /\ rectified # None
  /\ rectified.left = {}
  /\ Sends(rectified.of, Images(rectified.of))
  /\ rectified' = None
  /\ UNCHANGED <<setup, cache, slot, frame, session, bev, lastIpm, now>>

-----------------------------------------------------------------------------
(***************************************************************************)
(* PublishDisparity.  With publish_depth the worker gets a frame only if   *)
(* there is a depth map of it.                                             *)
(***************************************************************************)
Derives ==
  /\ setup.depth \/ setup.panorama
  /\ setup.cloud \/ setup.lookup \/ setup.panorama

Disparity(f) ==
  LET image == MakeDisparityImage(f)
  IN  IF setup.calibration # None THEN MakeSplitDisparityImages(f, setup.calibration)
      ELSE IF image = None THEN {}
      ELSE {Message(<<"disparity">>, f.id, image.stamp, <<"disparity">>)}

Depth(f, depth) ==
  MakeSplitDepthImages(depth, setup.calibration)
    \cup (IF setup.viz THEN MakeSplitDepthVisualizationImages(depth, f, setup.calibration) ELSE {})

WithoutDepth(f) ==
  /\ Sends(f, Disparity(f))
  /\ slot' = IF setup.depth \/ ~Derives \/ (setup.calibration = None /\ Disparity(f) = {})
               THEN slot ELSE f

WithDepth(f) ==
  /\ setup.depth /\ setup.calibration # None
  /\ \E depth \in DepthMaps : Sends(f, Disparity(f) \cup Depth(f, [depth EXCEPT !.stamp = f.stamp]))
  /\ slot' = IF Derives THEN f ELSE slot

PublishDisparity ==
  /\ "Disparity" \in setup.streams
  /\ \E f \in DisparityFrames : WithoutDepth(f) \/ WithDepth(f)
  /\ UNCHANGED <<setup, cache, rectified, frame, session, bev, lastIpm, now>>

-----------------------------------------------------------------------------
(***************************************************************************)
(* DepthDerivedWorkerLoop, but for the panorama depth of DepthWorker.      *)
(***************************************************************************)
Take ==
  /\ Derives /\ frame = None /\ slot # None
  /\ frame' = slot /\ slot' = None
  /\ Silent
  /\ UNCHANGED <<setup, cache, rectified, session, bev, lastIpm, now>>

Delta(image, stamp) == IF image.stamp > stamp THEN image.stamp - stamp ELSE stamp - image.stamp

\* Mutated form of Nearest: the latest image, whatever its stamp.
NearestLatest(images, stamp) == images[Len(images)]

\* Mutated form of FirstNearest: the last of them.
LastNearest(images, stamp, i) ==
  \A j \in DOMAIN images :
    \/ Delta(images[i], stamp) < Delta(images[j], stamp)
    \/ Delta(images[i], stamp) = Delta(images[j], stamp) /\ j <= i

\* The first of the images that are nearest.
FirstNearest(images, stamp, i) ==
  \A j \in DOMAIN images :
    \/ Delta(images[i], stamp) < Delta(images[j], stamp)
    \/ Delta(images[i], stamp) = Delta(images[j], stamp) /\ i <= j

Nearest(images, stamp) ==
  images[CHOOSE i \in DOMAIN images : FirstNearest(images, stamp, i)]

(***************************************************************************)
(* SnapshotRectifiedLeftImages, under one lock.                            *)
(***************************************************************************)
SnapshotRectifiedLeftImages(stamp) ==
  LET tiles == {p \in Pairs : p < setup.calibration.tile_count /\ cache[p] # << >>}
      near == {p \in tiles : Delta(Nearest(cache[p], stamp), stamp) <= setup.delta}
  IN  [p \in near |-> Nearest(cache[p], stamp)]

Cloud(f, colours) == Message(<<"depth", "points">>, "cloud", f.stamp, colours)

(***************************************************************************)
(* GenerateDepthPointCloud: colours only for all tiles at once, and none   *)
(* when the SDK refuses them; it may refuse the cloud as well.             *)
(***************************************************************************)
Clouds(f) ==
  LET colours == SnapshotRectifiedLeftImages(f.stamp)
  IN  {{}, {Cloud(f, None)}}
        \cup (IF setup.colorize /\ Cardinality(DOMAIN colours) >= setup.calibration.tile_count
                THEN {{Cloud(f, colours)}} ELSE {})

DepthPanorama(f) ==
  {{}} \cup (IF setup.lookup
               THEN {MakeDepthPanoramaMessages([depth EXCEPT !.stamp = f.stamp]) :
                       depth \in DepthPanoramas}
               ELSE {})

PublishDerived ==
  /\ frame # None
  /\ \E panorama \in (IF setup.calibration = None THEN {{}} ELSE DepthPanorama(frame)) :
     \E cloud \in (IF setup.cloud /\ setup.calibration # None THEN Clouds(frame) ELSE {{}}) :
       Sends(frame, cloud \cup panorama)
  /\ frame' = None
  /\ UNCHANGED <<setup, cache, rectified, slot, session, bev, lastIpm, now>>

-----------------------------------------------------------------------------
(***************************************************************************)
(* PublishBoardIpm.  The session pauses and resumes on threads of its own: *)
(* the snapshot is taken first and used to the end.                        *)
(***************************************************************************)
SessionChanges ==
  /\ setup.installation # None
  /\ session' = IF session = None THEN setup.installation ELSE None
  /\ Silent
  /\ UNCHANGED <<setup, cache, rectified, slot, frame, bev, lastIpm, now>>

ReceiveBev ==
  /\ setup.ipm = "board" /\ bev = None
  /\ setup.plane # None => session # None
  /\ \E d \in BevDeliveries : bev' = [of |-> d, tf |-> session]
  /\ Silent
  /\ UNCHANGED <<setup, cache, rectified, slot, frame, session, lastIpm, now>>

BoardIpmDecodedFrameMatches(delivery) ==
  LET image == DisplayImage(delivery)
  IN  IF image = None THEN FALSE
      ELSE image.stamp = delivery.frame.stamp /\ image.id = delivery.frame.id

Squared(v) == v[1] * v[1] + v[2] * v[2] + v[3] * v[3]

SameRotation(p, q) ==
  LET dot == p[1] * q[1] + p[2] * q[2] + p[3] * q[3] + p[4] * q[4]
  IN  dot * dot = (Squared(p) + p[4] * p[4]) * (Squared(q) + q[4] * q[4])

\* The normals of planes <<normal, offset>> of unit length, facing up.
Upward(plane) ==
  IF plane[1][3] < 0 THEN <<Minus(plane[1]), -plane[2]>> ELSE plane

SamePlane(p, q) ==
  LET a == Upward(p)   b == Upward(q)
  IN  /\ Cross(a[1], b[1]) = Zero
      /\ a[1][1] * b[1][1] + a[1][2] * b[1][2] + a[1][3] * b[1][3] > 0
      /\ \A i \in 1 .. 3 : a[1][i] * b[2] = b[1][i] * a[2]

SameMounting(f, tf) ==
  /\ f.projection.parent = tf.mount.parent /\ f.projection.child = tf.mount.child
  /\ f.hash = tf.hash
  /\ f.projection.xyz = tf.mount.translation
  /\ SameRotation(f.projection.quaternion, tf.mount.quaternion)

\* Mutated form of CheckBoardRobotIpm: the plane is not compared.
CheckBoardRobotIpmMounting(f, tf, plane) == f.projection # None /\ SameMounting(f, tf)

CheckBoardRobotIpm(f, tf, plane) ==
  IF f.projection = None THEN FALSE
  ELSE SameMounting(f, tf) /\ SamePlane(f.projection.plane, plane)

PublishBev ==
  /\ bev # None
  /\ Sends(bev.of,
           IF setup.plane = None
               \/ /\ BoardIpmDecodedFrameMatches(bev.of)
                  /\ CheckBoardRobotIpm(bev.of.frame, bev.tf, setup.plane)
             THEN MakeBoardDisplayImageMessage(bev.of, setup.fallback) ELSE {})
  /\ bev' = None
  /\ UNCHANGED <<setup, cache, rectified, slot, frame, session, lastIpm, now>>

-----------------------------------------------------------------------------
(***************************************************************************)
(* PublishPanorama, PublishImu and PublishLivox keep nothing.              *)
(***************************************************************************)
PublishPanorama ==
  /\ "PanoDisplay" \in setup.streams
  /\ \E image \in PanoramaImages : Sends(image, MakePanoramaImageMessage(image))
  /\ UNCHANGED <<setup, cache, rectified, slot, frame, session, bev, lastIpm, now>>

PublishSensor ==
  /\ \E f \in SensorFrames :
       /\ f.stream \in setup.streams
       /\ Sends(f, IF f.stream = "LidarPointCloud" THEN MakeLivoxMessages(f, setup.pcl)
                ELSE MakeImuMessage(f))
  /\ UNCHANGED <<setup, cache, rectified, slot, frame, session, bev, lastIpm, now>>

Time ==
  /\ setup.ipm = "host"
  /\ Tick
  /\ Silent
  /\ UNCHANGED <<setup, cache, rectified, slot, frame, session, bev, lastIpm>>

Next ==
  \/ Raw \/ ReceiveRectified \/ CacheOne \/ PublishRectified
  \/ PublishDisparity \/ Take \/ PublishDerived
  \/ SessionChanges \/ ReceiveBev \/ PublishBev
  \/ PublishPanorama \/ PublishSensor \/ Time

Spec == Init /\ [][Next]_vars

-----------------------------------------------------------------------------
Published(topic) == {m \in sent.messages : m.topic = topic}

(***************************************************************************)
(* A coloured cloud has a colour for every tile, an image of that very     *)
(* pair that is still cached, no further from the disparity in time than   *)
(* configured, nearer than every older one the cache has of the pair and   *)
(* no further than any newer: of equally near ones the oldest.  So it is   *)
(* although the images of a rectified frame reach the cache one by one     *)
(* while the worker reads it (SnapshotRectifiedLeftImages).                *)
(***************************************************************************)
NoneNearer(images, k, stamp) ==
  \A i \in DOMAIN images :
    IF i < k THEN Delta(images[k], stamp) < Delta(images[i], stamp)
    ELSE Delta(images[k], stamp) <= Delta(images[i], stamp)

ColoursAreNearest ==
  \A cloud \in Published(<<"depth", "points">>) :
    cloud.shows # None =>
      \A p \in 0 .. setup.calibration.tile_count - 1 :
        /\ p \in DOMAIN cloud.shows
        /\ cloud.shows[p].id = LeftFrame(p)
        /\ Delta(cloud.shows[p], sent.of.stamp) <= setup.delta
        /\ \E k \in DOMAIN cache[p] :
             /\ cloud.shows[p] = cache[p][k]
             /\ NoneNearer(cache[p], k, sent.of.stamp)

(***************************************************************************)
(* An image is published as what it is: the picture of a camera under that *)
(* camera's topic, that of a view under the view's, the rows of a tile     *)
(* under the tile's direction, each complete while others of its bundle    *)
(* are broken; and in robot mode a board IPM only if it belongs to the     *)
(* frame that was checked and shows the ground where the audited           *)
(* transforms have it.  There is an exception: an entry or an image whose  *)
(* camera ID is blank passes for the camera that its index, counted from   *)
(* 0, would name (SanitizeTopicToken's fallback), even next to one that    *)
(* has that camera's ID.                                                   *)
(***************************************************************************)
PassesFor(item, i, camera) == item.camera = "" /\ ToString(i - 1) = camera

Names(item, i, camera) == item.camera = camera \/ PassesFor(item, i, camera)

OwnCamera ==
  \A camera \in RawCameras : \A m \in Published(RawTopic(camera, "compressed")) :
    \/ sent.of.frame.bundle = "none" /\ sent.of.frame.camera = camera
    \/ /\ m.frame = "orbvi/camera/" \o camera
       /\ \E i \in DOMAIN sent.of.frame.entries :
            /\ Names(sent.of.frame.entries[i], i, camera)
            /\ m.shows = Bytes(sent.of.frame.entries[i].at, sent.of.frame.entries[i].size)

Complete(f, e) ==
  /\ e.at # None /\ e.size # None /\ f.payload # None
  /\ e.at + e.size <= f.payload

Unharmed ==
  (sent.of \in RawDeliveries /\ setup.compressed) =>
    LET f == sent.of.frame
    IN  (f.bundle = "RAW" /\ f.entries # None) =>
          \A i \in DOMAIN f.entries : \A camera \in RawCameras :
            Names(f.entries[i], i, camera) =>
              (Complete(f, f.entries[i])
                 <=> \E m \in Published(RawTopic(camera, "compressed")) :
                       m.shows = Bytes(f.entries[i].at, f.entries[i].size))

OwnPicture(m, camera) ==
  \/ m.shows = <<"camera", camera>>
  \/ /\ m.shows = <<"camera", "">>
     /\ \/ sent.of.image # None /\ PassesFor(sent.of.image, 1, camera)
        \/ \E i \in DOMAIN sent.of.images : PassesFor(sent.of.images[i], i, camera)

OwnView ==
  /\ \A camera \in RawCameras : \A m \in Published(RawTopic(camera, "image")) : OwnPicture(m, camera)
  /\ \A p \in Pairs : \A side \in {"left", "right"} :
       LET view == <<PairDirections[p + 1], side>>
       IN  \A m \in Published(RectifiedTopic(view, "image")) :
             m.shows = <<"view", PairDirections[p + 1], side>>

OwnTile ==
  \A p \in Pairs : \A leaf \in {"disparity", "depth", "depth/viz"} :
    \A m \in Published(<<PairDirections[p + 1], leaf>>) :
      m.shows[2] = p * setup.calibration.tile_height

Ground(plane) ==
  {v \in (-2 .. 2) \X (-2 .. 2) \X (-2 .. 2) :
     plane[1][1] * v[1] + plane[1][2] * v[2] + plane[1][3] * v[3] + plane[2] = 0}

OwnGround ==
  (setup.ipm = "board" /\ setup.plane # None) =>
    \A m \in Published(<<"ipm", "image">>) :
      LET seen == sent.of.frame.projection
          mount == setup.installation.mount
          checked == sent.of.frame
      IN  /\ m = Message(m.topic, Either(checked.id, setup.fallback, ""), checked.stamp, m.shows)
          /\ Placement(Edge(seen.parent, seen.child, seen.xyz, seen.quaternion)) = Placement(mount)
          /\ Ground(seen.plane) = Ground(setup.plane)

ShownAsItIs == OwnCamera /\ Unharmed /\ OwnView /\ OwnTile /\ OwnGround
=============================================================================
