---------------------------- MODULE FrameMessages ----------------------------
(***************************************************************************)
(* frame_conversions_ros2.cpp: which ROS messages a delivery of the Host   *)
(* SDK becomes.  Pure operators.                                           *)
(*                                                                         *)
(* A message has topic (its parts), frame, stamp and shows: what it is a   *)
(* picture of.  A frame has stream, format, stamp (0: none), id, payload   *)
(* (its size, None without one), bundle, entries (as many as its metadata  *)
(* counts, None if that is unreadable), camera and identity.  An entry has *)
(* at, size (None if unreadable), stamp, id, camera and identity: a        *)
(* direction and a side, None where the metadata contradict themselves.  A *)
(* camera is what SanitizeTopicToken leaves of its id, "" of a blank one.  *)
(* Images and depth maps have width, height, stride (bytes per row) and    *)
(* size in bytes; a number that ParseU32 refuses is None.                  *)
(***************************************************************************)
EXTENDS Integers, Sequences, TLC

CONSTANTS
  None,
  Today           \* what the system clock says: the stamp of what has none

RawCameras == {"2", "3", "4", "5"}

PairDirections == <<"front", "right", "rear", "left">>    \* of the pairs 0 .. 3
RectifiedPairDirection(pair) ==
  IF pair + 1 \in DOMAIN PairDirections THEN PairDirections[pair + 1] ELSE ""

Message(topic, frame, stamp, shows) ==
  [topic |-> topic, frame |-> IF frame = "" THEN "orbvi" ELSE frame,
   stamp |-> IF stamp = 0 THEN Today ELSE stamp, shows |-> shows]

SlicePayload(frame, at, size) ==
  /\ frame.payload # None
  /\ at <= frame.payload /\ size <= frame.payload - at

OpticalFrame(camera, otherwise) ==
  IF camera \in RawCameras THEN "orbvi/camera/" \o camera ELSE otherwise

\* The provers know nothing of what strings are made of.
ASSUME NameAssumption == \A camera \in RawCameras : "orbvi/camera/" \o camera # ""

Bytes(at, size) == <<"bytes", at, size>>

\* The second part of a raw topic is camera_ and the camera.
RawTopic(camera, leaf) == <<"raw", camera, leaf>>
RectifiedTopic(identity, leaf) == <<"rectified", identity[1], identity[2], leaf>>
RectifiedFrameId(identity) == "orbvi/rectified/" \o identity[1] \o "/" \o identity[2]

\* Mutated form of Token: the fallback counts from 1.
TokenFromOne(camera, index) == IF camera = "" THEN ToString(index) ELSE camera

Token(camera, index) == IF camera = "" THEN ToString(index - 1) ELSE camera

-----------------------------------------------------------------------------
(***************************************************************************)
(* MakeCompressedImageMessages: an entry that cannot be sliced is skipped, *)
(* and so is a rectified one that does not know which view it is.          *)
(***************************************************************************)
Either(a, b, none) == IF a = none THEN b ELSE a

RawEntry(frame, i) ==
  LET entry == frame.entries[i]
      camera == Token(entry.camera, i)
  IN  Message(RawTopic(camera, "compressed"),
              OpticalFrame(camera, Either(entry.id, frame.id, "")),
              Either(entry.stamp, frame.stamp, 0), Bytes(entry.at, entry.size))

RectifiedEntry(frame, i) ==
  LET entry == frame.entries[i]
  IN  Message(RectifiedTopic(entry.identity, "compressed"), RectifiedFrameId(entry.identity),
              Either(entry.stamp, frame.stamp, 0), Bytes(entry.at, entry.size))

\* Mutated form of Sliced: a broken entry ends the bundle.
SlicedUntilBroken(frame) ==
  {i \in DOMAIN frame.entries :
     \A j \in 1 .. i :
       /\ frame.entries[j].at # None /\ frame.entries[j].size # None
       /\ SlicePayload(frame, frame.entries[j].at, frame.entries[j].size)}

Sliced(frame) ==
  {i \in DOMAIN frame.entries :
     /\ frame.entries[i].at # None /\ frame.entries[i].size # None
     /\ SlicePayload(frame, frame.entries[i].at, frame.entries[i].size)}

SingleCompressed(frame) ==
  LET whole == Bytes(0, frame.payload)
  IN  IF frame.payload = None THEN {}
      ELSE IF frame.stream = "RawFisheye"
        THEN {IF frame.camera = "" THEN Message(<<"raw", "compressed">>, frame.id, frame.stamp, whole)
              ELSE Message(RawTopic(frame.camera, "compressed"),
                           OpticalFrame(frame.camera, frame.id), frame.stamp, whole)}
      ELSE IF frame.identity = None THEN {}
      ELSE {Message(RectifiedTopic(frame.identity, "compressed"),
                    RectifiedFrameId(frame.identity), frame.stamp, whole)}

MakeCompressedImageMessages(frame) ==
  CASE frame.bundle = "none" -> SingleCompressed(frame)
    [] frame.bundle # "none" /\ frame.entries = None -> {}
    [] frame.bundle = "RAW" /\ frame.entries # None ->
         {RawEntry(frame, i) : i \in Sliced(frame)}
    [] frame.bundle = "RECTIFIED" /\ frame.entries # None ->
         {RectifiedEntry(frame, i) :
            i \in {j \in Sliced(frame) : frame.entries[j].identity # None}}

-----------------------------------------------------------------------------
(***************************************************************************)
(* Decoded images: bgr, width, height, stride, size, stamp, id, camera and *)
(* shows.  A delivery has frame, image (or None) and images.               *)
(***************************************************************************)
Shown(image) == image.size # 0 /\ image.width # 0 /\ image.height # 0 /\ image.stride # 0

Bgr(image) == image.bgr /\ image.width # 0 /\ image.height # 0 /\ image.stride >= 3 * image.width

Whole(image) == image.size >= image.stride * image.height

\* The identity of the view at an index, by the metadata of the frame.
ViewAt(delivery, i) ==
  LET entries == delivery.frame.entries
  IN  IF Len(delivery.images) <= 1 THEN delivery.frame.identity
      ELSE IF entries = None THEN None
      ELSE IF i \in DOMAIN entries THEN entries[i].identity ELSE None

\* Mutated form of Decoded: every image has the first one's identity.
DecodedAtFirst(delivery, image, i) ==
  LET camera == Token(image.camera, 1)
      view == ViewAt(delivery, 1)
  IN  IF delivery.frame.stream = "RawFisheye"
        THEN Message(RawTopic(camera, "image"), OpticalFrame(camera, image.id),
                     image.stamp, image.shows)
        ELSE Message(RectifiedTopic(view, "image"), RectifiedFrameId(view),
                     image.stamp, image.shows)

Decoded(delivery, image, i) ==
  LET camera == Token(image.camera, i)
      view == ViewAt(delivery, i)
  IN  IF delivery.frame.stream = "RawFisheye"
        THEN Message(RawTopic(camera, "image"), OpticalFrame(camera, image.id),
                     image.stamp, image.shows)
        ELSE Message(RectifiedTopic(view, "image"), RectifiedFrameId(view),
                     image.stamp, image.shows)

Wanted(delivery, image, i, cameras) ==
  /\ Shown(image)
  /\ IF delivery.frame.stream = "RawFisheye"
       THEN cameras = {} \/ Token(image.camera, i) \in cameras
       ELSE ViewAt(delivery, i) # None

MakeDecodedImageMessages(delivery, cameras) ==
  LET Of(images) ==
        {Decoded(delivery, images[i], i) :
           i \in {j \in DOMAIN images : Wanted(delivery, images[j], j, cameras)}}
      several == Of(delivery.images)
  IN  IF several = {} /\ delivery.image # None THEN Of(<<delivery.image>>) ELSE several

DisplayImage(delivery) ==
  IF delivery.image # None THEN delivery.image
  ELSE IF delivery.images = << >> THEN None ELSE delivery.images[1]

MakeBoardDisplayImageMessage(delivery, fallback) ==
  LET image == DisplayImage(delivery)
  IN  IF image = None THEN {}
      ELSE IF Bgr(image) /\ Whole(image)
        THEN {Message(<<"ipm", "image">>, Either(image.id, fallback, ""), image.stamp, image.shows)}
      ELSE {}

MakePanoramaImageMessage(image) ==
  IF Shown(image) /\ image.stride >= 3 * image.width /\ Whole(image)
    THEN {Message(<<"pano", "image">>, Either(image.id, "orbvi/panorama/equirectangular", ""),
                  image.stamp, image.shows)}
    ELSE {}

-----------------------------------------------------------------------------
(***************************************************************************)
(* Rasters: disparity, depth and their pictures.  A calibration has tiles, *)
(* each with index, width and height, tile_count and tile_height.          *)
(***************************************************************************)
BytesPerPixel(encoding) ==
  CASE encoding = "bgr8" -> 3 [] encoding = "32FC1" -> 4 [] encoding = "16UC1" -> 2
    [] OTHER -> 0

RowBytes(raster, tile) ==
  IF BytesPerPixel(raster.encoding) = 0 THEN raster.stride
  ELSE tile.width * BytesPerPixel(raster.encoding)

\* Mutated form of FirstRow: the pairs are counted from below.
FirstRowFromBelow(calibration, tile) ==
  (calibration.tile_count - 1 - tile.index) * calibration.tile_height

FirstRow(calibration, tile) == tile.index * calibration.tile_height

SliceImageRows(raster, y0, tile) ==
  /\ raster.size # 0 /\ tile.width # 0 /\ tile.height # 0
  /\ y0 <= raster.height /\ tile.height <= raster.height - y0 /\ tile.width <= raster.width
  /\ BytesPerPixel(raster.encoding) = 0 => tile.width = raster.width
  /\ raster.stride >= RowBytes(raster, tile)
  /\ raster.size >= raster.stride * raster.height

SplitVerticalTileImage(raster, calibration, leaf) ==
  LET Tile(t) == Message(<<RectifiedPairDirection(t.index), leaf>>,
                         "orbvi/" \o RectifiedPairDirection(t.index) \o "/" \o leaf,
                         raster.stamp, <<"rows", FirstRow(calibration, t), t.height, t.width>>)
  IN  {Tile(calibration.tiles[i]) :
         i \in {j \in DOMAIN calibration.tiles :
                  /\ RectifiedPairDirection(calibration.tiles[j].index) # ""
                  /\ SliceImageRows(raster, FirstRow(calibration, calibration.tiles[j]),
                                    calibration.tiles[j])}}

FormatBytes(format) == IF format = "Disparity16UQ8" THEN 2 ELSE 4

(***************************************************************************)
(* MakeDisparityImage.  Width, height and stride are the metadata's; that  *)
(* the payload has that many bytes is not checked here.                    *)
(***************************************************************************)
MakeDisparityImage(frame) ==
  IF frame.payload = None \/ frame.width = None \/ frame.height = None \/ frame.stride = None
    THEN None
    ELSE [width |-> frame.width, height |-> frame.height, stride |-> frame.stride,
          size |-> frame.payload, stamp |-> frame.stamp,
          encoding |-> Either(frame.encoding,
                              IF FormatBytes(frame.format) = 2 THEN "16UC1" ELSE "32FC1", "")]

MakeSplitDisparityImages(frame, calibration) ==
  LET image == MakeDisparityImage(frame)
  IN  IF image = None THEN {} ELSE SplitVerticalTileImage(image, calibration, "disparity")

DepthEncoding(format) == IF format = "Uint16Millimeters" THEN "16UC1" ELSE "32FC1"

MakeDepthImage(depth) ==
  IF depth.width = 0 \/ depth.height = 0 \/ depth.stride = 0 \/ ~Whole(depth) THEN None
  ELSE [width |-> depth.width, height |-> depth.height, stride |-> depth.stride,
        size |-> depth.stride * depth.height, stamp |-> depth.stamp,
        encoding |-> DepthEncoding(depth.format)]

MakeSplitDepthImages(depth, calibration) ==
  LET image == MakeDepthImage(depth)
  IN  IF image = None THEN {} ELSE SplitVerticalTileImage(image, calibration, "depth")

(***************************************************************************)
(* The picture of a depth map is one of its disparity.                     *)
(***************************************************************************)
DisparityRaw(frame) ==
  /\ frame.payload # None
  /\ frame.format \in {"Disparity32F", "Disparity16UQ8"}
  /\ frame.width # None /\ frame.height # None /\ frame.stride # None
  /\ frame.width # 0 /\ frame.height # 0
  /\ frame.stride >= frame.width * FormatBytes(frame.format)
  /\ frame.payload >=
       (frame.height - 1) * frame.stride + frame.width * FormatBytes(frame.format)

MakeSplitDepthVisualizationImages(depth, frame, calibration) ==
  IF DisparityRaw(frame) /\ frame.width = depth.width /\ frame.height = depth.height
    THEN SplitVerticalTileImage([width |-> frame.width, height |-> frame.height,
                                 stride |-> 3 * frame.width, encoding |-> "bgr8",
                                 size |-> 3 * frame.width * frame.height,
                                 stamp |-> frame.stamp], calibration, "depth/viz")
    ELSE {}

\* The panorama of depth, and its picture if it is one of floats.
MakeDepthPanoramaMessages(depth) ==
  LET image == MakeDepthImage(depth)
      Panorama(leaf) == Message(<<"depth", leaf>>, depth.id, depth.stamp, depth.shows)
  IN  IF image = None THEN {}
      ELSE {Panorama("panorama")}
             \cup (IF image.encoding = "32FC1" /\ image.stride >= 4 * image.width
                     THEN {Panorama("panorama/viz")} ELSE {})

-----------------------------------------------------------------------------
(***************************************************************************)
(* IMU samples and LiDAR scans, by the bytes their payload must have.      *)
(***************************************************************************)
ImuBytes == 37 * 8
LivoxHeaderBytes == 16
LivoxPointBytes == 19

MakeImuMessage(frame) ==
  IF frame.payload = None THEN {}
  ELSE IF frame.payload < ImuBytes THEN {}
  ELSE IF frame.stream = "LidarImu"
    THEN {Message(<<"lidar", "imu">>, "mid360_imu", frame.stamp, <<"sample">>)}
    ELSE {Message(<<"imu">>, frame.id, frame.stamp, <<"sample">>)}

\* frame.points: the count that the header of the payload announces.
MakeLivoxMessages(frame, pcl) ==
  LET Scan(leaf) == Message(<<"lidar", leaf>>, frame.id, frame.stamp, <<"points", frame.points>>)
  IN  IF frame.payload = None THEN {}
      ELSE IF frame.payload < LivoxHeaderBytes THEN {}
      ELSE IF frame.points > (frame.payload - LivoxHeaderBytes) \div LivoxPointBytes THEN {}
      ELSE {Scan("custom")} \cup (IF pcl THEN {Scan("points")} ELSE {})
=============================================================================
