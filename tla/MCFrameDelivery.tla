--------------------------- MODULE MCFrameDelivery ---------------------------
(* Deliveries and setups for TLC.  Disparity has two tiles of 2 x 2 pixels, *)
(* listed in the order right, front; stamps are 1 .. 3 and colours may be   *)
(* one off.                                                                 *)
EXTENDS FrameDelivery

Entry(at, size, camera, identity) ==
  [at |-> at, size |-> size, stamp |-> 0, id |-> "", camera |-> camera, identity |-> identity]

Frame(stream, bundle, entries) ==
  [stream |-> stream, stamp |-> 1, id |-> "orbvi", payload |-> 4, bundle |-> bundle,
   entries |-> entries, camera |-> "", identity |-> None, projection |-> None, hash |-> "h"]

Image(stamp, id, camera, shows) ==
  [bgr |-> TRUE, width |-> 1, height |-> 2, stride |-> 3, size |-> 6, stamp |-> stamp,
   id |-> id, camera |-> camera, shows |-> shows]

Delivery(f, image, images) == [frame |-> f, image |-> image, images |-> images]

(* Four cameras, one of whose entries is cut off, unreadable or without an  *)
(* ID.  The first place would be camera 0, which there is not; the third    *)
(* and the fourth would be cameras 2 and 3.                                 *)
Entries(first) == <<first, Entry(1, 1, "2", None), Entry(2, 1, "4", None), Entry(3, 1, "5", None)>>

Bundle(entries) == Frame("RawFisheye", "RAW", entries)

AllNamed == Bundle(Entries(Entry(0, 1, "3", None)))

\* Blank at one place: beside the camera of that name, in place of it, or cut off too.
Blank ==
  {[Entries(Entry(0, 1, "3", None)) EXCEPT ![3].camera = ""],
   [Entries(Entry(0, 1, "3", None)) EXCEPT ![4].camera = ""],
   [Entries(Entry(0, 1, "5", None)) EXCEPT ![4].camera = ""],
   [Entries(Entry(0, 1, "3", None)) EXCEPT ![2].camera = "", ![3].camera = "", ![4].camera = ""],
   [Entries(Entry(0, 1, "5", None)) EXCEPT ![4].camera = "", ![4].size = 2]}

RawImages == <<Image(1, "raw", "3", <<"camera", "3">>), [Image(1, "raw", "2", <<"camera", "2">>) EXCEPT !.size = 0],
               Image(1, "", "4", <<"camera", "4">>), Image(1, "raw", "5", <<"camera", "5">>)>>

\* The images of a delivery, with those at some of its places of no named camera.
BlankImages(places) ==
  [i \in 1 .. 4 |-> IF i \in places THEN [RawImages[i] EXCEPT !.camera = "", !.shows = <<"camera", "">>]
                    ELSE RawImages[i]]

MCRawDeliveries ==
  {Delivery(Bundle(Entries(e)), None, RawImages) :
     e \in {Entry(0, 1, "3", None), Entry(0, 5, "3", None), Entry(None, 1, "3", None),
            Entry(0, None, "3", None), Entry(0, 1, "", None)}}
  \cup {Delivery(Bundle(b), None, RawImages) : b \in Blank}
  \cup {Delivery(AllNamed, None, BlankImages(places)) : places \in {{3}, {4}, {1, 3}, {2, 3, 4}}}
  \cup {Delivery([AllNamed EXCEPT !.entries = None], None, << >>),
        Delivery([AllNamed EXCEPT !.payload = None], None, << >>),
        Delivery([Frame("RawFisheye", "none", << >>) EXCEPT !.camera = "2"],
                 Image(1, "raw", "2", <<"camera", "2">>), << >>),
        Delivery([Frame("RawFisheye", "none", << >>) EXCEPT !.payload = None, !.stamp = 0], None, << >>),
        Delivery(Frame("RawFisheye", "none", << >>), Image(0, "raw", "", <<"camera", "">>), << >>)}

Views == <<<<"front", "left">>, <<"front", "right">>, <<"right", "left">>>>

RectifiedFrame(t, third) ==
  [Frame("RectifiedFisheye", "RECTIFIED",
         <<Entry(0, 1, "", Views[1]), Entry(1, 1, "", Views[2]), Entry(2, 1, "", third)>>)
     EXCEPT !.stamp = t]

View(t, i) == Image(t, RectifiedFrameId(Views[i]), "", <<"view">> \o Views[i])

MCRectifiedDeliveries ==
  {Delivery(RectifiedFrame(t, Views[3]), None, [i \in 1 .. 3 |-> View(t, i)]) : t \in 1 .. 3}
    \cup {Delivery(RectifiedFrame(2, None), None,
                   <<View(2, 1), View(2, 2), [View(2, 3) EXCEPT !.stride = 2]>>),
          Delivery([Frame("RectifiedFisheye", "none", << >>) EXCEPT !.identity = Views[3]],
                   View(3, 3), << >>)}

DisparityFrame(t) ==
  [stream |-> "Disparity", stamp |-> t, id |-> "disparity", payload |-> 16, width |-> 2,
   height |-> 4, stride |-> 4, encoding |-> "", format |-> "Disparity16UQ8"]

MCDisparityFrames ==
  {DisparityFrame(t) : t \in 1 .. 2}
    \cup {[DisparityFrame(1) EXCEPT !.payload = 15], [DisparityFrame(1) EXCEPT !.stride = None]}

DepthMap(format, stride) ==
  [width |-> 2, height |-> 4, stride |-> stride, size |-> 4 * stride, stamp |-> 0, format |-> format,
   id |-> "depth", shows |-> <<"depth">>]
MCDepthMaps == {DepthMap("Float32Meters", 8), DepthMap("Uint16Millimeters", 4)}
MCDepthPanoramas == {DepthMap("Float32Meters", 8), DepthMap("Float32Meters", 7)}

Calibration ==
  [tiles |-> <<[index |-> 1, width |-> 2, height |-> 2], [index |-> 0, width |-> 2, height |-> 2]>>,
   tile_count |-> 2, tile_height |-> 2]

(* The robot stands on its own floor; the board may show another. *)
Turned == <<0, 0, 1, 1>>
Floor == <<<<0, 0, 1>>, 1>>
Mount(child, q) == Edge("base_link", child, <<1, 0, 0>>, q)
Installed == [mount |-> Mount("orbvi_link", Turned), hash |-> "h"]
Projection(parent, xyz, q, plane) ==
  [parent |-> parent, child |-> "orbvi_link", xyz |-> xyz, quaternion |-> q, plane |-> plane]

Seen ==
  {None, Projection("base_link", <<1, 0, 0>>, Turned, Floor),
   Projection("base_link", <<1, 0, 0>>, <<0, 0, -1, -1>>, <<<<0, 0, -2>>, -2>>),
   Projection("base_link", <<1, 0, 0>>, <<0, 0, -1, 1>>, Floor),
   Projection("base_link", <<1, 0, 0>>, Turned, <<<<0, 0, 1>>, 2>>),
   Projection("base_link", <<1, 0, 0>>, Turned, <<<<1, 0, 1>>, 1>>),
   Projection("base_link", <<1, 1, 0>>, Turned, Floor),
   Projection("map", <<1, 0, 0>>, Turned, Floor)}

BevFrame(p) == [Frame("BevDisplay", "none", << >>) EXCEPT !.stamp = 2, !.id = "base_link", !.projection = p]
Bev(t, id) == Image(t, id, "", <<"ground">>)

MCBevDeliveries ==
  {Delivery(BevFrame(p), image, << >>) : p \in Seen,
     image \in {None, Bev(2, "base_link"), Bev(1, "base_link"), Bev(2, ""),
                [Bev(2, "base_link") EXCEPT !.bgr = FALSE]}}
  \cup {Delivery([BevFrame(p) EXCEPT !.hash = "g"], None, <<Bev(2, "base_link")>>) : p \in Seen}

MCPanoramaImages ==
  {Bev(1, ""), [Bev(1, "pano") EXCEPT !.size = 5], [Bev(1, "pano") EXCEPT !.stride = 2]}

Sensor(stream, payload, points) ==
  [stream |-> stream, stamp |-> 1, id |-> "imu", payload |-> payload, points |-> points]
MCSensorFrames ==
  {Sensor(s, b, 0) : s \in {"Imu", "LidarImu"}, b \in {None, 295, 296}}
    \cup {Sensor("LidarPointCloud", b, n) : b \in {None, 15, 35, 53, 54}, n \in 0 .. 2}

Base ==
  [streams |-> {}, compressed |-> TRUE, decoded |-> TRUE, cameras |-> {}, colorize |-> FALSE,
   depth |-> FALSE, cloud |-> FALSE, viz |-> TRUE, pcl |-> FALSE, panorama |-> FALSE,
   calibration |-> None, lookup |-> FALSE, delta |-> 1, ipm |-> "off", period |-> 0,
   fallback |-> "base_link", plane |-> None, installation |-> None]

Coloured ==
  [Base EXCEPT !.streams = {"RectifiedFisheye", "Disparity"}, !.colorize = TRUE, !.depth = TRUE,
               !.cloud = TRUE, !.calibration = Calibration, !.lookup = TRUE]

MCSetups ==
  {Coloured,
   [Base EXCEPT !.streams = {"Disparity"}],
   [Base EXCEPT !.streams = {"Disparity"}, !.depth = TRUE, !.calibration = Calibration],
   [Base EXCEPT !.streams = {"Disparity"}, !.panorama = TRUE, !.calibration = Calibration,
                !.lookup = TRUE],
   [Base EXCEPT !.streams = {"RectifiedFisheye"}, !.compressed = FALSE],
   [Base EXCEPT !.streams = {"BevDisplay", "PanoDisplay", "Imu", "LidarImu", "LidarPointCloud"},
                !.ipm = "board"],
   [Base EXCEPT !.streams = {"BevDisplay"}, !.ipm = "board", !.plane = Floor,
                !.installation = Installed],
   [Base EXCEPT !.streams = {"RawFisheye", "LidarPointCloud"}, !.pcl = TRUE, !.ipm = "host",
                !.period = 2],
   [Base EXCEPT !.streams = {"RawFisheye"}, !.compressed = FALSE, !.cameras = {"3"},
                !.ipm = "host"]}
=============================================================================
