----------------------------- MODULE BridgeConfig ----------------------------
(***************************************************************************)
(* LoadConfig of bridge_node_ros2.cpp: from the node's parameters to the   *)
(* configuration the bridge runs with.  Pure operators.                    *)
(*                                                                         *)
(* p is a function from the names of the parameters that were set to their *)
(* values, which have the declared type.  A token is what NormalizeToken   *)
(* leaves of a string, a list of them what SplitCsv makes of it.  A double *)
(* is a number of hundredths, or NaN.                                      *)
(***************************************************************************)
EXTENDS Integers, Sequences, TLC

CONSTANT NaN

\* The fields of several records: of those that have one, the first decides it.
Field(rs, n) ==
  rs[CHOOSE i \in DOMAIN rs : n \in DOMAIN rs[i] /\ \A j \in 1 .. i - 1 : n \notin DOMAIN rs[j]][n]

Together(rs) == [n \in UNION {DOMAIN rs[i] : i \in DOMAIN rs} |-> Field(rs, n)]

\* ParameterReader::param, and the pano_x parameters with their panorama_x alias.
Param(p, n, default) == IF n \in DOMAIN p THEN p[n] ELSE default
Pano(p, n, default) == Param(p, "panorama_" \o n, Param(p, "pano_" \o n, default))

AtLeast(low, v, fallback) == IF v < low THEN fallback ELSE v
Clamp(low, v, high) == IF v < low THEN low ELSE IF v > high THEN high ELSE v

\* Comparisons of doubles: false as soon as one of them is NaN.
LE(a, b) == a # NaN /\ b # NaN /\ a <= b
LT(a, b) == a # NaN /\ b # NaN /\ a < b

-----------------------------------------------------------------------------
(***************************************************************************)
(* Counts: default, least value, and what replaces a smaller one.          *)
(***************************************************************************)
Bounds ==
  [queue_size |-> <<10, 1, 1>>, max_receive_queue_depth |-> <<64, 1, 1>>,
   max_decode_queue_depth |-> <<64, 1, 1>>, max_publish_queue_depth |-> <<64, 1, 1>>,
   publish_worker_threads |-> <<8, 0, 0>>, max_decode_latency_ms |-> <<100, 1, 100>>,
   connect_timeout_ms |-> <<2000, 1, 2000>>, connect_retry_count |-> <<4, 0, 0>>,
   connect_retry_delay_ms |-> <<1000, 0, 0>>, first_frame_timeout_ms |-> <<5000, 1, 5000>>,
   vio_path_max_poses |-> <<2000, 1, 1>>]

\* A declared parameter keeps the type of its default.
Typed(p) ==
  /\ Param(p, "streams", << >>) \in Seq(STRING)
  /\ \A n \in {"width", "height", "crop_top", "crop_bottom"} : Pano(p, n, 0) \in Int
  /\ \A n \in DOMAIN Bounds : Param(p, n, 0) \in Int

Counts(p) ==
  [n \in DOMAIN Bounds |-> AtLeast(Bounds[n][2], Param(p, n, Bounds[n][1]), Bounds[n][3])]

(***************************************************************************)
(* Plain parameters.  publish_depth, split_multi_image_frames and          *)
(* publish_bundle_entries are read without being declared: a node that     *)
(* declares its parameters, as main's does, never has them.                *)
(***************************************************************************)
Defaults ==
  [require_streaming_transport |-> TRUE, allow_sample_endpoint_fallback |-> FALSE,
   publish_compressed_images |-> TRUE, publish_ipm |-> FALSE, ipm_frame_id |-> "",
   ipm_max_publish_rate_hz |-> 500, sensor_data_best_effort |-> FALSE,
   publish_lidar_pcl |-> FALSE, publish_vio_path |-> TRUE, publish_vio_tf |-> TRUE,
   tf_mode |-> "device", mounting_config |-> "", publish_mounting_tf |-> FALSE,
   publish_odom_tf |-> FALSE, odom_frame |-> "odom"]

Plain(p) == [n \in DOMAIN Defaults |-> Param(p, n, Defaults[n])]

Others(p) ==
  LET port == Param(p, "control_port", 18088)
      rate == Param(p, "vio_path_publish_rate_hz", 1000)
  IN  [control_port |-> IF port \in 1 .. 65535 THEN port ELSE 18088,
       vio_path_publish_rate_hz |-> IF LE(0, rate) THEN rate ELSE 1000,
       publish_sensor_tf |-> Param(p, "publish_sensor_tf", Plain(p).publish_vio_tf),
       split_multi_image_frames |-> TRUE, publish_depth_panorama |-> TRUE,
       host_fallback_active |-> FALSE]

-----------------------------------------------------------------------------
(***************************************************************************)
(* LoadImageMode.  "raw" leaves publish_compressed_images as it was set.   *)
(***************************************************************************)
LoadImageMode(p) ==
  LET mode == Param(p, "image_mode", "raw-and-decoded")
      Mode(decode, decoded, compressed) ==
        [decode_mode |-> decode, publish_decoded_images |-> decoded,
         publish_compressed_images |-> compressed]
  IN  IF mode \in {"decoded", "decoded-only"} THEN Mode("DecodedOnly", TRUE, FALSE)
      ELSE IF mode \in {"raw", "raw-only"}
        THEN Mode("RawOnly", FALSE, Plain(p).publish_compressed_images)
      ELSE Mode("RawAndDecoded", TRUE, TRUE)

(***************************************************************************)
(* LoadStreams.                                                            *)
(***************************************************************************)
StreamNames ==
  [raw |-> "RawFisheye", rectified |-> "RectifiedFisheye", imu |-> "Imu",
   lidar |-> "LidarPointCloud", lidar_imu |-> "LidarImu", disparity |-> "Disparity",
   vio |-> "VioPose", raw_fisheye_stream |-> "RawFisheye",
   disparity_stream |-> "Disparity", registered_cloud_stream |-> "RegisteredCloud"]

DefaultStreams == <<"RawFisheye", "RectifiedFisheye", "Imu", "LidarPointCloud", "LidarImu",
                    "Disparity", "VioPose">>

DepthTokens == {"depth", "depth_map", "depth_map_stream"}
IsBridgePanoramaToken(t) ==
  t \in {"pano", "panorama", "pano_display", "pano_display_stream", "panorama_stream"}
IsBridgeBevToken(t) ==
  t \in {"bev", "ipm", "birdseye", "birds_eye", "bev_display", "bev_display_stream"}

Known(t) == t \in DOMAIN StreamNames

Some(tokens, S(_)) == \E i \in DOMAIN tokens : S(tokens[i])
IsDepthToken(t) == t \in DepthTokens

KnownStreams(tokens) ==
  LET named[i \in 0 .. Len(tokens)] ==
        IF i = 0 THEN << >>
        ELSE IF Known(tokens[i]) THEN Append(named[i - 1], StreamNames[tokens[i]])
        ELSE named[i - 1]
  IN  named[Len(tokens)]

LoadStreams(p) ==
  LET tokens == Param(p, "streams", <<"raw", "rectified", "imu", "lidar", "lidar_imu",
                                      "disparity", "depth", "vio">>)
      named == KnownStreams(tokens)
      depth == Some(tokens, IsDepthToken)
      panorama == Some(tokens, IsBridgePanoramaToken)
      ipm == Plain(p).publish_ipm \/ Some(tokens, IsBridgeBevToken)
      nothing == named = << >> /\ ~depth /\ ~panorama /\ ~ipm
  IN  IF tokens = <<"all">>
        THEN [streams |-> DefaultStreams, publish_depth |-> TRUE,
              publish_panorama |-> FALSE, publish_ipm |-> Plain(p).publish_ipm]
        ELSE [streams |-> IF nothing THEN DefaultStreams
                          ELSE named,
              publish_depth |-> depth, publish_panorama |-> panorama, publish_ipm |-> ipm]

-----------------------------------------------------------------------------
(***************************************************************************)
(* LoadDepthOptions.                                                       *)
(***************************************************************************)
DepthFormat(t) ==
  IF t \in {"uint16", "16uc1", "millimeters", "uint16_millimeters", "uint16_mm"}
    THEN "Uint16Millimeters" ELSE "Float32Meters"

InvalidPolicy(t) == IF t = "zero" THEN "Zero"
                    ELSE IF t \in {"max_range", "maxrange"} THEN "MaxRange" ELSE "NaN"

CloudFrame(t) == IF t \in {"world", "calibration_world"} THEN "CalibrationWorld"
                 ELSE IF t \in {"tile", "tile_optical", "optical"} THEN "TileOptical"
                 ELSE "RosBody"

VizRange(p) ==
  LET low == Param(p, "depth_viz_min_depth_m", 10)
      high == Param(p, "depth_viz_max_depth_m", 2000)
  IN  IF LE(high, low) THEN <<10, 2000>> ELSE <<low, high>>

LoadDepthOptions(p) ==
  LET disparity == Param(p, "depth_min_disparity_px", 1)
      positive == IF LE(disparity, 0) THEN 1 ELSE disparity
      depth == Param(p, "depth_max_depth_m", 5000)
      delta == Param(p, "depth_pointcloud_color_max_delta_ms", 1000)
  IN  [depth_format |-> DepthFormat(Param(p, "depth_format", "float32")),
       depth_invalid_policy |-> InvalidPolicy(Param(p, "depth_invalid_policy", "nan")),
       min_disparity_px |-> positive,
       max_depth_m |-> IF LE(depth, 0) THEN 5000 ELSE depth,
       publish_depth_viz |-> Param(p, "publish_depth_viz", TRUE),
       publish_depth_pointcloud |-> Param(p, "publish_depth_pointcloud", TRUE),
       colorize_depth_pointcloud |-> Param(p, "depth_pointcloud_colorize",
                                           Param(p, "colorize_depth_pointcloud", TRUE)),
       color_max_delta_ms |-> IF LE(0, delta) THEN delta ELSE 1000,
       viz_range |-> VizRange(p),
       pointcloud_stride |-> AtLeast(1, Param(p, "depth_pointcloud_stride", 4), 1),
       pointcloud_min_disparity_px |-> IF LT(50, positive) THEN positive ELSE 50,
       output_frame |-> CloudFrame(Param(p, "depth_pointcloud_frame", "ros")),
       frame_id |-> Param(p, "depth_pointcloud_frame_id", "")]

-----------------------------------------------------------------------------
(***************************************************************************)
(* LoadPanoramaOptions.  A profile also names a blend mode, but nothing    *)
(* reads it: pano_blend has a default of its own.                          *)
(***************************************************************************)
ApplyPanoramaProfile(t) ==
  LET Profile(px, align, seam, ghost) ==
        [seam_blend_px |-> px, photometric_align |-> align, seam_mode |-> seam,
         seam_ghost_suppression |-> ghost]
  IN  IF t \in {"ghost_suppression", "ghost", "balanced"}
        THEN Profile(32, TRUE, "DynamicProgramming", TRUE)
      ELSE IF t \in {"primary_only", "primary", "hard", "fast"}
        THEN Profile(0, FALSE, "Fixed", FALSE)
      ELSE Profile(32, TRUE, "Fixed", FALSE)

ParsePanoramaSeamMode(t) ==
  IF t \in {"dynamic", "dynamic_programming", "dp", "DynamicProgramming"}
    THEN "DynamicProgramming" ELSE "Fixed"

ParsePanoramaBlendMode(t) ==
  IF t = "feather" THEN "Feather"
  ELSE IF t \in {"primary", "primary_only", "none"} THEN "PrimaryOnly" ELSE "MultiBand"

OutputHeight(s) ==
  IF s.crop_top + s.crop_bottom < s.height THEN s.height - s.crop_top - s.crop_bottom ELSE 0

Canvas(p) ==
  LET given == [width |-> AtLeast(1, Pano(p, "width", 2048), 2048),
                height |-> AtLeast(1, Pano(p, "height", 1024), 1024),
                crop_top |-> AtLeast(0, Pano(p, "crop_top", 200), 0),
                crop_bottom |-> AtLeast(0, Pano(p, "crop_bottom", 200), 0)]
  IN  IF OutputHeight(given) = 0 THEN [given EXCEPT !.crop_top = 0, !.crop_bottom = 0] ELSE given

Seam(p) ==
  LET profile == ApplyPanoramaProfile(Pano(p, "profile", "baseline"))
      radius == Pano(p, "stitching_radius_m", 200)
  IN  [stitching_radius_m |-> IF LE(0, radius) THEN radius ELSE 200,
       seam_blend_px |-> AtLeast(0, Pano(p, "seam_blend_px", profile.seam_blend_px), 0),
       seam_mode |-> ParsePanoramaSeamMode(Pano(p, "seam_mode", profile.seam_mode)),
       dp_seam_band_px |-> AtLeast(0, Pano(p, "dp_seam_band_px", 96), 0),
       blend_mode |-> ParsePanoramaBlendMode(Pano(p, "blend", "multiband")),
       multiband_levels |-> Clamp(0, Pano(p, "multiband_levels", 4), 8),
       photometric_align |-> Pano(p, "photometric_align", profile.photometric_align),
       seam_ghost_suppression |->
         Pano(p, "seam_ghost_suppression", profile.seam_ghost_suppression)]

DepthAssist(p) ==
  LET required == Pano(p, "depth_required", FALSE)
      low == Pano(p, "depth_min_range_m", 20)
      nearest == IF LE(low, 0) THEN 20 ELSE low
      far == Pano(p, "depth_max_warp_range_m", 800)
  IN  [depth_assist |-> required \/ Pano(p, "depth_assist", FALSE),
       depth_required |-> required,
       depth_min_range_m |-> nearest,
       depth_max_warp_range_m |-> IF LE(far, nearest) THEN 800 ELSE far,
       max_depth_delta_ms |-> AtLeast(0, Pano(p, "max_depth_timestamp_delta_ms", 20), 0),
       max_stitch_threads |-> Clamp(0, Pano(p, "max_stitch_threads", 0), 8)]

-----------------------------------------------------------------------------
(***************************************************************************)
(* LoadConfig: what the parameters say of each part, put together; depth   *)
(* and panorama depth need the disparity stream.                           *)
(***************************************************************************)
HasStream(streams, s) == \E i \in DOMAIN streams : streams[i] = s

WithStream(streams, s) == IF HasStream(streams, s) THEN streams ELSE Append(streams, s)

NeedsPanoramaDepth(c) == c.publish_panorama /\ c.depth_assist

NeedsDisparity(c) == c.publish_depth \/ NeedsPanoramaDepth(c)

Loaded(p) ==
  <<LoadStreams(p), LoadImageMode(p), LoadDepthOptions(p), Canvas(p), Seam(p), DepthAssist(p),
    Others(p), Counts(p), Plain(p)>>

LoadConfig(loaded) ==
  LET c == Together(loaded)
  IN  IF NeedsDisparity(c) THEN [c EXCEPT !.streams = WithStream(@, "Disparity")] ELSE c
=============================================================================
