-------------------------- MODULE MCBridgeLifecycle -------------------------
(* Parameters for TLC: every choice of displays and depth against every     *)
(* kind of TF setup, and each other parameter at the values the code        *)
(* treats apart.                                                            *)
EXTENDS BridgeLifecycle

Merge(ps, qs) == {q @@ p : p \in ps, q \in qs}
Values(n, vs) == {n :> v : v \in vs}

StreamChoices ==
  Values("streams", {<<"vio">>, <<"raw">>, <<"depth">>, <<"pano">>, <<"bev">>, <<"all">>, <<"none">>,
                     <<"disparity", "depth", "pano", "bev">>})

Tilted == <<<<9, 0, 1>>, 0>>
Wall == <<<<10, 0, 1>>, 0>>
File(child, plane) == [parent |-> "base_link", child |-> child, pose |-> None, plane |-> plane]
NoFrames == [parent |-> "", child |-> "", pose |-> None, plane |-> None]

MCFiles ==
  ("mount.yaml" :> File("orbvi_link", Tilted)) @@ ("wall.yaml" :> File("orbvi_link", Wall))
    @@ ("flat.yaml" :> File("orbvi_link", None)) @@ ("sdk" :> NoFrames)

Projection(parent, z) ==
  [parent |-> parent, child |-> "orbvi_link", xyz |-> <<5, 0, z>>, quaternion |-> <<1, 0, 0, 1>>,
   plane |-> Tilted]
MCProjections == {Projection("base_link", 1), Projection("base_link", 2), Projection("mid360_imu", 1)}

RobotFile(file) == ("tf_mode" :> "robot") @@ ("mounting_config" :> file)

TfChoices ==
  {<< >>, RobotFile("mount.yaml"), RobotFile("sdk")}

OddTf ==
  {RobotFile(f) : f \in {"", "wall.yaml", "flat.yaml"}} \cup Values("tf_mode", {"urdf"})
    \cup Values("mounting_config", {"mount.yaml"})
    \cup Merge({RobotFile("mount.yaml"), RobotFile("wall.yaml"), RobotFile("flat.yaml"), << >>},
               Merge(Values("publish_odom_tf", {TRUE}),
                     {<< >>, "publish_vio_tf" :> FALSE, "odom_frame" :> "base_link",
                      "odom_frame" :> "orbvi_link", "publish_mounting_tf" :> TRUE}))
    \cup Merge({RobotFile("sdk")},
               Merge(Values("publish_mounting_tf", {TRUE}), Values("publish_sensor_tf", BOOLEAN)))
    \cup Merge({RobotFile("mount.yaml"), RobotFile("sdk"), << >>},
               Values("depth_pointcloud_frame_id", {"orbvi_link", "depth"})
                 \cup Values("depth_pointcloud_frame", {"tile"}))
    \cup Merge({RobotFile("mount.yaml")},
               Merge(Values("publish_ipm", {TRUE}),
                     Values("ipm_frame_id", {"base_link", "orbvi_link"})
                       \cup Values("ipm_max_publish_rate_hz", {0, -1, NaN})))

Extremes(n) == n :> -1

Others1 ==
  {Extremes(n) : n \in DOMAIN Bounds} \cup Values("publish_worker_threads", {0})
    \cup Values("control_port", {0, 65536})
    \cup Values("image_mode", {"decoded", "raw"})
    \cup Merge(Values("image_mode", {"raw"}), Merge(Values("publish_compressed_images", BOOLEAN),
                                                    Values("streams", {<<"bev">>})))
    \cup Merge(Values("streams", {<<"vio">>, <<"depth">>}),
               Values("publish_depth_pointcloud", {FALSE}))

PanoChoices ==
  Merge(Values("streams", {<<"pano">>, <<"pano", "depth">>}),
        {<< >>} \cup Values("pano_depth_assist", {TRUE}) \cup Values("panorama_depth_required", {TRUE})
          \cup Values("pano_profile", {"ghost", "fast"}))

CanvasChoices ==
  Merge(Values("streams", {<<"vio">>}),
        Merge(Values("pano_height", {-1, 400, 401}),
              Values("pano_crop_top", {-1, 0, 200}) \cup Values("panorama_crop_bottom", {201, 2000})))

MCParams ==
  Merge(StreamChoices, TfChoices) \cup Merge(Values("streams", {<<"vio">>}), OddTf \cup Others1)
    \cup Others1 \cup PanoChoices \cup CanvasChoices
BadNames == {"bad//name"}
=============================================================================
