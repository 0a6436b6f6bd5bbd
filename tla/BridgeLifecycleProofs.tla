------------------------ MODULE BridgeLifecycleProofs -----------------------
(***************************************************************************)
(* What holds of a bridge process for every set of parameters, mounting    *)
(* files and board answers.                                                *)
(***************************************************************************)
EXTENDS BridgeLifecycle, WellFoundedInduction, SequenceTheorems, TLAPS

(***************************************************************************)
(* Where each phase of Start leads.                                        *)
(***************************************************************************)
LEMMA AfterPhase ==
  /\ After("depth") = "pose" /\ After("pose") = "ipm" /\ After("ipm") = "derive"
  /\ After("derive") = "subscribe" /\ After("subscribe") = "panorama"
  /\ After("panorama") = "spin"
<1>1. DOMAIN StartOrder = 1 .. 7
  BY DEF StartOrder
<1>2. /\ StartOrder[1] = "depth" /\ StartOrder[2] = "pose" /\ StartOrder[3] = "ipm"
      /\ StartOrder[4] = "derive" /\ StartOrder[5] = "subscribe"
      /\ StartOrder[6] = "panorama" /\ StartOrder[7] = "spin"
  BY DEF StartOrder
<1>3. \A i \in 1 .. 7 : i = 1 \/ i = 2 \/ i = 3 \/ i = 4 \/ i = 5 \/ i = 6 \/ i = 7
  OBVIOUS
<1> DEFINE At(step) == CHOOSE i \in DOMAIN StartOrder : StartOrder[i] = step
<1>4. At("depth") = 1 /\ At("pose") = 2 /\ At("ipm") = 3
  <2>1. At("depth") \in 1 .. 7 /\ StartOrder[At("depth")] = "depth"
    BY <1>1, <1>2
  <2>2. At("pose") \in 1 .. 7 /\ StartOrder[At("pose")] = "pose"
    BY <1>1, <1>2
  <2>3. At("ipm") \in 1 .. 7 /\ StartOrder[At("ipm")] = "ipm"
    BY <1>1, <1>2
  <2> HIDE DEF At
  <2> QED BY <1>2, <1>3, <2>1, <2>2, <2>3
<1>5. At("derive") = 4 /\ At("subscribe") = 5 /\ At("panorama") = 6
  <2>1. At("derive") \in 1 .. 7 /\ StartOrder[At("derive")] = "derive"
    BY <1>1, <1>2
  <2>2. At("subscribe") \in 1 .. 7 /\ StartOrder[At("subscribe")] = "subscribe"
    BY <1>1, <1>2
  <2>3. At("panorama") \in 1 .. 7 /\ StartOrder[At("panorama")] = "panorama"
    BY <1>1, <1>2
  <2> HIDE DEF At
  <2> QED BY <1>2, <1>3, <2>1, <2>2, <2>3
<1>6. \A step : After(step) = StartOrder[1 + At(step)]
  BY DEF After
<1> HIDE DEF At
<1> QED BY <1>2, <1>4, <1>5, <1>6

(***************************************************************************)
(* Start begins with the depth settings.                                   *)
(***************************************************************************)
LEMMA FirstPhase == StartOrder[1] = "depth"
BY DEF StartOrder

-----------------------------------------------------------------------------
(***************************************************************************)
(* Where the main thread may be before anything of this process delivers,  *)
(* and where it may be at all.                                             *)
(***************************************************************************)
Preparing ==
  {"load", "connect", "mounting", "wait", "configure", "depth", "pose", "ipm", "generator"}

Delivering ==
  {"derive", "subscribe", "panorama", "spin", "spinning", "stop", "join",
   "failed", "ended", "aborted"}

(***************************************************************************)
(* The phases that still write what callbacks read come before the first   *)
(* subscription and the derived worker; the mounting snapshot's own        *)
(* subscription lives only during the wait for it.  Behind Disconnect      *)
(* nothing delivers, and behind JoinDerived the derived worker is gone.    *)
(***************************************************************************)
LifecycleInv ==
  /\ at \in Preparing \cup Delivering
  /\ at \in Preparing => subs = << >> /\ pano = None /\ "derived" \notin devices
  /\ at \in {"join", "ended"} => client = None /\ subs = << >> /\ pano = None
  /\ at = "ended" => devices \cap {"derived", "workers"} = {}
  /\ DOMAIN board = {"live", "frames"}
  /\ at # "wait" => ~board.live

(***************************************************************************)
(* Before LoadConfig nothing is held and nothing runs.                     *)
(***************************************************************************)
LEMMA LifecycleInvInit == Init => LifecycleInv
BY DEF Init, LifecycleInv, Preparing, Delivering

(***************************************************************************)
(* A phase of Start that still writes what callbacks read.                 *)
(***************************************************************************)
LEMMA PrepareStep ==
  ASSUME LifecycleInv,
         Load \/ Connect \/ ConnectFails \/ SubscribeSnapshot \/ SnapshotRefused
           \/ DeliverSnapshot \/ WaitEnds \/ ConfigureFails \/ Configure
           \/ NoDepth \/ PrepareDepth \/ PreparePose
           \/ SkipIpm \/ SubscribeBev \/ BevRefused \/ InitializeGenerator
           \/ ConfigureThrows \/ PoseThrows
  PROVE  LifecycleInv' /\ ~Live
<1> USE DEF LifecycleInv, Preparing, Delivering, outputVars, streamVars, processVars, boardVars
<1>0. at \in Preparing => ~Live
  BY DEF Live
<1>1. CASE Load \/ Connect \/ ConnectFails
  BY <1>0, <1>1 DEF Load, Connect, ConnectFails
<1>2. CASE SubscribeSnapshot
  BY <1>0, <1>2 DEF SubscribeSnapshot
<1>3. CASE SnapshotRefused
  BY <1>0, <1>3 DEF SnapshotRefused
<1>4. CASE DeliverSnapshot
  BY <1>0, <1>4 DEF DeliverSnapshot
<1>5. CASE WaitEnds
  BY <1>0, <1>5 DEF WaitEnds
<1>6. CASE ConfigureFails
  BY <1>0, <1>6 DEF ConfigureFails
<1>7. CASE Configure
  <2>1. /\ at = "configure" /\ at' = "depth"
        /\ devices' = Broadcasters(config) \cup Workers(config)
        /\ UNCHANGED <<boardVars, streamVars>>
    BY <1>7, FirstPhase DEF Configure
  <2>2. "derived" \notin Broadcasters(config) \cup Workers(config)
    BY DEF Broadcasters, Workers
  <2> QED BY <1>0, <2>1, <2>2
<1>8. CASE NoDepth \/ PrepareDepth
  <2>1. at = "depth" /\ at' = "pose" /\ UNCHANGED <<boardVars, devices, streamVars>>
    BY <1>8, AfterPhase DEF NoDepth, PrepareDepth
  <2> QED BY <1>0, <2>1
<1>9. CASE PreparePose
  <2>1. at = "pose" /\ at' = "ipm" /\ UNCHANGED <<boardVars, devices, streamVars>>
    BY <1>9, AfterPhase DEF PreparePose
  <2> QED BY <1>0, <2>1
<1>10. CASE SkipIpm \/ SubscribeBev
  <2>1. at = "ipm" /\ at' = "derive" /\ UNCHANGED boardVars
    BY <1>10, AfterPhase DEF SkipIpm, SubscribeBev
  <2> QED BY <1>0, <2>1
<1>11. CASE BevRefused
  <2>1. /\ at = "ipm" /\ at' \in {"derive", "generator", "stop"}
        /\ UNCHANGED <<boardVars, devices, subs, pano>>
    BY <1>11, AfterPhase DEF BevRefused
  <2> QED BY <1>0, <2>1
<1>12. CASE InitializeGenerator
  <2>1. /\ at = "generator" /\ at' \in {"derive", "stop"}
        /\ UNCHANGED <<boardVars, devices, streamVars>>
    BY <1>12, AfterPhase DEF InitializeGenerator
  <2> QED BY <1>0, <2>1
<1>13. CASE ConfigureThrows \/ PoseThrows
  <2>1. at \in {"configure", "pose"} /\ at' = "aborted" /\ UNCHANGED <<board, devices, subs, pano>>
    BY <1>13 DEF ConfigureThrows, PoseThrows
  <2> QED BY <1>0, <2>1
<1> QED BY <1>1, <1>2, <1>3, <1>4, <1>5, <1>6, <1>7, <1>8, <1>9, <1>10, <1>11, <1>12, <1>13

(***************************************************************************)
(* Every other step of the main thread, the signal handler, and the making *)
(* of publishers.                                                          *)
(***************************************************************************)
LEMMA DeliverStep ==
  ASSUME LifecycleInv,
         StartDerived \/ Subscribe \/ Subscribed \/ SubscribeFails
           \/ SubscribeBoardPanorama \/ PanoramaRefused \/ SubscribeHostPanorama
           \/ Destroy \/ StopPanorama \/ StopStream \/ Disconnect
           \/ JoinDerived \/ JoinWorkers \/ Signal
           \/ Spin \/ Announce \/ LatePublish
  PROVE  /\ LifecycleInv'
         /\ UNCHANGED <<config, tf, depth, lookup, session, generator>>
<1> USE DEF LifecycleInv, Preparing, Delivering, outputVars, streamVars, processVars, boardVars
<1>1. CASE StartDerived
  BY <1>1, AfterPhase DEF StartDerived
<1>2. CASE Subscribe \/ Subscribed \/ SubscribeFails
  BY <1>2, AfterPhase DEF Subscribe, Subscribed, SubscribeFails
<1>3. CASE SubscribeBoardPanorama \/ SubscribeHostPanorama
  BY <1>3, AfterPhase DEF SubscribeBoardPanorama, SubscribeHostPanorama
<1>4. CASE PanoramaRefused
  BY <1>4 DEF PanoramaRefused
<1>5. CASE Destroy
  BY <1>5 DEF Destroy
<1>6. CASE StopPanorama \/ StopStream
  BY <1>6 DEF StopPanorama, StopStream
<1>7. CASE Disconnect
  BY <1>7 DEF Disconnect
<1>8. CASE JoinDerived
  BY <1>8 DEF JoinDerived
<1>9. CASE JoinWorkers
  BY <1>9 DEF JoinWorkers
<1>10. CASE Signal
  BY <1>10 DEF Signal
<1>11. CASE Spin \/ Announce
  BY <1>11 DEF Spin, Announce
<1>12. CASE LatePublish
  <2>1. at \notin Preparing /\ at' = "aborted" /\ UNCHANGED <<board, config, tf, outputVars>>
    BY <1>12 DEF LatePublish, Live
  <2> QED BY <2>1
<1> QED BY <1>1, <1>2, <1>3, <1>4, <1>5, <1>6, <1>7, <1>8, <1>9, <1>10, <1>11, <1>12

(***************************************************************************)
(* Every step keeps the invariant, and one that changes what callbacks     *)
(* read is taken while none can run.                                       *)
(***************************************************************************)
LEMMA LifecycleStep ==
  LifecycleInv /\ [Next]_vars =>
    /\ LifecycleInv'
    /\ Live => UNCHANGED <<config, tf, depth, lookup, session, generator>>
<1> SUFFICES ASSUME LifecycleInv, [Next]_vars
             PROVE  /\ LifecycleInv'
                    /\ Live => UNCHANGED <<config, tf, depth, lookup, session, generator>>
  OBVIOUS
<1>1. CASE Main \/ DeliverSnapshot \/ Signal \/ Announce \/ LatePublish
  BY <1>1, PrepareStep, DeliverStep DEF Main
<1>2. CASE UNCHANGED vars
  BY <1>2 DEF vars, LifecycleInv, outputVars, streamVars, boardVars
<1> QED BY <1>1, <1>2 DEF Next

(***************************************************************************)
(* Settled for every configuration and every answer of the board: no       *)
(* callback of a subscription ever runs while the main thread still writes *)
(* the configuration, the TF setup, the calibration flags, the session or  *)
(* the IPM generator, which callbacks read without a lock.                 *)
(***************************************************************************)
THEOREM CallbacksSeeSettled == Spec => Settled
<1>1. LifecycleInv /\ [Next]_vars
        => [Live => UNCHANGED <<config, tf, depth, lookup, session, generator>>]_vars
  BY LifecycleStep
<1> QED BY <1>1, LifecycleInvInit, LifecycleStep, PTL DEF Spec, Settled

(***************************************************************************)
(* Whatever failed on the way, a process that has ended holds no client,   *)
(* no subscription and no worker thread (BridgeNode's destructor runs Stop *)
(* also after a Start that failed half way).                               *)
(***************************************************************************)
THEOREM EndedReleased == Spec => [](at = "ended" => Released)
<1>1. LifecycleInv => (at = "ended" => Released)
  BY DEF LifecycleInv, Released
<1> QED BY <1>1, LifecycleInvInit, LifecycleStep, PTL DEF Spec

-----------------------------------------------------------------------------
(***************************************************************************)
(* What of the configuration decides where the mounting comes from.        *)
(***************************************************************************)
MountingFields == {"tf_mode", "mounting_config", "publish_mounting_tf"}

SameMounting(c, d) ==
  /\ MountingFields \subseteq DOMAIN d
  /\ FromBoard(d) = FromBoard(c) /\ d.publish_mounting_tf = c.publish_mounting_tf

(***************************************************************************)
(* A field is that of the first record that has it.                        *)
(***************************************************************************)
LEMMA FirstHasIt ==
  ASSUME NEW rs, DOMAIN rs \subseteq Nat \ {0}, NEW i \in DOMAIN rs, NEW n \in DOMAIN rs[i],
         \A j \in 1 .. i - 1 : n \notin DOMAIN rs[j]
  PROVE  n \in DOMAIN Together(rs) /\ Together(rs)[n] = rs[i][n]
<1> DEFINE k == CHOOSE k \in DOMAIN rs :
                   n \in DOMAIN rs[k] /\ \A j \in 1 .. k - 1 : n \notin DOMAIN rs[j]
<1>1. k \in DOMAIN rs /\ n \in DOMAIN rs[k] /\ \A j \in 1 .. k - 1 : n \notin DOMAIN rs[j]
  OBVIOUS
<1>2. Field(rs, n) = rs[k][n]
  BY DEF Field
<1> HIDE DEF k
<1>3. k = i
  <2>1. CASE k < i
    <3>1. k \in 1 .. i - 1
      BY <1>1, <2>1
    <3> QED BY <1>1, <3>1
  <2>2. CASE i < k
    <3>1. i \in 1 .. k - 1
      BY <1>1, <2>2
    <3> QED BY <1>1, <3>1
  <2> QED BY <1>1, <2>1, <2>2
<1>4. n \in UNION {DOMAIN rs[j] : j \in DOMAIN rs}
  OBVIOUS
<1> QED BY <1>2, <1>3, <1>4 DEF Together

(***************************************************************************)
(* Which part of the configuration comes from which parameters.            *)
(***************************************************************************)
LEMMA LoadedParts ==
  ASSUME NEW p
  PROVE  LET c == Together(Loaded(p))
         IN  /\ \A n \in {"streams", "publish_depth", "publish_panorama", "publish_ipm"} :
                  n \in DOMAIN c /\ c[n] = LoadStreams(p)[n]
             /\ \A n \in {"decode_mode", "publish_decoded_images", "publish_compressed_images"} :
                  n \in DOMAIN c /\ c[n] = LoadImageMode(p)[n]
             /\ \A n \in {"publish_depth_pointcloud", "output_frame", "frame_id"} :
                  n \in DOMAIN c /\ c[n] = LoadDepthOptions(p)[n]
             /\ \A n \in {"width", "height", "crop_top", "crop_bottom"} :
                  n \in DOMAIN c /\ c[n] = Canvas(p)[n]
             /\ "depth_assist" \in DOMAIN c
             /\ \A n \in {"publish_sensor_tf", "publish_depth_panorama", "host_fallback_active"} :
                  n \in DOMAIN c /\ c[n] = Others(p)[n]
             /\ \A n \in DOMAIN Bounds : n \in DOMAIN c /\ c[n] = Counts(p)[n]
             /\ {"ipm_frame_id", "publish_vio_tf", "publish_odom_tf"} \cup MountingFields
                  \subseteq DOMAIN c
<1> DEFINE rs == Loaded(p)
           c == Together(rs)
<1>1. /\ DOMAIN rs = 1 .. 9
      /\ rs[1] = LoadStreams(p) /\ rs[2] = LoadImageMode(p) /\ rs[3] = LoadDepthOptions(p)
      /\ rs[4] = Canvas(p) /\ rs[5] = Seam(p) /\ rs[6] = DepthAssist(p)
      /\ rs[7] = Others(p) /\ rs[8] = Counts(p) /\ rs[9] = Plain(p)
  BY DEF Loaded
<1>2. /\ DOMAIN rs[1] = {"streams", "publish_depth", "publish_panorama", "publish_ipm"}
      /\ DOMAIN rs[2] = {"decode_mode", "publish_decoded_images", "publish_compressed_images"}
  BY <1>1 DEF LoadStreams, LoadImageMode
<1>3. DOMAIN LoadDepthOptions(p) =
        {"depth_format", "depth_invalid_policy", "min_disparity_px", "max_depth_m",
         "publish_depth_viz", "publish_depth_pointcloud",
         "colorize_depth_pointcloud", "color_max_delta_ms", "viz_range",
         "pointcloud_stride", "pointcloud_min_disparity_px", "output_frame",
         "frame_id"}
  BY SMT DEF LoadDepthOptions
<1>4. DOMAIN rs[4] = {"width", "height", "crop_top", "crop_bottom"}
  BY <1>1 DEF Canvas
<1>5. DOMAIN rs[5] = {"stitching_radius_m", "seam_blend_px", "seam_mode", "dp_seam_band_px",
                      "blend_mode", "multiband_levels", "photometric_align",
                      "seam_ghost_suppression"}
  BY <1>1 DEF Seam
<1>6. DOMAIN rs[6] = {"depth_assist", "depth_required", "depth_min_range_m",
                      "depth_max_warp_range_m", "max_depth_delta_ms", "max_stitch_threads"}
  BY <1>1 DEF DepthAssist
<1>7. DOMAIN Others(p) =
        {"control_port", "vio_path_publish_rate_hz", "publish_sensor_tf",
         "split_multi_image_frames", "publish_depth_panorama",
         "host_fallback_active"}
  BY SMT DEF Others
<1>8. DOMAIN rs[8] = DOMAIN Bounds /\ DOMAIN rs[9] = DOMAIN Defaults
  BY <1>1 DEF Counts, Plain
<1>9. DOMAIN Bounds = {"queue_size", "max_receive_queue_depth", "max_decode_queue_depth",
                       "max_publish_queue_depth", "publish_worker_threads",
                       "max_decode_latency_ms", "connect_timeout_ms", "connect_retry_count",
                       "connect_retry_delay_ms", "first_frame_timeout_ms",
                       "vio_path_max_poses"}
  BY DEF Bounds
<1>10. {"ipm_frame_id", "publish_vio_tf", "publish_odom_tf"} \cup MountingFields
         \subseteq DOMAIN Defaults
  BY DEF Defaults, MountingFields
<1> HIDE DEF rs
<1>12. ASSUME NEW i \in 1 .. 9, NEW n \in DOMAIN rs[i],
              \A j \in 1 .. i - 1 : n \notin DOMAIN rs[j]
       PROVE  n \in DOMAIN c /\ c[n] = rs[i][n]
  <2>1. i \in DOMAIN rs /\ DOMAIN rs \subseteq Nat \ {0}
    BY <1>1
  <2> QED BY <1>12, <2>1, FirstHasIt
<1>11. \A n \in DOMAIN rs[1] : n \in DOMAIN c /\ c[n] = rs[1][n]
  <2>1. \A j \in 1 .. 1 - 1 : FALSE
    OBVIOUS
  <2> HIDE DEF c
  <2> QED BY <1>12, <2>1
<1>13. \A n : n \in DOMAIN rs[2] => n \in DOMAIN c /\ c[n] = rs[2][n]
  <2>1. \A j \in 1 .. 2 - 1 : j = 1
    OBVIOUS
  <2> HIDE DEF c
  <2> QED BY <1>2, <1>12, <2>1
<1>14. \A n : n \in DOMAIN rs[3] => n \in DOMAIN c /\ c[n] = rs[3][n]
  <2>1. \A j \in 1 .. 3 - 1 : j = 1 \/ j = 2
    OBVIOUS
  <2> HIDE DEF c
  <2> QED BY <1>1, <1>2, <1>3, <1>12, <2>1
<1>15. \A n : n \in DOMAIN rs[4] => n \in DOMAIN c /\ c[n] = rs[4][n]
  <2>1. \A j \in 1 .. 4 - 1 : j = 1 \/ j = 2 \/ j = 3
    OBVIOUS
  <2> HIDE DEF c
  <2> QED BY <1>1, <1>2, <1>3, <1>4, <1>12, <2>1
<1>16. \A n : n \in DOMAIN rs[7] => n \in DOMAIN c /\ c[n] = rs[7][n]
  <2>1. \A j \in 1 .. 7 - 1 : j = 1 \/ j = 2 \/ j = 3 \/ j = 4 \/ j = 5 \/ j = 6
    OBVIOUS
  <2> HIDE DEF c
  <2> QED BY <1>1, <1>2, <1>3, <1>4, <1>5, <1>6, <1>7, <1>12, <2>1
<1>17. \A n : n \in DOMAIN rs[8] => n \in DOMAIN c /\ c[n] = rs[8][n]
  <2>1. \A j \in 1 .. 8 - 1 : j = 1 \/ j = 2 \/ j = 3 \/ j = 4 \/ j = 5 \/ j = 6 \/ j = 7
    OBVIOUS
  <2> HIDE DEF c
  <2> QED BY <1>1, <1>2, <1>3, <1>4, <1>5, <1>6, <1>7, <1>8, <1>9, <1>12, <2>1
<1>18. \A i \in 1 .. 9 : DOMAIN rs[i] \subseteq DOMAIN c
  BY <1>1 DEF Together
<1> HIDE DEF c
<1> QED BY <1>1, <1>2, <1>3, <1>4, <1>6, <1>7, <1>8, <1>10, <1>11, <1>13, <1>14, <1>15,
           <1>16, <1>17, <1>18 DEF c, rs

(***************************************************************************)
(* LoadConfig always decides it.                                           *)
(***************************************************************************)
LEMMA LoadedFields == \A p : MountingFields \subseteq DOMAIN LoadConfig(Loaded(p))
<1> SUFFICES ASSUME NEW p
             PROVE  MountingFields \subseteq DOMAIN LoadConfig(Loaded(p))
  OBVIOUS
<1> DEFINE c == Together(Loaded(p))
<1>1. MountingFields \subseteq DOMAIN c
  BY LoadedParts
<1>2. LoadConfig(Loaded(p)) = IF NeedsDisparity(c)
                                THEN [c EXCEPT !.streams = WithStream(@, "Disparity")] ELSE c
  BY DEF LoadConfig
<1> HIDE DEF c
<1> QED BY <1>1, <1>2

(***************************************************************************)
(* The phases of Start that still change the configuration leave it alone. *)
(***************************************************************************)
LEMMA KeepsMounting ==
  ASSUME MountingFields \subseteq DOMAIN config, Configure \/ NoDepth \/ PrepareDepth \/ BevRefused
  PROVE  SameMounting(config, config')
<1> USE DEF SameMounting, MountingFields, FromBoard
<1>1. CASE Configure
  BY <1>1 DEF Configure
<1>2. CASE NoDepth
  BY <1>2 DEF NoDepth, WithoutDepth
<1>3. CASE PrepareDepth
  BY <1>3 DEF PrepareDepth
<1>4. CASE BevRefused
  <2>1. \/ config' = [config EXCEPT !.publish_ipm = FALSE]
        \/ config' = Fallback(config)
        \/ config' = config
    BY <1>4 DEF BevRefused
  <2>2. CASE config' = Fallback(config)
    BY <2>2 DEF Fallback
  <2> QED BY <2>1, <2>2
<1> QED BY <1>1, <1>2, <1>3, <1>4

(***************************************************************************)
(* A setup made from the board's frames is that of the first one.          *)
(***************************************************************************)
LEMMA FirstFrame ==
  ASSUME NEW c, NEW frames, FromBoard(c), TfSetup(c, frames) # Failed
  PROVE  /\ frames # << >> /\ frames[1] # Failed
         /\ TfSetup(c, frames) =
              ConfigureBoardTf(frames[1], c.publish_mounting_tf, TfSetup(c, frames).device)
<1> DEFINE f == frames[1]
           body == Body(c)
           m == MakeRobotMounting(f.parent, f.child, f.xyz, Zero)
           made == [device |-> f.child, publish |-> c.publish_mounting_tf,
                    mounting |-> [m EXCEPT !.frames.quaternion = f.quaternion,
                                           !.plane = f.plane]]
<1>1. BoardProjection(frames) # Failed
  BY DEF TfSetup
<1>2. frames # << >> /\ BoardProjection(frames) = f /\ f # Failed
  BY <1>1 DEF BoardProjection
<1>3. TfSetup(c, frames) = ConfigureBoardTf(f, c.publish_mounting_tf, body)
  BY <1>1, <1>2 DEF TfSetup
<1>4. \A b : ConfigureBoardTf(f, c.publish_mounting_tf, b) =
               IF m = Failed \/ (b # "" /\ b # f.child) THEN Failed ELSE made
  BY DEF ConfigureBoardTf
<1>5. made.device = f.child
  OBVIOUS
<1> HIDE DEF made, m, body, f
<1>6. TfSetup(c, frames) = made /\ m # Failed
  BY <1>3, <1>4
<1>7. ConfigureBoardTf(f, c.publish_mounting_tf, f.child) = made
  BY <1>4, <1>6
<1> QED BY <1>2, <1>5, <1>6, <1>7 DEF f

(***************************************************************************)
(* The setup is made once, from the frames of a wait that is over.         *)
(***************************************************************************)
BoardInv ==
  /\ at \in {"load", "connect", "mounting", "wait", "configure"} => tf = None
  /\ at # "load" => MountingFields \subseteq DOMAIN config
  /\ FromBoard(config) /\ tf \notin {None, Failed} =>
       /\ board.frames # << >> /\ board.frames[1] # Failed
       /\ tf = ConfigureBoardTf(board.frames[1], config.publish_mounting_tf, tf.device)

(***************************************************************************)
(* No board snapshot is awaited before Start.                              *)
(***************************************************************************)
LEMMA BoardInvInit == Init => BoardInv
BY DEF Init, BoardInv

(***************************************************************************)
(* The steps that leave the setup and the frames alone; MountingFields of  *)
(* the configuration may be loaded or kept.                                *)
(***************************************************************************)
LEMMA BoardFrame ==
  ASSUME BoardInv, tf' = tf, board'.frames = board.frames,
         at # "load" => at' # "load" /\ SameMounting(config, config'),
         at \notin {"load", "connect", "mounting", "wait", "configure"} =>
           at' \notin {"load", "connect", "mounting", "wait", "configure"},
         at # "load"
  PROVE  BoardInv'
BY DEF BoardInv, SameMounting

(***************************************************************************)
(* Every step of Start, of Stop and of a callback keeps the wait for the   *)
(* first frame of the board honest.                                        *)
(***************************************************************************)
LEMMA BoardInvStep == LifecycleInv /\ BoardInv /\ [Next]_vars => BoardInv'
<1> SUFFICES ASSUME LifecycleInv, BoardInv, [Next]_vars
             PROVE  BoardInv'
  OBVIOUS
<1> USE DEF boardVars, outputVars, streamVars, processVars
<1>0. MountingFields \subseteq DOMAIN config => SameMounting(config, config)
  BY DEF SameMounting
<1>1. CASE Load
  BY <1>1, LoadedFields DEF Load, BoardInv
<1>2. CASE ConfigureFails \/ Configure \/ ConfigureThrows
  <2>1. /\ at = "configure" /\ board' = board /\ tf' = TfSetup(config, board.frames)
        /\ MountingFields \subseteq DOMAIN config
    BY <1>2 DEF ConfigureFails, Configure, ConfigureThrows, BoardInv
  <2>2. SameMounting(config, config')
    BY <1>0, <1>2, <2>1, KeepsMounting DEF ConfigureFails, ConfigureThrows
  <2>3. at' \in {"failed", "depth", "aborted"}
    BY <1>2, FirstPhase DEF ConfigureFails, Configure, ConfigureThrows
  <2>4. FromBoard(config) /\ tf' # Failed =>
          /\ board.frames # << >> /\ board.frames[1] # Failed
          /\ tf' = ConfigureBoardTf(board.frames[1], config.publish_mounting_tf, tf'.device)
    BY <2>1, FirstFrame
  <2> QED BY <2>1, <2>2, <2>3, <2>4 DEF BoardInv, SameMounting
<1>3. CASE DeliverSnapshot
  BY <1>3 DEF DeliverSnapshot, BoardInv
<1>4. CASE NoDepth \/ PrepareDepth \/ BevRefused
  <2>1. /\ at \in {"depth", "ipm"} /\ at' \in {"pose", "derive", "generator", "stop"}
        /\ UNCHANGED <<tf, board>>
    BY <1>4, AfterPhase DEF NoDepth, PrepareDepth, BevRefused
  <2>2. SameMounting(config, config')
    BY <1>4, <2>1, KeepsMounting DEF BoardInv
  <2> QED BY <2>1, <2>2, BoardFrame
<1>5. CASE Connect \/ ConnectFails \/ SubscribeSnapshot \/ SnapshotRefused \/ WaitEnds
  BY <1>5 DEF Connect, ConnectFails, SubscribeSnapshot, SnapshotRefused, WaitEnds, BoardInv,
              LifecycleInv
<1>6. CASE \/ PreparePose \/ SkipIpm \/ SubscribeBev \/ InitializeGenerator
           \/ StartDerived \/ Subscribe \/ Subscribed \/ SubscribeFails
           \/ SubscribeBoardPanorama \/ PanoramaRefused \/ SubscribeHostPanorama
           \/ PoseThrows \/ Spin
  <2>1. /\ at \notin {"load", "connect", "mounting", "wait", "configure"}
        /\ at' \notin {"load", "connect", "mounting", "wait", "configure"}
        /\ UNCHANGED <<config, tf, board>>
    BY <1>6, AfterPhase DEF PreparePose, SkipIpm, SubscribeBev, InitializeGenerator,
         StartDerived, Subscribe, Subscribed, SubscribeFails, SubscribeBoardPanorama,
         PanoramaRefused, SubscribeHostPanorama, PoseThrows, Spin
  <2> QED BY <1>0, <2>1, BoardFrame DEF BoardInv
<1>7. CASE Destroy \/ StopPanorama \/ StopStream \/ Disconnect \/ JoinDerived \/ JoinWorkers
  BY <1>7 DEF Destroy, StopPanorama, StopStream, Disconnect, JoinDerived, JoinWorkers, BoardInv
<1>8. CASE Signal \/ Announce \/ UNCHANGED vars
  BY <1>8 DEF Signal, Announce, vars, BoardInv
<1>9. CASE LatePublish
  <2>1. /\ at \notin Preparing /\ at' = "aborted"
        /\ UNCHANGED <<config, tf, board>>
    BY <1>9 DEF LatePublish, Live, LifecycleInv
  <2>2. at \notin {"load", "connect", "mounting", "wait", "configure"}
    BY <2>1 DEF Preparing
  <2> QED BY <1>0, <2>1, <2>2, BoardFrame DEF BoardInv
<1> QED BY <1>1, <1>2, <1>3, <1>4, <1>5, <1>6, <1>7, <1>8, <1>9 DEF Next, Main

(***************************************************************************)
(* BoardSnapshot: with mounting_config=sdk the bridge runs with the        *)
(* mounting of the board's first frame or not at all, whatever the frames  *)
(* are, however many come and however the wait ends; and nothing is live   *)
(* before that temporary subscription is stopped.                          *)
(***************************************************************************)
THEOREM FirstSnapshotCounts == Spec => []BoardSnapshot
<1>1. LifecycleInv /\ BoardInv => BoardSnapshot
  <2> SUFFICES ASSUME LifecycleInv, BoardInv
               PROVE  BoardSnapshot
    OBVIOUS
  <2>1. Live => ~board.live
    BY DEF Live, LifecycleInv, Preparing
  <2> QED BY <2>1 DEF BoardInv, BoardSnapshot
<1> QED BY <1>1, LifecycleInvInit, LifecycleStep, BoardInvInit, BoardInvStep, PTL DEF Spec

-----------------------------------------------------------------------------
(***************************************************************************)
(* Every set of numbers has a least one, which is what inductions over the *)
(* streams of a parameter rest on.                                         *)
(***************************************************************************)
LEMMA LeastNatural ==
  ASSUME NEW T \in SUBSET Nat, T # {}
  PROVE  \E x \in T : \A y \in T : x <= y
<1> DEFINE less == {ss \in Nat \X Nat : ss[1] < ss[2]}
<1>1. IsWellFoundedOn(less, Nat)
  BY NatLessThanWellFounded DEF OpToRel
<1>2. \A x, y \in Nat : y < x => <<y, x>> \in less
  OBVIOUS
<1> HIDE DEF less
<1>3. PICK x \in T : \A y \in T : ~ (<<y, x>> \in less)
  BY <1>1, WFMin
<1>4. ASSUME NEW y \in T
      PROVE  x <= y
  <2>1. x \in Nat /\ y \in Nat
    OBVIOUS
  <2>2. ~ (y < x)
    BY <1>2, <1>3, <2>1
  <2> QED BY <2>1, <2>2
<1> QED BY <1>4

(***************************************************************************)
(* The streams a parameter can name.                                       *)
(***************************************************************************)
StreamIds == {StreamNames[t] : t \in DOMAIN StreamNames}

(***************************************************************************)
(* The streams named so far, one more of the tokens at a time.             *)
(***************************************************************************)
IsNaming(g, tokens, N) ==
  g = [i \in 0 .. N |->
         IF i = 0 THEN << >>
         ELSE IF Known(tokens[i]) THEN Append(g[i - 1], StreamNames[tokens[i]])
         ELSE g[i - 1]]

(***************************************************************************)
(* There is such a function: the shortest list without one could do with   *)
(* that of the list before.                                                *)
(***************************************************************************)
LEMMA NamingExists ==
  ASSUME NEW tokens, NEW N \in Nat
  PROVE  \E g : IsNaming(g, tokens, N)
<1> DEFINE Next1(prev, i) == IF Known(tokens[i]) THEN Append(prev, StreamNames[tokens[i]]) ELSE prev
<1> DEFINE T == {m \in Nat : ~ \E g : IsNaming(g, tokens, m)}
<1>0. \A g, m : IsNaming(g, tokens, m) <=>
                  g = [i \in 0 .. m |-> IF i = 0 THEN << >> ELSE Next1(g[i - 1], i)]
  BY DEF IsNaming
<1> HIDE DEF Next1
<1> SUFFICES ASSUME T # {}
             PROVE  FALSE
  OBVIOUS
<1>1. PICK x \in T : \A y \in T : x <= y
  BY LeastNatural
<1>2. CASE x = 0
  <2> DEFINE g == [i \in 0 .. 0 |-> << >>]
  <2>1. g = [i \in 0 .. 0 |-> IF i = 0 THEN << >> ELSE Next1(g[i - 1], i)]
    OBVIOUS
  <2>2. IsNaming(g, tokens, 0)
    BY <1>0, <2>1
  <2> QED BY <1>2, <2>2
<1>3. CASE x # 0
  <2>1. x - 1 \in Nat /\ x - 1 \notin T
    BY <1>1, <1>3
  <2>2. PICK h : h = [i \in 0 .. x - 1 |-> IF i = 0 THEN << >> ELSE Next1(h[i - 1], i)]
    BY <1>0, <2>1
  <2> DEFINE g == [i \in 0 .. x |-> IF i = 0 THEN << >> ELSE Next1(h[i - 1], i)]
  <2>3. ASSUME NEW i \in 0 .. x, i # 0
        PROVE  g[i - 1] = h[i - 1]
    <3>1. i - 1 \in 0 .. x /\ i - 1 \in 0 .. x - 1
      BY <2>3
    <3>2. h[i - 1] = IF i - 1 = 0 THEN << >> ELSE Next1(h[(i - 1) - 1], i - 1)
      BY <2>2, <3>1, Zenon
    <3> QED BY <3>1, <3>2
  <2>4. g = [i \in 0 .. x |-> IF i = 0 THEN << >> ELSE Next1(g[i - 1], i)]
    BY <2>3
  <2>5. IsNaming(g, tokens, x)
    BY <1>0, <2>4, Zenon
  <2> QED BY <2>5
<1> QED BY <1>2, <1>3

(***************************************************************************)
(* The streams a list of tokens names are a list again.                    *)
(***************************************************************************)
LEMMA KnownStreamsList ==
  ASSUME NEW S, NEW tokens \in Seq(S)
  PROVE  KnownStreams(tokens) \in Seq(StreamIds)
<1> DEFINE N == Len(tokens)
           G == CHOOSE g : IsNaming(g, tokens, N)
<1>1. N \in Nat
  OBVIOUS
<1>2. IsNaming(G, tokens, N)
  BY <1>1, NamingExists
<1>3. KnownStreams(tokens) = G[N]
  BY DEF KnownStreams, IsNaming
<1>4. \A t : Known(t) => StreamNames[t] \in StreamIds
  BY DEF Known, StreamIds
<1> HIDE DEF G, N
<1> DEFINE T == {i \in 0 .. N : G[i] \notin Seq(StreamIds)}
<1>5. T = {}
  <2> SUFFICES ASSUME T # {}
               PROVE  FALSE
    OBVIOUS
  <2>1. T \in SUBSET Nat
    BY <1>1
  <2>2. PICK x \in T : \A y \in T : x <= y
    <3> HIDE DEF T
    <3> QED BY <2>1, LeastNatural
  <2>3. x \in 0 .. N /\ G[x] \notin Seq(StreamIds)
    OBVIOUS
  <2>4. G[x] = IF x = 0 THEN << >>
               ELSE IF Known(tokens[x]) THEN Append(G[x - 1], StreamNames[tokens[x]])
               ELSE G[x - 1]
    BY <1>2, <2>3, Zenon DEF IsNaming
  <2>5. CASE x = 0
    BY <2>3, <2>4, <2>5
  <2>6. CASE x # 0
    <3>1. x - 1 \in 0 .. N /\ ~(x <= x - 1)
      BY <1>1, <2>3, <2>6
    <3>2. G[x - 1] \in Seq(StreamIds)
      BY <2>2, <3>1
    <3>3. Known(tokens[x]) => Append(G[x - 1], StreamNames[tokens[x]]) \in Seq(StreamIds)
      BY <1>4, <3>2
    <3> QED BY <2>3, <2>4, <2>6, <3>2, <3>3
  <2> QED BY <2>5, <2>6
<1> QED BY <1>1, <1>3, <1>5

(***************************************************************************)
(* The streams a bridge subscribes always have ids.                        *)
(***************************************************************************)
LEMMA BasicStreams ==
  /\ "RawFisheye" \in StreamIds /\ "Disparity" \in StreamIds
  /\ DefaultStreams \in Seq(StreamIds)
<1>1. /\ StreamNames["raw"] = "RawFisheye" /\ StreamNames["rectified"] = "RectifiedFisheye"
      /\ StreamNames["imu"] = "Imu" /\ StreamNames["lidar"] = "LidarPointCloud"
      /\ StreamNames["lidar_imu"] = "LidarImu" /\ StreamNames["disparity"] = "Disparity"
      /\ StreamNames["vio"] = "VioPose"
  BY DEF StreamNames
<1>2. {"raw", "rectified", "imu", "lidar", "lidar_imu", "disparity", "vio"}
        \subseteq DOMAIN StreamNames
  BY DEF StreamNames
<1>3. {"RawFisheye", "RectifiedFisheye", "Imu", "LidarPointCloud", "LidarImu", "Disparity",
       "VioPose"} \subseteq StreamIds
  BY <1>1, <1>2 DEF StreamIds
<1> QED BY <1>3 DEF DefaultStreams

(***************************************************************************)
(* A stream is added where it is missing.                                  *)
(***************************************************************************)
LEMMA StreamAdded ==
  ASSUME NEW s \in Seq(StreamIds), NEW id \in StreamIds
  PROVE  /\ WithStream(s, id) \in Seq(StreamIds)
         /\ HasStream(WithStream(s, id), id)
         /\ \A other : HasStream(s, other) => HasStream(WithStream(s, id), other)
<1>1. CASE HasStream(s, id)
  BY <1>1 DEF WithStream
<1>2. CASE ~HasStream(s, id)
  <2>1. WithStream(s, id) = Append(s, id)
    BY <1>2 DEF WithStream
  <2>2. /\ Append(s, id) \in Seq(StreamIds)
        /\ Len(s) + 1 \in DOMAIN Append(s, id) /\ Append(s, id)[Len(s) + 1] = id
        /\ \A i \in DOMAIN s : i \in DOMAIN Append(s, id) /\ Append(s, id)[i] = s[i]
    OBVIOUS
  <2> QED BY <2>1, <2>2 DEF HasStream
<1> QED BY <1>1, <1>2

(***************************************************************************)
(* LoadStreams names a list of streams.                                    *)
(***************************************************************************)
LEMMA StreamsListed ==
  ASSUME NEW p, Typed(p)
  PROVE  LoadStreams(p).streams \in Seq(StreamIds)
<1> DEFINE default == <<"raw", "rectified", "imu", "lidar", "lidar_imu", "disparity", "depth",
                        "vio">>
           tokens == Param(p, "streams", default)
<1>1. LoadStreams(p).streams \in {DefaultStreams, KnownStreams(tokens)}
  BY DEF LoadStreams
<1>2. KnownStreams(tokens) \in Seq(StreamIds)
  <2>1. CASE "streams" \in DOMAIN p
    <3>1. tokens \in Seq(STRING)
      BY <2>1 DEF Typed, Param
    <3> HIDE DEF tokens
    <3> QED BY <3>1, KnownStreamsList
  <2>2. CASE "streams" \notin DOMAIN p
    <3>1. tokens = default
      BY <2>2 DEF Param
    <3>2. default \in Seq({"raw", "rectified", "imu", "lidar", "lidar_imu", "disparity",
                           "depth", "vio"})
      OBVIOUS
    <3> HIDE DEF tokens, default
    <3> QED BY <3>1, <3>2, KnownStreamsList
  <2> QED BY <2>1, <2>2
<1> HIDE DEF tokens
<1> QED BY <1>1, <1>2, BasicStreams

-----------------------------------------------------------------------------
(***************************************************************************)
(* What every configuration has from LoadConfig on: the fields that decide *)
(* what is published, a list of streams with what depth needs in it, a     *)
(* decoder for the images that are published, and usable sizes.            *)
(***************************************************************************)
ConfigFields ==
  MountingFields
    \cup {"streams", "publish_depth", "publish_panorama", "publish_ipm", "decode_mode",
          "publish_decoded_images", "publish_compressed_images", "publish_depth_pointcloud",
          "output_frame", "frame_id", "width", "height", "crop_top", "crop_bottom",
          "depth_assist", "publish_sensor_tf", "publish_depth_panorama",
          "host_fallback_active", "ipm_frame_id", "publish_vio_tf", "publish_odom_tf",
          "publish_worker_threads"}

DecodeModes == {"RawOnly", "RawAndDecoded", "DecodedOnly"}

Configured(c) ==
  /\ ConfigFields \cup DOMAIN Bounds \subseteq DOMAIN c
  /\ c.streams \in Seq(StreamIds)
  /\ NeedsDisparity(c) => HasStream(c.streams, "Disparity")
  /\ c.decode_mode \in DecodeModes
  /\ c.publish_decoded_images => c.decode_mode # "RawOnly"
  /\ c.publish_compressed_images => c.decode_mode # "DecodedOnly"
  /\ c.crop_top + c.crop_bottom < c.height /\ c.width > 0
  /\ \A n \in DOMAIN Bounds : c[n] >= Bounds[n][2]

(***************************************************************************)
(* A canvas with nothing left after cropping is not cropped.               *)
(***************************************************************************)
LEMMA CanvasUsable ==
  ASSUME NEW p, Typed(p)
  PROVE  Canvas(p).crop_top + Canvas(p).crop_bottom < Canvas(p).height /\ Canvas(p).width > 0
<1> DEFINE w == AtLeast(1, Pano(p, "width", 2048), 2048)
           h == AtLeast(1, Pano(p, "height", 1024), 1024)
           t == AtLeast(0, Pano(p, "crop_top", 200), 0)
           b == AtLeast(0, Pano(p, "crop_bottom", 200), 0)
           given == [width |-> w, height |-> h, crop_top |-> t, crop_bottom |-> b]
<1>1. \A n \in {"width", "height", "crop_top", "crop_bottom"} : \A d \in Int :
        Pano(p, n, d) \in Int
  BY DEF Typed, Pano, Param
<1>2. /\ Pano(p, "width", 2048) \in Int /\ Pano(p, "height", 1024) \in Int
      /\ Pano(p, "crop_top", 200) \in Int /\ Pano(p, "crop_bottom", 200) \in Int
  BY <1>1
<1>3. /\ w \in Int /\ h \in Int /\ t \in Int /\ b \in Int
      /\ w > 0 /\ h > 0 /\ t >= 0 /\ b >= 0
  BY <1>2 DEF AtLeast
<1>4. Canvas(p) = IF OutputHeight(given) = 0
                    THEN [given EXCEPT !.crop_top = 0, !.crop_bottom = 0] ELSE given
  BY DEF Canvas
<1> HIDE DEF w, h, t, b
<1>5. OutputHeight(given) = IF t + b < h THEN h - t - b ELSE 0
  BY DEF OutputHeight
<1>6. CASE OutputHeight(given) = 0
  <2>1. /\ Canvas(p).crop_top = 0 /\ Canvas(p).crop_bottom = 0
        /\ Canvas(p).height = h /\ Canvas(p).width = w
    BY <1>4, <1>6
  <2> QED BY <1>3, <2>1
<1>7. CASE OutputHeight(given) # 0
  <2>1. /\ Canvas(p).crop_top = t /\ Canvas(p).crop_bottom = b
        /\ Canvas(p).height = h /\ Canvas(p).width = w
    BY <1>4, <1>7
  <2> QED BY <1>3, <1>5, <1>7, <2>1
<1> QED BY <1>6, <1>7

(***************************************************************************)
(* No count is below its least value.                                      *)
(***************************************************************************)
LEMMA CountsBounded ==
  ASSUME NEW p, Typed(p), NEW n \in DOMAIN Bounds
  PROVE  Counts(p)[n] >= Bounds[n][2]
<1>1. \A m \in DOMAIN Bounds :
        /\ Bounds[m][1] \in Int /\ Bounds[m][2] \in Int /\ Bounds[m][3] \in Int
        /\ Bounds[m][3] >= Bounds[m][2]
  <2>1. /\ Bounds.queue_size = <<10, 1, 1>> /\ Bounds.max_receive_queue_depth = <<64, 1, 1>>
        /\ Bounds.max_decode_queue_depth = <<64, 1, 1>>
        /\ Bounds.max_publish_queue_depth = <<64, 1, 1>>
        /\ Bounds.publish_worker_threads = <<8, 0, 0>>
        /\ Bounds.max_decode_latency_ms = <<100, 1, 100>>
        /\ Bounds.connect_timeout_ms = <<2000, 1, 2000>>
        /\ Bounds.connect_retry_count = <<4, 0, 0>>
        /\ Bounds.connect_retry_delay_ms = <<1000, 0, 0>>
        /\ Bounds.first_frame_timeout_ms = <<5000, 1, 5000>>
        /\ Bounds.vio_path_max_poses = <<2000, 1, 1>>
    BY DEF Bounds
  <2>2. DOMAIN Bounds = {"queue_size", "max_receive_queue_depth", "max_decode_queue_depth",
                         "max_publish_queue_depth", "publish_worker_threads",
                         "max_decode_latency_ms", "connect_timeout_ms",
                         "connect_retry_count", "connect_retry_delay_ms",
                         "first_frame_timeout_ms", "vio_path_max_poses"}
    BY DEF Bounds
  <2> QED BY <2>1, <2>2
<1>2. Param(p, n, Bounds[n][1]) \in Int
  BY <1>1 DEF Typed, Param
<1>3. Counts(p)[n] = AtLeast(Bounds[n][2], Param(p, n, Bounds[n][1]), Bounds[n][3])
  BY DEF Counts
<1> QED BY <1>1, <1>2, <1>3 DEF AtLeast

(***************************************************************************)
(* LoadConfig makes such a configuration of any parameters.                *)
(***************************************************************************)
LEMMA LoadConfigured ==
  ASSUME NEW p, Typed(p)
  PROVE  Configured(LoadConfig(Loaded(p))) /\ ~LoadConfig(Loaded(p)).host_fallback_active
<1> DEFINE c == Together(Loaded(p))
           d == [c EXCEPT !.streams = WithStream(@, "Disparity")]
           l == LoadConfig(Loaded(p))
<1>1. /\ \A n \in {"streams", "publish_depth", "publish_panorama", "publish_ipm"} :
           n \in DOMAIN c /\ c[n] = LoadStreams(p)[n]
      /\ \A n \in {"decode_mode", "publish_decoded_images", "publish_compressed_images"} :
           n \in DOMAIN c /\ c[n] = LoadImageMode(p)[n]
      /\ \A n \in {"publish_depth_pointcloud", "output_frame", "frame_id"} : n \in DOMAIN c
      /\ \A n \in {"width", "height", "crop_top", "crop_bottom"} :
           n \in DOMAIN c /\ c[n] = Canvas(p)[n]
      /\ "depth_assist" \in DOMAIN c
      /\ \A n \in {"publish_sensor_tf", "publish_depth_panorama", "host_fallback_active"} :
           n \in DOMAIN c /\ c[n] = Others(p)[n]
      /\ \A n \in DOMAIN Bounds : n \in DOMAIN c /\ c[n] = Counts(p)[n]
      /\ {"ipm_frame_id", "publish_vio_tf", "publish_odom_tf"} \cup MountingFields
           \subseteq DOMAIN c
  BY LoadedParts
<1>2. l = IF NeedsDisparity(c) THEN d ELSE c
  BY DEF LoadConfig
<1>3. "publish_worker_threads" \in DOMAIN Bounds /\ "streams" \notin DOMAIN Bounds
  BY DEF Bounds
<1> HIDE DEF c
<1>4. ConfigFields \subseteq DOMAIN c
  BY <1>1, <1>3 DEF ConfigFields
<1>5. c.streams \in Seq(StreamIds)
  BY <1>1, StreamsListed
<1>6. /\ DOMAIN l = DOMAIN c
      /\ \A n \in DOMAIN c : n # "streams" => l[n] = c[n]
      /\ l.streams = IF NeedsDisparity(c) THEN WithStream(c.streams, "Disparity") ELSE c.streams
  BY <1>2, <1>4 DEF ConfigFields
<1> HIDE DEF l, d
<1>7. NeedsDisparity(l) = NeedsDisparity(c)
  BY <1>4, <1>6 DEF NeedsDisparity, NeedsPanoramaDepth, ConfigFields
<1>8. l.streams \in Seq(StreamIds) /\ (NeedsDisparity(l) => HasStream(l.streams, "Disparity"))
  BY <1>5, <1>6, <1>7, StreamAdded, BasicStreams
<1>9. /\ l.decode_mode \in DecodeModes
      /\ l.publish_decoded_images => l.decode_mode # "RawOnly"
      /\ l.publish_compressed_images => l.decode_mode # "DecodedOnly"
  <2>1. /\ l.publish_decoded_images = LoadImageMode(p).publish_decoded_images
        /\ l.publish_compressed_images = LoadImageMode(p).publish_compressed_images
        /\ l.decode_mode = LoadImageMode(p).decode_mode
    BY <1>1, <1>6
  <2>2. /\ LoadImageMode(p).decode_mode \in DecodeModes
        /\ LoadImageMode(p).publish_decoded_images => LoadImageMode(p).decode_mode # "RawOnly"
        /\ LoadImageMode(p).publish_compressed_images =>
             LoadImageMode(p).decode_mode # "DecodedOnly"
    BY DEF LoadImageMode, DecodeModes
  <2> QED BY <2>1, <2>2
<1>10. l.crop_top + l.crop_bottom < l.height /\ l.width > 0
  <2>1. /\ l.crop_top = Canvas(p).crop_top /\ l.crop_bottom = Canvas(p).crop_bottom
        /\ l.height = Canvas(p).height /\ l.width = Canvas(p).width
    BY <1>1, <1>6
  <2> QED BY <2>1, CanvasUsable
<1>11. \A n \in DOMAIN Bounds : l[n] >= Bounds[n][2]
  BY <1>1, <1>3, <1>6, CountsBounded
<1>12. ~l.host_fallback_active
  <2>1. l.host_fallback_active = Others(p).host_fallback_active
    BY <1>1, <1>6
  <2>2. Others(p).host_fallback_active = FALSE
    BY SMT DEF Others
  <2> QED BY <2>1, <2>2
<1>13. ConfigFields \cup DOMAIN Bounds \subseteq DOMAIN l
  BY <1>1, <1>4, <1>6
<1> QED BY <1>8, <1>9, <1>10, <1>11, <1>12, <1>13 DEF Configured, l

-----------------------------------------------------------------------------
(***************************************************************************)
(* Where the main thread is between LoadConfig and the configuration of    *)
(* the transforms, and from there to spinning.                             *)
(***************************************************************************)
Fresh == {"connect", "mounting", "wait", "configure"}
Active ==
  {"depth", "pose", "ipm", "generator", "derive", "subscribe", "panorama", "spin", "spinning"}

(***************************************************************************)
(* Transforms, session and publish workers once Configure has run.         *)
(***************************************************************************)
TransformsReady ==
  /\ config.publish_vio_tf => "vio" \in devices
  /\ config.publish_odom_tf \/ config.publish_sensor_tf => "static" \in devices
  /\ config.publish_odom_tf => tf.mounting # None /\ tf.mounting.plane # None
  /\ config.output_frame = "RosBody" => config.frame_id = tf.device
  /\ "workers" \in devices <=> config.publish_worker_threads > 0
  /\ session # None => session = tf

(***************************************************************************)
(* The IPM: up to its phase it is only configured; behind it there is a    *)
(* source, or it has been given up.                                        *)
(***************************************************************************)
IpmReady ==
  config.publish_ipm =>
    /\ tf.mounting # None =>
         tf.mounting.plane # None /\ config.ipm_frame_id = tf.mounting.frames.parent
    /\ config.host_fallback_active =>
         /\ tf.mounting = None /\ refused["BevDisplay"] = "UnsupportedStream"
         /\ HasStream(config.streams, "RawFisheye") /\ config.decode_mode # "RawOnly"
         /\ at # "generator" => generator
    /\ ~config.host_fallback_active =>
         at \in {"depth", "pose", "ipm"} \/ "BevDisplay" \in Streams

(***************************************************************************)
(* Depth: behind its phase it has a calibration and a lookup or is off,    *)
(* and later also its worker.                                              *)
(***************************************************************************)
DepthReady ==
  /\ at # "depth" /\ NeedsDisparity(config) => depth
  /\ at # "depth" /\ NeedsDisparity(config) /\ config.publish_depth_panorama => lookup
  /\ "derived" \in devices <=> at \in {"subscribe", "panorama", "spin", "spinning"} /\ Derives(config)

(***************************************************************************)
(* The streams: each of the configuration is subscribed or yet to be, in   *)
(* the decode mode of the configuration.                                   *)
(***************************************************************************)
Subscription == [stream : StreamIds \cup {"BevDisplay"}, decode : DecodeModes]

StreamsReady ==
  /\ subs \in Seq(Subscription)
  /\ \A i \in DOMAIN subs :
       subs[i].stream = "BevDisplay" \/ subs[i].decode = Decode(config, subs[i].stream)
  /\ at \in {"subscribe", "panorama", "spin", "spinning"} =>
       /\ pending \in Seq(StreamIds)
       /\ at # "subscribe" => pending = << >>
       /\ \A i \in DOMAIN config.streams :
            config.streams[i] \in Streams \/ HasStream(pending, config.streams[i])

(***************************************************************************)
(* The panorama: the board's is refused at most once, and the host's takes *)
(* its place only if the board has none.                                   *)
(***************************************************************************)
PanoramaReady ==
  /\ refused["PanoDisplay"] # None =>
       at \in {"panorama", "spin", "spinning"} /\ refused["PanoDisplay"] = "UnsupportedStream"
  /\ pano # None => at \in {"spin", "spinning"}
  /\ pano = "host" => refused["PanoDisplay"] = "UnsupportedStream"
  /\ at \in {"spin", "spinning"} /\ config.publish_panorama => pano # None

(***************************************************************************)
(* OutputsHaveSources speaks of a bridge that spins; this is what every    *)
(* phase of Start leaves for the next.                                     *)
(***************************************************************************)
SourcesInv ==
  /\ DOMAIN refused = {"BevDisplay", "PanoDisplay"}
  /\ at \in Fresh \cup Active => Configured(config)
  /\ at \in Fresh \cup {"depth", "pose", "ipm"} => ~config.host_fallback_active
  /\ at \in Fresh \cup {"load"} => refused["PanoDisplay"] = None
  /\ at \in Active =>
       TransformsReady /\ IpmReady /\ DepthReady /\ StreamsReady /\ PanoramaReady

(***************************************************************************)
(* Nothing is configured before LoadConfig.                                *)
(***************************************************************************)
LEMMA SourcesInit == Init => SourcesInv
BY DEF Init, SourcesInv, Fresh, Active

(***************************************************************************)
(* A step that leaves Start promises nothing.                              *)
(***************************************************************************)
LEMMA SourcesLeave ==
  ASSUME SourcesInv, DOMAIN refused' = DOMAIN refused,
         at' \in {"failed", "stop", "join", "ended", "aborted"}
  PROVE  SourcesInv'
BY DEF SourcesInv, Fresh, Active

(***************************************************************************)
(* Up to the TF configuration, only LoadConfig counts.                     *)
(***************************************************************************)
LEMMA SourcesFresh ==
  ASSUME SourcesInv,
         Load \/ Connect \/ ConnectFails \/ SubscribeSnapshot \/ SnapshotRefused
           \/ DeliverSnapshot \/ WaitEnds \/ ConfigureFails
  PROVE  SourcesInv'
<1> USE DEF boardVars, outputVars, streamVars, processVars
<1>1. CASE Load
  <2>1. PICK p \in Params : config' = LoadConfig(Loaded(p))
    BY <1>1 DEF Load
  <2>2. Configured(config') /\ ~config'.host_fallback_active
    BY <2>1, LoadConfigured, LifecycleAssumption
  <2> QED BY <1>1, <2>2 DEF Load, SourcesInv, Fresh, Active
<1>2. CASE Connect \/ ConnectFails
  BY <1>2 DEF Connect, ConnectFails, SourcesInv, Fresh, Active
<1>3. CASE SubscribeSnapshot \/ SnapshotRefused \/ WaitEnds
  BY <1>3 DEF SubscribeSnapshot, SnapshotRefused, WaitEnds, SourcesInv, Fresh, Active
<1>4. CASE DeliverSnapshot
  BY <1>4 DEF DeliverSnapshot, SourcesInv, Fresh, Active
<1>5. CASE ConfigureFails
  BY <1>5, SourcesLeave DEF ConfigureFails
<1> QED BY <1>1, <1>2, <1>3, <1>4, <1>5

(***************************************************************************)
(* Configure: what TfRefused did not object to.                            *)
(***************************************************************************)
LEMMA SourcesConfigure ==
  ASSUME LifecycleInv, SourcesInv, Configure
  PROVE  SourcesInv'
<1> USE DEF boardVars, streamVars, processVars
<1>1. /\ at = "configure" /\ at' = "depth"
      /\ ~TfRefused(config, tf')
      /\ config' = [config EXCEPT
           !.frame_id = IF config.output_frame = "RosBody" THEN tf'.device ELSE @,
           !.ipm_frame_id = IpmFrame(config, tf')]
      /\ session' = None /\ devices' = Broadcasters(config) \cup Workers(config)
      /\ UNCHANGED <<refused, pano, subs, pending>>
  BY FirstPhase DEF Configure
<1>2. /\ Configured(config) /\ ~config.host_fallback_active
      /\ refused["PanoDisplay"] = None /\ DOMAIN refused = {"BevDisplay", "PanoDisplay"}
      /\ subs = << >> /\ pano = None
  BY <1>1 DEF SourcesInv, LifecycleInv, Fresh, Preparing
<1>3. /\ DOMAIN config' = DOMAIN config
      /\ \A n \in DOMAIN config : n \notin {"frame_id", "ipm_frame_id"} => config'[n] = config[n]
      /\ config'.ipm_frame_id = IpmFrame(config, tf')
      /\ config.output_frame = "RosBody" => config'.frame_id = tf'.device
  BY <1>1, <1>2 DEF Configured, ConfigFields
<1>4. /\ config'.streams = config.streams
      /\ config'.publish_depth = config.publish_depth
      /\ config'.publish_panorama = config.publish_panorama
      /\ config'.depth_assist = config.depth_assist
      /\ config'.decode_mode = config.decode_mode
      /\ config'.publish_decoded_images = config.publish_decoded_images
      /\ config'.publish_compressed_images = config.publish_compressed_images
      /\ config'.crop_top = config.crop_top /\ config'.crop_bottom = config.crop_bottom
      /\ config'.height = config.height /\ config'.width = config.width
      /\ config'.publish_ipm = config.publish_ipm
      /\ config'.host_fallback_active = config.host_fallback_active
      /\ config'.publish_vio_tf = config.publish_vio_tf
      /\ config'.publish_odom_tf = config.publish_odom_tf
      /\ config'.publish_sensor_tf = config.publish_sensor_tf
      /\ config'.output_frame = config.output_frame
      /\ config'.publish_worker_threads = config.publish_worker_threads
  BY <1>2, <1>3 DEF Configured, ConfigFields
<1>5. \A n \in DOMAIN Bounds : config'[n] = config[n]
  <2>1. DOMAIN Bounds \subseteq DOMAIN config
    BY <1>2 DEF Configured
  <2>2. "frame_id" \notin DOMAIN Bounds /\ "ipm_frame_id" \notin DOMAIN Bounds
    BY DEF Bounds
  <2> QED BY <1>3, <2>1, <2>2
<1>6. Configured(config')
  BY <1>2, <1>3, <1>4, <1>5 DEF Configured, NeedsDisparity, NeedsPanoramaDepth
<1>7. OdomConfigured(config, tf') /\ IpmConfigured(config, tf')
  BY <1>1 DEF TfRefused
<1>8. TransformsReady'
  <2>1. /\ config.publish_vio_tf => "vio" \in devices'
        /\ config.publish_odom_tf \/ config.publish_sensor_tf => "static" \in devices'
        /\ "workers" \in devices' <=> config.publish_worker_threads > 0
    BY <1>1 DEF Broadcasters, Workers
  <2>2. config.publish_odom_tf => tf'.mounting # None /\ tf'.mounting.plane # None
    BY <1>7 DEF OdomConfigured
  <2> QED BY <1>1, <1>3, <1>4, <2>1, <2>2 DEF TransformsReady
<1>9. IpmReady'
  BY <1>1, <1>2, <1>3, <1>4, <1>7 DEF IpmReady, IpmConfigured
<1>10. DepthReady' /\ PanoramaReady'
  <2>1. DepthReady'
    BY <1>1 DEF DepthReady, Broadcasters, Workers
  <2>2. PanoramaReady'
    <3>1. at' = "depth" /\ refused'["PanoDisplay"] = None /\ pano' = None
      BY <1>1, <1>2
    <3> QED BY <3>1, LifecycleAssumption DEF PanoramaReady
  <2> QED BY <2>1, <2>2
<1>11. StreamsReady'
  BY <1>1, <1>2 DEF StreamsReady
<1> QED BY <1>1, <1>2, <1>4, <1>6, <1>8, <1>9, <1>10, <1>11 DEF SourcesInv, Fresh, Active

(***************************************************************************)
(* A configuration with less depth in it is as good.                       *)
(***************************************************************************)
LEMMA LessDepth ==
  ASSUME NEW c, NEW d, Configured(c), DOMAIN d = DOMAIN c,
         \A n \in DOMAIN c :
           n \notin {"publish_depth", "depth_assist", "publish_depth_panorama"} => d[n] = c[n],
         NeedsDisparity(d) => NeedsDisparity(c)
  PROVE  Configured(d)
<1>1. /\ d.streams = c.streams /\ d.decode_mode = c.decode_mode
      /\ d.publish_decoded_images = c.publish_decoded_images
      /\ d.publish_compressed_images = c.publish_compressed_images
      /\ d.crop_top = c.crop_top /\ d.crop_bottom = c.crop_bottom
      /\ d.height = c.height /\ d.width = c.width
  BY DEF Configured, ConfigFields
<1>2. \A n \in DOMAIN Bounds : d[n] = c[n]
  <2>1. DOMAIN Bounds \subseteq DOMAIN c
    BY DEF Configured
  <2>2. /\ "publish_depth" \notin DOMAIN Bounds /\ "depth_assist" \notin DOMAIN Bounds
        /\ "publish_depth_panorama" \notin DOMAIN Bounds
    BY DEF Bounds
  <2> QED BY <2>1, <2>2
<1> QED BY <1>1, <1>2 DEF Configured

(***************************************************************************)
(* The depth settings: without a calibration nothing needs depth any more, *)
(* and with one only what it can serve.                                    *)
(***************************************************************************)
LEMMA SourcesDepth ==
  ASSUME LifecycleInv, SourcesInv, NoDepth \/ PrepareDepth
  PROVE  SourcesInv'
<1> USE DEF boardVars, streamVars, processVars
<1>1. /\ at = "depth" /\ at' = "pose"
      /\ UNCHANGED <<tf, devices, session, generator, refused, pano, subs, pending>>
  BY AfterPhase DEF NoDepth, PrepareDepth
<1>2. /\ Configured(config) /\ ~config.host_fallback_active
      /\ refused["PanoDisplay"] = None \/ refused["PanoDisplay"] # None
      /\ DOMAIN refused = {"BevDisplay", "PanoDisplay"}
      /\ TransformsReady /\ IpmReady /\ DepthReady /\ StreamsReady /\ PanoramaReady
  BY <1>1 DEF SourcesInv, Active
<1>3. /\ DOMAIN config' = DOMAIN config
      /\ \A n \in DOMAIN config :
           n \notin {"publish_depth", "depth_assist", "publish_depth_panorama"} =>
             config'[n] = config[n]
  BY <1>2 DEF NoDepth, PrepareDepth, WithoutDepth
<1>4. /\ NeedsDisparity(config') => NeedsDisparity(config) /\ depth'
      /\ NeedsDisparity(config') /\ config'.publish_depth_panorama => lookup'
  <2>1. {"publish_depth", "depth_assist", "publish_depth_panorama", "publish_panorama"}
          \subseteq DOMAIN config
    BY <1>2 DEF Configured, ConfigFields
  <2>2. CASE NoDepth
    <3>1. config' = WithoutDepth(config)
      BY <2>2 DEF NoDepth
    <3>2. config'.publish_depth = FALSE /\ config'.depth_assist = FALSE
      BY <2>1, <3>1 DEF WithoutDepth
    <3> QED BY <3>2 DEF NeedsDisparity, NeedsPanoramaDepth
  <2>3. CASE PrepareDepth
    <3>1. depth' = TRUE
      BY <2>3 DEF PrepareDepth
    <3>2. PICK extrinsics, built \in BOOLEAN :
            /\ config' = [config EXCEPT
                 !.depth_assist = @ /\ (NeedsPanoramaDepth(config) => extrinsics),
                 !.publish_depth_panorama = @ /\ built]
            /\ lookup' = (config.publish_depth_panorama /\ built)
      BY <2>3 DEF PrepareDepth
    <3>3. /\ config'.depth_assist =
               (config.depth_assist /\ (NeedsPanoramaDepth(config) => extrinsics))
          /\ config'.publish_depth_panorama = (config.publish_depth_panorama /\ built)
          /\ config'.publish_depth = config.publish_depth
          /\ config'.publish_panorama = config.publish_panorama
      BY <2>1, <3>2
    <3> QED BY <3>1, <3>2, <3>3, Zenon DEF NeedsDisparity, NeedsPanoramaDepth
  <2> QED BY <2>2, <2>3
<1>5. Configured(config')
  BY <1>2, <1>3, <1>4, LessDepth
<1>6. /\ config'.host_fallback_active = config.host_fallback_active
      /\ config'.publish_ipm = config.publish_ipm
      /\ config'.ipm_frame_id = config.ipm_frame_id
      /\ config'.publish_vio_tf = config.publish_vio_tf
      /\ config'.publish_odom_tf = config.publish_odom_tf
      /\ config'.publish_sensor_tf = config.publish_sensor_tf
      /\ config'.output_frame = config.output_frame /\ config'.frame_id = config.frame_id
      /\ config'.publish_worker_threads = config.publish_worker_threads
      /\ config'.decode_mode = config.decode_mode
      /\ config'.publish_panorama = config.publish_panorama
  BY <1>2, <1>3 DEF Configured, ConfigFields
<1>7. TransformsReady'
  BY <1>1, <1>2, <1>6 DEF TransformsReady
<1>8. IpmReady'
  BY <1>1, <1>2, <1>6 DEF IpmReady
<1>9. DepthReady'
  BY <1>1, <1>2, <1>4 DEF DepthReady
<1>10. StreamsReady'
  BY <1>1, <1>2, <1>6 DEF StreamsReady, Decode
<1>11. PanoramaReady'
  BY <1>1, <1>2, <1>6 DEF PanoramaReady
<1> QED BY <1>1, <1>2, <1>5, <1>6, <1>7, <1>8, <1>9, <1>10, <1>11
        DEF SourcesInv, Fresh, Active

(***************************************************************************)
(* The calibration of the robot, and an IPM that is not wanted.            *)
(***************************************************************************)
LEMMA SourcesPose ==
  ASSUME SourcesInv, PreparePose \/ SkipIpm
  PROVE  SourcesInv'
<1> USE DEF boardVars, streamVars, outputVars, processVars
<1>1. /\ \/ at = "pose" /\ at' = "ipm"
         \/ at = "ipm" /\ at' = "derive" /\ ~config.publish_ipm
      /\ session' \in {tf, None, session}
      /\ UNCHANGED <<config, tf, devices, depth, lookup, generator, refused, pano, subs, pending>>
  BY AfterPhase DEF PreparePose, SkipIpm
<1>2. /\ Configured(config) /\ ~config.host_fallback_active
      /\ DOMAIN refused = {"BevDisplay", "PanoDisplay"}
      /\ TransformsReady /\ IpmReady /\ DepthReady /\ StreamsReady /\ PanoramaReady
  BY <1>1 DEF SourcesInv, Active
<1>3. TransformsReady'
  BY <1>1, <1>2 DEF TransformsReady
<1>4. IpmReady'
  BY <1>1, <1>2 DEF IpmReady
<1>5. DepthReady'
  BY <1>1, <1>2 DEF DepthReady
<1>6. StreamsReady'
  BY <1>1, <1>2 DEF StreamsReady
<1>7. PanoramaReady'
  BY <1>1, <1>2 DEF PanoramaReady
<1> QED BY <1>1, <1>2, <1>3, <1>4, <1>5, <1>6, <1>7 DEF SourcesInv, Fresh, Active

(***************************************************************************)
(* One more subscription.                                                  *)
(***************************************************************************)
LEMMA OneMoreStream ==
  ASSUME subs \in Seq(Subscription), NEW e \in Subscription, subs' = Append(subs, e)
  PROVE  /\ subs' \in Seq(Subscription)
         /\ \A i \in DOMAIN subs' : (i \in DOMAIN subs /\ subs'[i] = subs[i]) \/ subs'[i] = e
         /\ Streams \subseteq Streams' /\ e.stream \in Streams'
<1>1. subs' \in Seq(Subscription)
  OBVIOUS
<1>2. \A i \in DOMAIN subs' : (i \in DOMAIN subs /\ subs'[i] = subs[i]) \/ subs'[i] = e
  OBVIOUS
<1>3. \A i \in DOMAIN subs : i \in DOMAIN subs' /\ subs'[i] = subs[i]
  OBVIOUS
<1>4. Len(subs) + 1 \in DOMAIN subs' /\ subs'[Len(subs) + 1] = e
  OBVIOUS
<1>5. Streams \subseteq Streams' /\ e.stream \in Streams'
  BY <1>3, <1>4 DEF Streams
<1> QED BY <1>1, <1>2, <1>5

(***************************************************************************)
(* The board sends the IPM.                                                *)
(***************************************************************************)
LEMMA SourcesBev ==
  ASSUME LifecycleInv, SourcesInv, SubscribeBev
  PROVE  SourcesInv'
<1> USE DEF boardVars, outputVars, processVars
<1> DEFINE e == [stream |-> "BevDisplay", decode |-> "RawAndDecoded"]
<1>1. /\ at = "ipm" /\ at' = "derive" /\ subs' = Append(subs, e)
      /\ UNCHANGED <<config, tf, devices, depth, lookup, session, generator, refused, pano,
                     pending>>
  BY AfterPhase DEF SubscribeBev
<1>2. /\ Configured(config) /\ ~config.host_fallback_active
      /\ DOMAIN refused = {"BevDisplay", "PanoDisplay"}
      /\ TransformsReady /\ IpmReady /\ DepthReady /\ StreamsReady /\ PanoramaReady
  BY <1>1 DEF SourcesInv, Active
<1>3. e \in Subscription /\ e.stream = "BevDisplay"
  BY DEF Subscription, DecodeModes
<1> HIDE DEF e
<1>4. /\ subs' \in Seq(Subscription)
      /\ \A i \in DOMAIN subs' : (i \in DOMAIN subs /\ subs'[i] = subs[i]) \/ subs'[i] = e
      /\ "BevDisplay" \in Streams'
  BY <1>1, <1>2, <1>3, OneMoreStream DEF StreamsReady
<1>5. TransformsReady'
  BY <1>1, <1>2 DEF TransformsReady
<1>6. IpmReady'
  BY <1>1, <1>2, <1>4 DEF IpmReady
<1>7. DepthReady'
  BY <1>1, <1>2 DEF DepthReady
<1>8. StreamsReady'
  BY <1>1, <1>2, <1>3, <1>4 DEF StreamsReady
<1>9. PanoramaReady'
  BY <1>1, <1>2 DEF PanoramaReady
<1> QED BY <1>1, <1>2, <1>5, <1>6, <1>7, <1>8, <1>9 DEF SourcesInv, Fresh, Active

(***************************************************************************)
(* The host's IPM: one more stream, decoded.                               *)
(***************************************************************************)
LEMMA FallbackConfigured ==
  ASSUME NEW c, Configured(c)
  PROVE  LET d == Fallback(c)
         IN  /\ Configured(d) /\ DOMAIN d = DOMAIN c
             /\ d.host_fallback_active /\ d.decode_mode # "RawOnly"
             /\ HasStream(d.streams, "RawFisheye")
             /\ \A n \in DOMAIN c :
                  n \notin {"host_fallback_active", "decode_mode", "streams"} => d[n] = c[n]
<1> DEFINE d == Fallback(c)
<1>1. {"host_fallback_active", "decode_mode", "streams"} \subseteq DOMAIN c
  BY DEF Configured, ConfigFields
<1>2. /\ DOMAIN d = DOMAIN c
      /\ d.host_fallback_active = TRUE
      /\ d.decode_mode = IF c.decode_mode = "RawOnly" THEN "RawAndDecoded" ELSE c.decode_mode
      /\ d.streams = WithStream(c.streams, "RawFisheye")
      /\ \A n \in DOMAIN c :
           n \notin {"host_fallback_active", "decode_mode", "streams"} => d[n] = c[n]
  BY <1>1 DEF Fallback
<1> HIDE DEF d
<1>3. /\ d.publish_depth = c.publish_depth /\ d.depth_assist = c.depth_assist
      /\ d.publish_panorama = c.publish_panorama
      /\ d.publish_decoded_images = c.publish_decoded_images
      /\ d.publish_compressed_images = c.publish_compressed_images
      /\ d.crop_top = c.crop_top /\ d.crop_bottom = c.crop_bottom
      /\ d.height = c.height /\ d.width = c.width
  BY <1>2 DEF Configured, ConfigFields
<1>4. /\ d.streams \in Seq(StreamIds) /\ HasStream(d.streams, "RawFisheye")
      /\ \A other : HasStream(c.streams, other) => HasStream(d.streams, other)
  <2>1. c.streams \in Seq(StreamIds)
    BY DEF Configured
  <2> QED BY <1>2, <2>1, BasicStreams, StreamAdded
<1>5. NeedsDisparity(d) => HasStream(d.streams, "Disparity")
  BY <1>3, <1>4 DEF Configured, NeedsDisparity, NeedsPanoramaDepth
<1>6. d.decode_mode \in DecodeModes /\ d.decode_mode # "RawOnly"
  BY <1>2 DEF Configured, DecodeModes
<1>7. c.publish_compressed_images => d.decode_mode # "DecodedOnly"
  BY <1>2 DEF Configured
<1>8. \A n \in DOMAIN Bounds : d[n] = c[n]
  <2>1. DOMAIN Bounds \subseteq DOMAIN c
    BY DEF Configured
  <2>2. /\ "host_fallback_active" \notin DOMAIN Bounds /\ "decode_mode" \notin DOMAIN Bounds
        /\ "streams" \notin DOMAIN Bounds
    BY DEF Bounds
  <2> QED BY <1>2, <2>1, <2>2
<1>9. Configured(d)
  BY <1>2, <1>3, <1>4, <1>5, <1>6, <1>7, <1>8 DEF Configured
<1> QED BY <1>2, <1>4, <1>6, <1>9 DEF d

(***************************************************************************)
(* The board refuses the IPM: a robot goes without, a device may make its  *)
(* own.                                                                    *)
(***************************************************************************)
LEMMA SourcesBevRefused ==
  ASSUME LifecycleInv, SourcesInv, BevRefused
  PROVE  SourcesInv'
<1> USE DEF boardVars, outputVars, processVars
<1>1. /\ at = "ipm" /\ config.publish_ipm
      /\ UNCHANGED <<tf, devices, depth, lookup, session, generator, subs, pano, pending>>
  BY DEF BevRefused
<1>2. /\ Configured(config) /\ ~config.host_fallback_active
      /\ DOMAIN refused = {"BevDisplay", "PanoDisplay"}
      /\ TransformsReady /\ IpmReady /\ DepthReady /\ StreamsReady /\ PanoramaReady
  BY <1>1 DEF SourcesInv, Active
<1>3. subs = << >>
  BY <1>1 DEF LifecycleInv, Preparing
<1>4. PICK error \in Errors :
        /\ refused' = [refused EXCEPT !["BevDisplay"] = error]
        /\ \/ /\ tf.mounting # None /\ at' = "derive"
              /\ config' = [config EXCEPT !.publish_ipm = FALSE]
           \/ /\ tf.mounting = None /\ error = "UnsupportedStream" /\ at' = "generator"
              /\ config' = Fallback(config)
           \/ at' = "stop" /\ UNCHANGED config
  BY AfterPhase DEF BevRefused, Refuse, ShouldFallbackToHostDisplay
<1>5. /\ DOMAIN refused' = DOMAIN refused
      /\ refused'["BevDisplay"] = error /\ refused'["PanoDisplay"] = refused["PanoDisplay"]
  BY <1>2, <1>4
<1>6. CASE at' = "stop"
  BY <1>5, <1>6, SourcesLeave
<1>7. CASE /\ tf.mounting # None /\ at' = "derive"
           /\ config' = [config EXCEPT !.publish_ipm = FALSE]
  <2>1. /\ DOMAIN config' = DOMAIN config /\ config'.publish_ipm = FALSE
        /\ \A n \in DOMAIN config : n # "publish_ipm" => config'[n] = config[n]
    BY <1>2, <1>7 DEF Configured, ConfigFields
  <2>2. /\ config'.host_fallback_active = config.host_fallback_active
        /\ config'.publish_depth = config.publish_depth
        /\ config'.depth_assist = config.depth_assist
        /\ config'.publish_panorama = config.publish_panorama
        /\ config'.publish_depth_panorama = config.publish_depth_panorama
        /\ config'.publish_decoded_images = config.publish_decoded_images
        /\ config'.publish_compressed_images = config.publish_compressed_images
        /\ config'.crop_top = config.crop_top /\ config'.crop_bottom = config.crop_bottom
        /\ config'.height = config.height /\ config'.width = config.width
        /\ config'.publish_vio_tf = config.publish_vio_tf
        /\ config'.publish_odom_tf = config.publish_odom_tf
        /\ config'.publish_sensor_tf = config.publish_sensor_tf
        /\ config'.output_frame = config.output_frame /\ config'.frame_id = config.frame_id
        /\ config'.publish_worker_threads = config.publish_worker_threads
        /\ config'.decode_mode = config.decode_mode /\ config'.streams = config.streams
    BY <1>2, <2>1 DEF Configured, ConfigFields
  <2>3. \A n \in DOMAIN Bounds : config'[n] = config[n]
    <3>1. DOMAIN Bounds \subseteq DOMAIN config
      BY <1>2 DEF Configured
    <3>2. "publish_ipm" \notin DOMAIN Bounds
      BY DEF Bounds
    <3> QED BY <2>1, <3>1, <3>2
  <2>4. Configured(config')
    BY <1>2, <2>1, <2>2, <2>3 DEF Configured, NeedsDisparity, NeedsPanoramaDepth
  <2>5. TransformsReady'
    BY <1>1, <1>2, <2>2 DEF TransformsReady
  <2>6. IpmReady'
    BY <2>1 DEF IpmReady
  <2>7. DepthReady'
    BY <1>1, <1>2, <1>7, <2>2 DEF DepthReady, NeedsDisparity, NeedsPanoramaDepth, Derives
  <2>8. StreamsReady'
    BY <1>1, <1>2, <1>3, <1>7 DEF StreamsReady
  <2>9. PanoramaReady'
    BY <1>1, <1>2, <1>5, <1>7 DEF PanoramaReady
  <2> QED BY <1>2, <1>5, <1>7, <2>2, <2>4, <2>5, <2>6, <2>7, <2>8, <2>9
          DEF SourcesInv, Fresh, Active
<1>8. CASE /\ tf.mounting = None /\ error = "UnsupportedStream" /\ at' = "generator"
           /\ config' = Fallback(config)
  <2>1. /\ Configured(config') /\ DOMAIN config' = DOMAIN config
        /\ config'.host_fallback_active /\ config'.decode_mode # "RawOnly"
        /\ HasStream(config'.streams, "RawFisheye")
        /\ \A n \in DOMAIN config :
             n \notin {"host_fallback_active", "decode_mode", "streams"} => config'[n] = config[n]
    BY <1>2, <1>8, FallbackConfigured
  <2>2. /\ config'.publish_depth = config.publish_depth
        /\ config'.depth_assist = config.depth_assist
        /\ config'.publish_panorama = config.publish_panorama
        /\ config'.publish_depth_panorama = config.publish_depth_panorama
        /\ config'.publish_vio_tf = config.publish_vio_tf
        /\ config'.publish_odom_tf = config.publish_odom_tf
        /\ config'.publish_sensor_tf = config.publish_sensor_tf
        /\ config'.output_frame = config.output_frame /\ config'.frame_id = config.frame_id
        /\ config'.publish_worker_threads = config.publish_worker_threads
    BY <1>2, <2>1 DEF Configured, ConfigFields
  <2>3. TransformsReady'
    BY <1>1, <1>2, <2>2 DEF TransformsReady
  <2>4. IpmReady'
    BY <1>1, <1>5, <1>8, <2>1 DEF IpmReady
  <2>5. DepthReady'
    BY <1>1, <1>2, <1>8, <2>2 DEF DepthReady, NeedsDisparity, NeedsPanoramaDepth
  <2>6. StreamsReady'
    BY <1>1, <1>2, <1>3, <1>8 DEF StreamsReady
  <2>7. PanoramaReady'
    BY <1>1, <1>2, <1>5, <1>8 DEF PanoramaReady
  <2> QED BY <1>2, <1>5, <1>8, <2>1, <2>3, <2>4, <2>5, <2>6, <2>7
          DEF SourcesInv, Fresh, Active
<1> QED BY <1>4, <1>6, <1>7, <1>8

(***************************************************************************)
(* The generator of the host's IPM, or the end of Start.                   *)
(***************************************************************************)
LEMMA SourcesGenerator ==
  ASSUME SourcesInv, InitializeGenerator
  PROVE  SourcesInv'
<1> USE DEF boardVars, streamVars, processVars
<1>1. /\ at = "generator" /\ ((generator' /\ at' = "derive") \/ at' = "stop")
      /\ UNCHANGED <<config, tf, devices, depth, lookup, session, refused, pano, subs, pending>>
  BY AfterPhase DEF InitializeGenerator
<1>2. /\ Configured(config)
      /\ DOMAIN refused = {"BevDisplay", "PanoDisplay"}
      /\ TransformsReady /\ IpmReady /\ DepthReady /\ StreamsReady /\ PanoramaReady
  BY <1>1 DEF SourcesInv, Active
<1>3. CASE at' = "stop"
  BY <1>1, <1>3, SourcesLeave
<1>4. CASE generator' /\ at' = "derive"
  <2>1. TransformsReady'
    BY <1>1, <1>2 DEF TransformsReady
  <2>2. IpmReady'
    BY <1>1, <1>2, <1>4 DEF IpmReady, Streams
  <2>3. DepthReady'
    BY <1>1, <1>2, <1>4 DEF DepthReady
  <2>4. StreamsReady'
    BY <1>1, <1>2, <1>4 DEF StreamsReady
  <2>5. PanoramaReady'
    BY <1>1, <1>2, <1>4 DEF PanoramaReady
  <2> QED BY <1>1, <1>2, <1>4, <2>1, <2>2, <2>3, <2>4, <2>5 DEF SourcesInv, Fresh, Active
<1> QED BY <1>1, <1>3, <1>4

(***************************************************************************)
(* The derived worker; from here on the streams are subscribed one by one. *)
(***************************************************************************)
LEMMA SourcesDerived ==
  ASSUME SourcesInv, StartDerived
  PROVE  SourcesInv'
<1> USE DEF boardVars, processVars
<1>1. /\ at = "derive" /\ at' = "subscribe"
      /\ devices' = devices \cup (IF Derives(config) THEN {"derived"} ELSE {})
      /\ pending' = config.streams
      /\ UNCHANGED <<config, tf, depth, lookup, session, generator, refused, pano, subs>>
  BY AfterPhase DEF StartDerived
<1>2. /\ Configured(config)
      /\ DOMAIN refused = {"BevDisplay", "PanoDisplay"}
      /\ TransformsReady /\ IpmReady /\ DepthReady /\ StreamsReady /\ PanoramaReady
  BY <1>1 DEF SourcesInv, Active
<1>3. TransformsReady'
  BY <1>1, <1>2 DEF TransformsReady
<1>4. IpmReady'
  BY <1>1, <1>2 DEF IpmReady, Streams
<1>5. DepthReady'
  BY <1>1, <1>2 DEF DepthReady
<1>6. StreamsReady'
  <2>1. config.streams \in Seq(StreamIds)
    BY <1>2 DEF Configured
  <2>2. \A i \in DOMAIN config.streams : HasStream(config.streams, config.streams[i])
    BY DEF HasStream
  <2>3. /\ subs \in Seq(Subscription)
        /\ \A i \in DOMAIN subs :
             subs[i].stream = "BevDisplay" \/ subs[i].decode = Decode(config, subs[i].stream)
    BY <1>2 DEF StreamsReady
  <2> QED BY <1>1, <2>1, <2>2, <2>3 DEF StreamsReady
<1>7. PanoramaReady'
  BY <1>1, <1>2 DEF PanoramaReady
<1> QED BY <1>1, <1>2, <1>3, <1>4, <1>5, <1>6, <1>7 DEF SourcesInv, Fresh, Active

(***************************************************************************)
(* One stream after the other.                                             *)
(***************************************************************************)
LEMMA SourcesSubscribe ==
  ASSUME SourcesInv, Subscribe
  PROVE  SourcesInv'
<1> USE DEF boardVars, outputVars, processVars
<1> DEFINE s == Head(pending)
           e == [stream |-> s, decode |-> Decode(config, s)]
<1>1. /\ at = "subscribe" /\ at' = "subscribe" /\ pending # << >>
      /\ subs' = Append(subs, e) /\ pending' = Tail(pending)
      /\ UNCHANGED <<config, tf, devices, depth, lookup, session, generator, refused, pano>>
  BY DEF Subscribe
<1>2. /\ Configured(config)
      /\ DOMAIN refused = {"BevDisplay", "PanoDisplay"}
      /\ TransformsReady /\ IpmReady /\ DepthReady /\ StreamsReady /\ PanoramaReady
  BY <1>1 DEF SourcesInv, Active
<1>3. /\ subs \in Seq(Subscription) /\ pending \in Seq(StreamIds)
      /\ \A i \in DOMAIN subs :
           subs[i].stream = "BevDisplay" \/ subs[i].decode = Decode(config, subs[i].stream)
      /\ \A i \in DOMAIN config.streams :
           config.streams[i] \in Streams \/ HasStream(pending, config.streams[i])
  BY <1>1, <1>2 DEF StreamsReady
<1>4. /\ s \in StreamIds /\ pending' \in Seq(StreamIds)
      /\ \A x : HasStream(pending, x) => x = s \/ HasStream(pending', x)
  <2>1. s \in StreamIds /\ Tail(pending) \in Seq(StreamIds) /\ s = pending[1]
    BY <1>1, <1>3
  <2>2. \A i \in DOMAIN pending :
          i = 1 \/ (i - 1 \in DOMAIN Tail(pending) /\ Tail(pending)[i - 1] = pending[i])
    BY <1>1, <1>3
  <2> HIDE DEF s
  <2> QED BY <1>1, <2>1, <2>2 DEF HasStream
<1>5. e \in Subscription /\ e.stream = s /\ e.decode = Decode(config, s)
  <2>1. Decode(config, s) \in DecodeModes
    BY <1>2 DEF Configured, Decode, DecodeModes
  <2> QED BY <1>4, <2>1 DEF Subscription
<1> HIDE DEF e, s
<1>6. /\ subs' \in Seq(Subscription)
      /\ \A i \in DOMAIN subs' : (i \in DOMAIN subs /\ subs'[i] = subs[i]) \/ subs'[i] = e
      /\ Streams \subseteq Streams' /\ s \in Streams'
  BY <1>1, <1>3, <1>5, OneMoreStream
<1>7. TransformsReady'
  BY <1>1, <1>2 DEF TransformsReady
<1>8. IpmReady'
  BY <1>1, <1>2, <1>6 DEF IpmReady
<1>9. DepthReady'
  BY <1>1, <1>2 DEF DepthReady
<1>10. StreamsReady'
  <2>1. \A i \in DOMAIN subs' :
          subs'[i].stream = "BevDisplay" \/ subs'[i].decode = Decode(config, subs'[i].stream)
    BY <1>3, <1>5, <1>6
  <2>2. \A i \in DOMAIN config.streams :
          config.streams[i] \in Streams' \/ HasStream(pending', config.streams[i])
    BY <1>3, <1>4, <1>6
  <2> QED BY <1>1, <1>4, <1>6, <2>1, <2>2 DEF StreamsReady
<1>11. PanoramaReady'
  BY <1>1, <1>2 DEF PanoramaReady
<1> QED BY <1>1, <1>2, <1>7, <1>8, <1>9, <1>10, <1>11 DEF SourcesInv, Fresh, Active

(***************************************************************************)
(* The end of the streams, and the panorama: the board's, or the host's    *)
(* where the board has none.                                               *)
(***************************************************************************)
LEMMA SourcesPanorama ==
  ASSUME SourcesInv,
         Subscribed \/ SubscribeBoardPanorama \/ PanoramaRefused \/ SubscribeHostPanorama
  PROVE  SourcesInv'
<1> USE DEF boardVars, outputVars, streamVars, processVars
<1>1. /\ at \in {"subscribe", "panorama"} /\ at' \in {"panorama", "spin", "stop"}
      /\ UNCHANGED <<config, tf, devices, depth, lookup, session, generator, subs, pending>>
  BY AfterPhase DEF Subscribed, SubscribeBoardPanorama, PanoramaRefused, SubscribeHostPanorama
<1>2. /\ Configured(config)
      /\ DOMAIN refused = {"BevDisplay", "PanoDisplay"}
      /\ TransformsReady /\ IpmReady /\ DepthReady /\ StreamsReady /\ PanoramaReady
  BY <1>1 DEF SourcesInv, Active
<1>3. pending = << >>
  BY <1>1, <1>2 DEF StreamsReady, Subscribed, SubscribeBoardPanorama, PanoramaRefused,
       SubscribeHostPanorama
<1>4. DOMAIN refused' = DOMAIN refused /\ refused'["BevDisplay"] = refused["BevDisplay"]
  BY <1>2 DEF Subscribed, SubscribeBoardPanorama, PanoramaRefused, SubscribeHostPanorama, Refuse
<1>5. CASE at' = "stop"
  BY <1>4, <1>5, SourcesLeave
<1>6. CASE at' # "stop"
  <2>1. TransformsReady'
    BY <1>1, <1>2 DEF TransformsReady
  <2>2. IpmReady'
    BY <1>1, <1>2, <1>4, <1>6 DEF IpmReady, Streams
  <2>3. DepthReady'
    BY <1>1, <1>2, <1>6 DEF DepthReady
  <2>4. StreamsReady'
    BY <1>1, <1>2, <1>3, <1>6 DEF StreamsReady, Streams
  <2>5. PanoramaReady'
    <3>1. CASE Subscribed
      BY <1>2, <3>1, AfterPhase, LifecycleAssumption DEF Subscribed, PanoramaReady
    <3>2. CASE SubscribeBoardPanorama
      BY <1>2, <3>2, AfterPhase, LifecycleAssumption DEF SubscribeBoardPanorama, PanoramaReady
    <3>3. CASE PanoramaRefused
      BY <1>2, <1>6, <3>3 DEF PanoramaRefused, PanoramaReady, Refuse, ShouldFallbackToHostDisplay
    <3>4. CASE SubscribeHostPanorama
      BY <1>2, <1>6, <3>4, AfterPhase, LifecycleAssumption DEF SubscribeHostPanorama, PanoramaReady
    <3> QED BY <3>1, <3>2, <3>3, <3>4
  <2> QED BY <1>1, <1>2, <1>4, <1>6, <2>1, <2>2, <2>3, <2>4, <2>5 DEF SourcesInv, Fresh, Active
<1> QED BY <1>5, <1>6

(***************************************************************************)
(* Every step leaves what the next phase needs.                            *)
(***************************************************************************)
LEMMA SourcesStep == LifecycleInv /\ SourcesInv /\ [Next]_vars => SourcesInv'
<1> SUFFICES ASSUME LifecycleInv, SourcesInv, [Next]_vars
             PROVE  SourcesInv'
  OBVIOUS
<1> USE DEF boardVars, outputVars, streamVars, processVars
<1>1. CASE Load \/ Connect \/ ConnectFails \/ SubscribeSnapshot \/ SnapshotRefused
             \/ DeliverSnapshot \/ WaitEnds \/ ConfigureFails
  BY <1>1, SourcesFresh
<1>2. CASE Configure \/ NoDepth \/ PrepareDepth \/ PreparePose \/ SkipIpm
  BY <1>2, SourcesConfigure, SourcesDepth, SourcesPose
<1>3. CASE SubscribeBev \/ BevRefused \/ InitializeGenerator \/ StartDerived \/ Subscribe
  BY <1>3, SourcesBev, SourcesBevRefused, SourcesGenerator, SourcesDerived, SourcesSubscribe
<1>4. CASE Subscribed \/ SubscribeBoardPanorama \/ PanoramaRefused \/ SubscribeHostPanorama
  BY <1>4, SourcesPanorama
<1>5. CASE SubscribeFails \/ Destroy \/ StopPanorama \/ StopStream \/ Disconnect
             \/ JoinDerived \/ JoinWorkers \/ ConfigureThrows \/ PoseThrows \/ LatePublish
  <2>1. at' \in {"failed", "stop", "join", "ended", "aborted"} /\ refused' = refused
    BY <1>5 DEF SubscribeFails, Destroy, StopPanorama, StopStream, Disconnect, JoinDerived,
         JoinWorkers, ConfigureThrows, PoseThrows, LatePublish
  <2> QED BY <2>1, SourcesLeave
<1>6. CASE Signal \/ Announce \/ UNCHANGED vars
  <2>1. UNCHANGED <<at, config, tf, devices, depth, lookup, session, generator, subs, pending,
                    pano, refused>>
    BY <1>6 DEF Signal, Announce, vars
  <2> QED BY <2>1 DEF SourcesInv, TransformsReady, IpmReady, DepthReady, StreamsReady,
               PanoramaReady, Streams
<1>7. CASE Spin
  <2>1. /\ at = "spin" /\ at' \in {"spinning", "aborted"}
        /\ UNCHANGED <<config, tf, devices, depth, lookup, session, generator, subs, pending,
                       pano, refused>>
    BY <1>7 DEF Spin
  <2>2. CASE at' = "aborted"
    BY <2>1, <2>2, SourcesLeave
  <2>3. CASE at' = "spinning"
    <3>1. TransformsReady /\ IpmReady /\ DepthReady /\ StreamsReady /\ PanoramaReady
      BY <2>1 DEF SourcesInv, Active
    <3>2. TransformsReady' /\ DepthReady' /\ PanoramaReady'
      BY <2>1, <2>3, <3>1 DEF TransformsReady, DepthReady, PanoramaReady
    <3>3. IpmReady' /\ StreamsReady'
      BY <2>1, <2>3, <3>1 DEF IpmReady, StreamsReady, Streams
    <3> QED BY <2>1, <2>3, <3>2, <3>3 DEF SourcesInv, Fresh, Active
  <2> QED BY <2>1, <2>2, <2>3
<1> QED BY <1>1, <1>2, <1>3, <1>4, <1>5, <1>6, <1>7 DEF Next, Main

(***************************************************************************)
(* Spinning, every stream of the configuration is subscribed, in its       *)
(* decode mode.                                                            *)
(***************************************************************************)
LEMMA StreamsSubscribed ==
  ASSUME SourcesInv, at \in {"spin", "spinning"}
  PROVE  /\ \A i \in DOMAIN config.streams : config.streams[i] \in Streams
         /\ \A s : HasStream(config.streams, s) => s \in Streams
         /\ \A i \in DOMAIN subs :
              subs[i].stream = "BevDisplay" \/ subs[i].decode = Decode(config, subs[i].stream)
<1>1. StreamsReady
  BY DEF SourcesInv, Active
<1>2. ~ \E i \in DOMAIN pending : TRUE
  BY <1>1 DEF StreamsReady
<1>3. \A i \in DOMAIN config.streams : config.streams[i] \in Streams
  BY <1>1, <1>2 DEF StreamsReady, HasStream
<1> QED BY <1>1, <1>3 DEF StreamsReady, HasStream

(***************************************************************************)
(* Nothing that spins announces what it cannot publish.                    *)
(***************************************************************************)
LEMMA SourcesSpin == SourcesInv => OutputsHaveSources
<1> SUFFICES ASSUME SourcesInv, at \in {"spin", "spinning"}
             PROVE  /\ \A i \in DOMAIN config.streams : config.streams[i] \in Streams
                    /\ DepthSourced /\ ImagesSourced /\ IpmSourced /\ PanoramaSourced
                    /\ TransformsSourced /\ CountsUsable
  BY DEF OutputsHaveSources
<1>1. /\ Configured(config)
      /\ TransformsReady /\ IpmReady /\ DepthReady /\ StreamsReady /\ PanoramaReady
  BY DEF SourcesInv, Active
<1>2. DepthSourced
  BY <1>1, StreamsSubscribed DEF DepthReady, DepthSourced, Derives, NeedsDisparity, Configured
<1>3. ImagesSourced
  BY <1>1, StreamsSubscribed DEF ImagesSourced, Decode, Configured
<1>4. IpmSourced
  <2>1. ASSUME config.publish_ipm, config.host_fallback_active
        PROVE  /\ tf.mounting = None /\ generator /\ refused["BevDisplay"] = "UnsupportedStream"
               /\ \E i \in DOMAIN subs : subs[i].stream = "RawFisheye" /\ subs[i].decode # "RawOnly"
    <3>1. /\ tf.mounting = None /\ generator /\ refused["BevDisplay"] = "UnsupportedStream"
          /\ HasStream(config.streams, "RawFisheye") /\ config.decode_mode # "RawOnly"
      BY <1>1, <2>1 DEF IpmReady
    <3>2. PICK i \in DOMAIN subs : subs[i].stream = "RawFisheye"
      BY <3>1, StreamsSubscribed DEF Streams
    <3>3. subs[i].decode # "RawOnly"
      BY <3>1, <3>2, StreamsSubscribed DEF Decode, IsBridgeImageStream
    <3> QED BY <3>1, <3>2, <3>3
  <2>2. ASSUME config.publish_ipm, ~config.host_fallback_active
        PROVE  /\ "BevDisplay" \in Streams
               /\ tf.mounting # None =>
                    tf.mounting.plane # None /\ config.ipm_frame_id = tf.mounting.frames.parent
    BY <1>1, <2>2 DEF IpmReady
  <2> QED BY <2>1, <2>2 DEF IpmSourced
<1>5. PanoramaSourced
  BY <1>1 DEF PanoramaReady, PanoramaSourced, Configured
<1>6. TransformsSourced
  BY <1>1 DEF TransformsReady, TransformsSourced
<1>7. CountsUsable
  BY <1>1 DEF TransformsReady, CountsUsable, Configured
<1> QED BY <1>2, <1>3, <1>4, <1>5, <1>6, <1>7, StreamsSubscribed

(***************************************************************************)
(* OutputsHaveSources for every set of parameters, mounting files and      *)
(* board answers: what LoadConfig, the TF configuration, the phases of     *)
(* Start and their fallbacks leave behind, in this order, gives a bridge   *)
(* that spins a source for everything its configuration still announces.   *)
(***************************************************************************)
THEOREM OutputsSourced == Spec => []OutputsHaveSources
BY LifecycleInvInit, LifecycleStep, SourcesInit, SourcesStep, SourcesSpin, PTL DEF Spec
=============================================================================
