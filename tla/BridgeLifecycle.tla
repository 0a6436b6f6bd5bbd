--------------------------- MODULE BridgeLifecycle --------------------------
(***************************************************************************)
(* The life of one bridge process: main (orbvi_ros_bridge_node_ros2.cpp),  *)
(* BridgeNode's Start, Stop and destructor (bridge_node_ros2.cpp) and the  *)
(* board's mounting snapshot (board_ipm.hpp).                              *)
(*                                                                         *)
(* A step of the main thread is the code up to and including one call of   *)
(* the Host SDK.  The board answers each call as it likes.  The callbacks  *)
(* of a subscription run on the SDK's threads from the moment it is made   *)
(* until it is stopped, and read config_, tf_setup_, depth_calibration_,   *)
(* ipm_generator_ and the session pointer without a lock.                  *)
(*                                                                         *)
(* rclcpp's signal handler shuts the context down, and without a context   *)
(* no publisher, subscription, timer or executor can be made: the attempt  *)
(* throws.  Nothing catches that in main, so the process terminates where  *)
(* it stands, at "aborted", and Stop does not run.                         *)
(***************************************************************************)
EXTENDS BridgeConfig, SensorTree

CONSTANTS
  Params,        \* what the node's parameters may be, as LoadConfig reads them
  Files,         \* mounting_config -> the file of that name; one that cannot
                 \* be read is a file without frames
  Projections,   \* robot projections the board's BEV frames carry
  MaxFrames      \* bound: BEV frames while the mounting snapshot is read

ASSUME LifecycleAssumption ==
  /\ MaxFrames \in Nat \ {0}
  /\ \A p \in Params : Typed(p)
  /\ None \notin {"board", "host"}

VARIABLES
  at,          \* where the main thread is
  config,      \* config_, None before LoadConfig
  client,      \* None, "new" or "connected"
  attempt,     \* ConnectWithRetry's attempt
  board,       \* the temporary BEV subscription: live, frames it delivered
  tf,          \* tf_setup_, None or Failed if there is none
  devices,     \* broadcasters, publish workers ("workers"), derived worker
               \* ("derived") that exist
  depth,       \* depth_calibration_ is set
  lookup,      \* depth_panorama_lookup_ is set
  session,     \* the setup RobotTfSession was made with, None without one
  generator,   \* ipm_generator_ is initialized
  subs,        \* subscriptions_: stream and decode mode of each
  pending,     \* streams Start has yet to subscribe
  pano,        \* panorama_subscription_: None, "board" or "host"
  refused,     \* history: the error of <<stream>> that was refused
  signalled,   \* rclcpp's signal handler has shut the context down
  announced,   \* publishers_ has a publisher for every topic that is used
  destroyed    \* ~Impl has begun

boardVars == <<client, attempt, board>>
outputVars == <<devices, depth, lookup, session, generator>>
streamVars == <<subs, pending, pano, refused>>
processVars == <<signalled, announced, destroyed>>
vars == <<at, config, tf, boardVars, outputVars, streamVars, processVars>>

Init ==
  /\ at = "load" /\ config = None /\ tf = None
  /\ client = None /\ attempt = 1 /\ board = [live |-> FALSE, frames |-> << >>]
  /\ devices = {} /\ depth = FALSE /\ lookup = FALSE /\ session = None /\ generator = FALSE
  /\ subs = << >> /\ pending = << >> /\ pano = None
  /\ refused = [s \in {"BevDisplay", "PanoDisplay"} |-> None]
  /\ signalled = FALSE /\ announced = FALSE /\ destroyed = FALSE

-----------------------------------------------------------------------------
(***************************************************************************)
(* The order of Start's phases after the TF configuration.                 *)
(***************************************************************************)
\* Mutated form of StartOrder: the streams are subscribed before the IPM.
StartOrderIpmLast ==
  <<"depth", "pose", "derive", "subscribe", "ipm", "panorama", "spin">>

StartOrder == <<"depth", "pose", "ipm", "derive", "subscribe", "panorama", "spin">>

After(step) == StartOrder[1 + CHOOSE i \in DOMAIN StartOrder : StartOrder[i] = step]

FromBoard(c) == c.tf_mode = "robot" /\ c.mounting_config = "sdk"

Load ==
  /\ at = "load"
  /\ \E loaded \in {Loaded(p) : p \in Params} : config' = LoadConfig(loaded)
  /\ client' = "new"
  /\ at' = "connect"
  /\ UNCHANGED <<tf, attempt, board, outputVars, streamVars, processVars>>

(***************************************************************************)
(* ConnectWithRetry.  Start gives the client up when no attempt succeeds.  *)
(***************************************************************************)
Connect ==
  /\ at = "connect"
  /\ client' = "connected"
  /\ at' = IF FromBoard(config) THEN "mounting" ELSE "configure"
  /\ UNCHANGED <<config, tf, attempt, board, outputVars, streamVars, processVars>>

\* Mutated form of ConnectFails: after the last attempt it starts over.
ConnectFailsForever ==
  /\ at = "connect"
  /\ attempt' = IF attempt <= config.connect_retry_count THEN attempt + 1 ELSE 1
  /\ UNCHANGED <<at, config, tf, client, board, outputVars, streamVars, processVars>>

ConnectFails ==
  /\ at = "connect"
  /\ IF attempt <= config.connect_retry_count
       THEN attempt' = attempt + 1 /\ UNCHANGED <<at, client>>
       ELSE at' = "failed" /\ client' = None /\ UNCHANGED attempt
  /\ UNCHANGED <<config, tf, board, outputVars, streamVars, processVars>>

(***************************************************************************)
(* ReadBoardMountingSnapshot.  stop() need not wait for a callback that is *)
(* already running, so the last frame may come until State is read; only   *)
(* the first one counts.  The wait ends with a frame or with the timeout.  *)
(***************************************************************************)
SubscribeSnapshot ==
  /\ at = "mounting"
  /\ board' = [board EXCEPT !.live = TRUE]
  /\ at' = "wait"
  /\ UNCHANGED <<config, tf, client, attempt, outputVars, streamVars, processVars>>

SnapshotRefused ==
  /\ at = "mounting"
  /\ at' = "failed"
  /\ UNCHANGED <<config, tf, boardVars, outputVars, streamVars, processVars>>

DeliverSnapshot ==
  /\ at = "wait" \/ (at = "configure" /\ FromBoard(config))
  /\ Len(board.frames) < MaxFrames
  /\ \E frame \in Projections \cup {Failed} : board' = [board EXCEPT !.frames = Append(@, frame)]
  /\ UNCHANGED <<at, config, tf, client, attempt, outputVars, streamVars, processVars>>

WaitEnds ==
  /\ at = "wait"
  /\ board' = [board EXCEPT !.live = FALSE]
  /\ at' = "configure"
  /\ UNCHANGED <<config, tf, client, attempt, outputVars, streamVars, processVars>>

\* Mutated form of BoardProjection: every frame overwrites the one before.
BoardProjectionLast(frames) == IF frames = << >> THEN Failed ELSE frames[Len(frames)]

BoardProjection(frames) == IF frames = << >> THEN Failed ELSE frames[1]

(***************************************************************************)
(* The TF configuration.  body is the frame the ROS_BODY clouds are in.    *)
(***************************************************************************)
Body(c) == IF c.output_frame = "RosBody" THEN c.frame_id ELSE ""

MountingFile(name) == IF name = "" THEN None ELSE Files[name]

TfSetup(c, frames) ==
  IF ~FromBoard(c) THEN ConfigureTf(c.tf_mode, MountingFile(c.mounting_config),
                                c.publish_mounting_tf, Body(c))
  ELSE IF BoardProjection(frames) = Failed THEN Failed
  ELSE ConfigureBoardTf(BoardProjection(frames), c.publish_mounting_tf, Body(c))

\* StartupOdomTransform of a robot standing upright, heading along x.
StartupOdom(odom, parent, plane) ==
  LET normal == plane[1]
  IN  /\ FrameName(odom) /\ ~Reserved(odom) /\ odom # parent
      /\ 100 * normal[3] * normal[3] >=
           normal[1] * normal[1] + normal[2] * normal[2] + normal[3] * normal[3]

OdomConfigured(c, setup) ==
  c.publish_odom_tf =>
    /\ setup.mounting # None /\ c.publish_vio_tf
    /\ c.odom_frame # setup.device /\ setup.mounting.plane # None
    /\ StartupOdom(c.odom_frame, setup.mounting.frames.parent, setup.mounting.plane)

IpmFrame(c, setup) ==
  IF c.ipm_frame_id # "" THEN c.ipm_frame_id
  ELSE IF setup.mounting # None THEN setup.mounting.frames.parent ELSE "base_link"

IpmConfigured(c, setup) ==
  (setup.mounting # None /\ c.publish_ipm) =>
    /\ IpmFrame(c, setup) = setup.mounting.frames.parent
    /\ setup.mounting.plane # None
    /\ LE(0, c.ipm_max_publish_rate_hz)

TfRefused(c, setup) ==
  IF setup = Failed THEN TRUE ELSE ~OdomConfigured(c, setup) \/ ~IpmConfigured(c, setup)

(***************************************************************************)
(* Start returns false without Stop: the client stays connected until the  *)
(* destructor runs.                                                        *)
(***************************************************************************)
ConfigureFails ==
  /\ at = "configure"
  /\ tf' = TfSetup(config, board.frames)
  /\ TfRefused(config, tf')
  /\ at' = "failed"
  /\ UNCHANGED <<config, boardVars, outputVars, streamVars, processVars>>

(***************************************************************************)
(* The rest of the TF configuration, the broadcasters, a session and gates *)
(* as good as new, and StartPublishWorkers.                                *)
(***************************************************************************)
Broadcasters(c) ==
  (IF c.publish_vio_tf THEN {"vio"} ELSE {})
    \cup (IF c.publish_sensor_tf \/ c.publish_odom_tf THEN {"static"} ELSE {})

Workers(c) == IF c.publish_worker_threads > 0 THEN {"workers"} ELSE {}

Configure ==
  /\ at = "configure"
  /\ tf' = TfSetup(config, board.frames)
  /\ ~TfRefused(config, tf')
  /\ Broadcasters(config) # {} => ~signalled
  /\ config' = [config EXCEPT
       !.frame_id = IF config.output_frame = "RosBody" THEN tf'.device ELSE @,
       !.ipm_frame_id = IpmFrame(config, tf')]
  /\ session' = None
  /\ devices' = Broadcasters(config) \cup Workers(config)
  /\ at' = StartOrder[1]
  /\ UNCHANGED <<boardVars, depth, lookup, generator, streamVars, processVars>>

(***************************************************************************)
(* A broadcaster is a publisher, and these are made outside the try block. *)
(***************************************************************************)
ConfigureThrows ==
  /\ at = "configure" /\ signalled /\ Broadcasters(config) # {}
  /\ tf' = TfSetup(config, board.frames)
  /\ ~TfRefused(config, tf')
  /\ at' = "aborted"
  /\ UNCHANGED <<config, boardVars, outputVars, streamVars, processVars>>

(***************************************************************************)
(* PrepareDepthPublisher.  Without a calibration nothing that needs depth  *)
(* is left; the panorama wants the camera extrinsics too, and the depth    *)
(* panorama its lookup.  The early return is never taken: no parameter     *)
(* turns publish_depth_panorama off.                                       *)
(***************************************************************************)
\* Mutated form of WithoutDepth: the panorama keeps its depth assistance.
WithoutDepthAssisted(c) == [c EXCEPT !.publish_depth = FALSE]

WithoutDepth(c) == [c EXCEPT !.publish_depth = FALSE, !.depth_assist = FALSE]

NoDepth ==
  /\ at = "depth"
  /\ config' = WithoutDepth(config)
  /\ depth' = FALSE /\ lookup' = FALSE
  /\ at' = After("depth")
  /\ UNCHANGED <<tf, boardVars, devices, session, generator, streamVars, processVars>>

PrepareDepth ==
  /\ at = "depth"
  /\ depth' = TRUE
  /\ \E extrinsics, built \in BOOLEAN :
       /\ config' = [config EXCEPT
            !.depth_assist = @ /\ (NeedsPanoramaDepth(config) => extrinsics),
            !.publish_depth_panorama = @ /\ built]
       /\ lookup' = (config.publish_depth_panorama /\ built)
  /\ at' = After("depth")
  /\ UNCHANGED <<tf, boardVars, devices, session, generator, streamVars, processVars>>

(***************************************************************************)
(* PreparePoseTransforms.  The calibration is fetched again, and a failure *)
(* leaves the robot without a session.  A session subscribes to the graph  *)
(* and is polled by a timer.                                               *)
(***************************************************************************)
PreparePose ==
  /\ at = "pose"
  /\ session' \in (IF tf.mounting # None /\ ~signalled THEN {tf, None} ELSE {None})
  /\ at' = After("pose")
  /\ UNCHANGED <<config, tf, boardVars, devices, depth, lookup, generator, streamVars, processVars>>

PoseThrows ==
  /\ at = "pose" /\ signalled /\ tf.mounting # None
  /\ at' = "aborted"
  /\ UNCHANGED <<config, tf, boardVars, outputVars, streamVars, processVars>>

(***************************************************************************)
(* PrepareIpmPublisher.                                                    *)
(***************************************************************************)
SkipIpm ==
  /\ at = "ipm" /\ ~config.publish_ipm
  /\ at' = After("ipm")
  /\ UNCHANGED <<config, tf, boardVars, outputVars, streamVars, processVars>>

SubscribeBev ==
  /\ at = "ipm" /\ config.publish_ipm
  /\ subs' = Append(subs, [stream |-> "BevDisplay", decode |-> "RawAndDecoded"])
  /\ at' = After("ipm")
  /\ UNCHANGED <<config, tf, boardVars, outputVars, pending, pano, refused, processVars>>

Errors == {"UnsupportedStream", "Other"}

Refuse(stream, error) == refused' = [refused EXCEPT ![stream] = error]

ShouldFallbackToHostDisplay(error) == error = "UnsupportedStream"

Fallback(c) ==
  [c EXCEPT !.host_fallback_active = TRUE,
            !.decode_mode = IF @ = "RawOnly" THEN "RawAndDecoded" ELSE @,
            !.streams = WithStream(@, "RawFisheye")]

BevRefused ==
  /\ at = "ipm" /\ config.publish_ipm
  /\ \E error \in Errors :
       /\ Refuse("BevDisplay", error)
       /\ IF tf.mounting # None
            THEN config' = [config EXCEPT !.publish_ipm = FALSE] /\ at' = After("ipm")
          ELSE IF ShouldFallbackToHostDisplay(error)
            THEN config' = Fallback(config) /\ at' = "generator"
          ELSE at' = "stop" /\ UNCHANGED config
  /\ UNCHANGED <<tf, boardVars, outputVars, subs, pending, pano, processVars>>

InitializeGenerator ==
  /\ at = "generator"
  /\ generator' \in BOOLEAN
  /\ at' = IF generator' THEN After("ipm") ELSE "stop"
  /\ UNCHANGED <<config, tf, boardVars, devices, depth, lookup, session, streamVars, processVars>>

(***************************************************************************)
(* StartDepthDerivedWorker, and one Subscribe for every stream.            *)
(***************************************************************************)
Derives(c) ==
  /\ c.publish_depth \/ NeedsPanoramaDepth(c)
  /\ c.publish_depth_pointcloud \/ c.publish_depth_panorama \/ NeedsPanoramaDepth(c)

StartDerived ==
  /\ at = "derive"
  /\ devices' = devices \cup (IF Derives(config) THEN {"derived"} ELSE {})
  /\ pending' = config.streams
  /\ at' = After("derive")
  /\ UNCHANGED <<config, tf, boardVars, depth, lookup, session, generator, subs, pano, refused,
                 processVars>>

IsBridgeImageStream(s) == s \in {"RawFisheye", "RectifiedFisheye", "PanoDisplay", "BevDisplay"}

Decode(c, s) == IF IsBridgeImageStream(s) THEN c.decode_mode ELSE "RawOnly"

Subscribe ==
  /\ at = "subscribe" /\ pending # << >>
  /\ subs' = Append(subs, [stream |-> Head(pending), decode |-> Decode(config, Head(pending))])
  /\ pending' = Tail(pending)
  /\ UNCHANGED <<at, config, tf, boardVars, outputVars, pano, refused, processVars>>

Subscribed ==
  /\ at = "subscribe" /\ pending = << >>
  /\ at' = IF config.publish_panorama THEN After("subscribe") ELSE "spin"
  /\ UNCHANGED <<config, tf, boardVars, outputVars, streamVars, processVars>>

SubscribeFails ==
  /\ at = "subscribe" /\ pending # << >>
  /\ at' = "stop"
  /\ UNCHANGED <<config, tf, boardVars, outputVars, streamVars, processVars>>

(***************************************************************************)
(* SubscribePanorama: the board's, or the host's where the board has none. *)
(***************************************************************************)
SubscribeBoardPanorama ==
  /\ at = "panorama" /\ refused["PanoDisplay"] = None
  /\ pano' = "board"
  /\ at' = After("panorama")
  /\ UNCHANGED <<config, tf, boardVars, outputVars, subs, pending, refused, processVars>>

PanoramaRefused ==
  /\ at = "panorama" /\ refused["PanoDisplay"] = None
  /\ \E error \in Errors :
       /\ Refuse("PanoDisplay", error)
       /\ at' = IF ShouldFallbackToHostDisplay(error) THEN at ELSE "stop"
  /\ UNCHANGED <<config, tf, boardVars, outputVars, subs, pending, pano, processVars>>

SubscribeHostPanorama ==
  /\ at = "panorama" /\ refused["PanoDisplay"] # None
  /\ \/ pano' = "host" /\ at' = After("panorama")
     \/ at' = "stop" /\ UNCHANGED pano
  /\ UNCHANGED <<config, tf, boardVars, outputVars, subs, pending, refused, processVars>>

-----------------------------------------------------------------------------
(***************************************************************************)
(* main.  After a successful Start it calls rclcpp::spin, which makes an   *)
(* executor; a failed one ends the process.  In both cases, once spin has  *)
(* returned after a signal, the destructor stops the bridge, which is the  *)
(* second time if Start has done so itself.                                *)
(***************************************************************************)
Spin ==
  /\ at = "spin"
  /\ at' = IF signalled THEN "aborted" ELSE "spinning"
  /\ UNCHANGED <<config, tf, boardVars, outputVars, streamVars, processVars>>

\* Mutated form of Destroy: main leaves the bridge of a failed Start alone.
DestroyAfterSpin ==
  /\ at = "spinning" /\ signalled
  /\ destroyed' = TRUE
  /\ at' = "stop"
  /\ UNCHANGED <<config, tf, boardVars, outputVars, streamVars, signalled, announced>>

Destroy ==
  /\ at = "failed" \/ (at = "spinning" /\ signalled)
  /\ destroyed' = TRUE
  /\ at' = "stop"
  /\ UNCHANGED <<config, tf, boardVars, outputVars, streamVars, signalled, announced>>

Signal ==
  /\ ~signalled /\ at \notin {"ended", "aborted"}
  /\ signalled' = TRUE
  /\ UNCHANGED <<at, config, tf, boardVars, outputVars, streamVars, announced, destroyed>>

(***************************************************************************)
(* Publisher makes the publisher of a topic for its first message, on the  *)
(* thread of a callback or the derived worker.  Once all topics have       *)
(* theirs, no message needs the context: publish itself returns quietly.   *)
(* Until then the first message of a topic after a signal throws.          *)
(***************************************************************************)
Live == subs # << >> \/ pano # None \/ "derived" \in devices

Announce ==
  /\ at \in {"spin", "spinning"} /\ Live
  /\ ~signalled /\ ~announced
  /\ announced' = TRUE
  /\ UNCHANGED <<at, config, tf, boardVars, outputVars, streamVars, signalled, destroyed>>

LatePublish ==
  /\ Live /\ signalled /\ ~announced
  /\ at # "aborted"
  /\ at' = "aborted"
  /\ UNCHANGED <<config, tf, boardVars, outputVars, streamVars, processVars>>

(***************************************************************************)
(* Stop: the panorama, the streams one by one, the client, the derived     *)
(* worker and the publish workers, which leave when their queue is empty.  *)
(***************************************************************************)
StopPanorama ==
  /\ at = "stop" /\ pano # None
  /\ pano' = None
  /\ UNCHANGED <<at, config, tf, boardVars, outputVars, subs, pending, refused, processVars>>

StopStream ==
  /\ at = "stop" /\ pano = None /\ subs # << >>
  /\ subs' = Tail(subs)
  /\ UNCHANGED <<at, config, tf, boardVars, outputVars, pending, pano, refused, processVars>>

Disconnect ==
  /\ at = "stop" /\ pano = None /\ subs = << >>
  /\ client' = None
  /\ at' = "join"
  /\ UNCHANGED <<config, tf, attempt, board, outputVars, streamVars, processVars>>

JoinDerived ==
  /\ at = "join" /\ "derived" \in devices
  /\ devices' = devices \ {"derived"}
  /\ UNCHANGED <<at, config, tf, boardVars, depth, lookup, session, generator, streamVars,
                 processVars>>

\* Mutated form of JoinWorkers: the derived worker is not joined first.
JoinWorkersOnly ==
  /\ at = "join"
  /\ devices' = devices \ {"workers"}
  /\ at' = IF destroyed THEN "ended" ELSE "failed"
  /\ UNCHANGED <<config, tf, boardVars, depth, lookup, session, generator, streamVars,
                 processVars>>

JoinWorkers ==
  /\ at = "join" /\ "derived" \notin devices
  /\ devices' = devices \ {"workers"}
  /\ at' = IF destroyed THEN "ended" ELSE "failed"
  /\ UNCHANGED <<config, tf, boardVars, depth, lookup, session, generator, streamVars,
                 processVars>>

Main ==
  \/ Load \/ Connect \/ ConnectFails \/ SubscribeSnapshot \/ SnapshotRefused \/ WaitEnds
  \/ ConfigureFails \/ Configure \/ ConfigureThrows \/ NoDepth \/ PrepareDepth
  \/ PreparePose \/ PoseThrows
  \/ SkipIpm \/ SubscribeBev \/ BevRefused \/ InitializeGenerator
  \/ StartDerived \/ Subscribe \/ Subscribed \/ SubscribeFails
  \/ SubscribeBoardPanorama \/ PanoramaRefused \/ SubscribeHostPanorama
  \/ Spin \/ Destroy \/ StopPanorama \/ StopStream \/ Disconnect
  \/ JoinDerived \/ JoinWorkers

Next == Main \/ DeliverSnapshot \/ Signal \/ Announce \/ LatePublish

(***************************************************************************)
(* Every call of the SDK returns and the wait for the snapshot is timed:   *)
(* the main thread never stands still.  No signal, frame or message is     *)
(* promised.                                                               *)
(***************************************************************************)
Spec == Init /\ [][Next]_vars /\ WF_vars(Main)

-----------------------------------------------------------------------------
(***************************************************************************)
(* Properties.                                                             *)
(***************************************************************************)
Streams == {subs[i].stream : i \in DOMAIN subs}

(***************************************************************************)
(* What callbacks and the derived worker read without a lock does not      *)
(* change while one of them can run: Start prepares everything before its  *)
(* first subscription, and the one that precedes later phases (the board's *)
(* BEV) is made after the last change of the configuration; Stop leaves    *)
(* all of it alone.                                                        *)
(***************************************************************************)
Settled == [][Live => UNCHANGED <<config, tf, depth, lookup, session, generator>>]_vars

(***************************************************************************)
(* Whatever the parameters were, and whatever failed on the way, a bridge  *)
(* that spins has a source for every output it still announces: depth and  *)
(* everything derived from it a calibration, the disparity stream and a    *)
(* worker; decoded images a decoder; the IPM the board's stream, or the    *)
(* host's generator with decoded raw frames, and the latter only in device *)
(* mode on a board that has no such stream; what a robot publishes its     *)
(* broadcaster, ground plane and frame.  The sizes are usable ones.        *)
(***************************************************************************)
DepthSourced ==
  /\ "derived" \in devices <=> Derives(config)
  /\ config.publish_depth \/ NeedsPanoramaDepth(config) => depth /\ "Disparity" \in Streams
  /\ "derived" \in devices /\ config.publish_depth_panorama => lookup

ImagesSourced ==
  \A i \in DOMAIN subs :
    IsBridgeImageStream(subs[i].stream) /\ subs[i].stream # "BevDisplay" =>
      /\ config.publish_decoded_images => subs[i].decode # "RawOnly"
      /\ config.publish_compressed_images => subs[i].decode # "DecodedOnly"

IpmSourced ==
  config.publish_ipm =>
    IF config.host_fallback_active
      THEN /\ tf.mounting = None /\ generator /\ refused["BevDisplay"] = "UnsupportedStream"
           /\ \E i \in DOMAIN subs : subs[i].stream = "RawFisheye" /\ subs[i].decode # "RawOnly"
      ELSE /\ "BevDisplay" \in Streams
           /\ tf.mounting # None =>
                tf.mounting.plane # None /\ config.ipm_frame_id = tf.mounting.frames.parent

PanoramaSourced ==
  /\ config.publish_panorama => pano # None
  /\ pano = "host" => refused["PanoDisplay"] = "UnsupportedStream"
  /\ config.crop_top + config.crop_bottom < config.height /\ config.width > 0

TransformsSourced ==
  /\ config.publish_vio_tf => "vio" \in devices
  /\ session # None => session = tf
  /\ session # None /\ (config.publish_odom_tf \/ (session.publish /\ config.publish_sensor_tf)) =>
       "static" \in devices
  /\ config.publish_odom_tf => tf.mounting # None /\ tf.mounting.plane # None
  /\ config.output_frame = "RosBody" => config.frame_id = tf.device

CountsUsable ==
  /\ \A n \in DOMAIN Bounds : config[n] >= Bounds[n][2]
  /\ "workers" \in devices <=> config.publish_worker_threads > 0

OutputsHaveSources ==
  at \in {"spin", "spinning"} =>
    /\ \A i \in DOMAIN config.streams : config.streams[i] \in Streams
    /\ DepthSourced /\ ImagesSourced /\ IpmSourced /\ PanoramaSourced
    /\ TransformsSourced /\ CountsUsable

(***************************************************************************)
(* With mounting_config=sdk the bridge runs with the mounting of the first *)
(* frame the board sent, however many follow and however the wait ends,    *)
(* and with none if that frame was unreadable or came too late ("stopped   *)
(* before live publishers are created", board_ipm.hpp:12).                 *)
(***************************************************************************)
BoardSnapshot ==
  /\ Live => ~board.live
  /\ config # None /\ FromBoard(config) /\ tf \notin {None, Failed} =>
       /\ board.frames # << >> /\ board.frames[1] # Failed
       /\ tf = ConfigureBoardTf(board.frames[1], config.publish_mounting_tf, tf.device)

(***************************************************************************)
(* Start always comes back, after connect_retry_count retries at the most. *)
(* A process whose Start failed ends, and so does one that is signalled    *)
(* while it spins with all its publishers made; whenever it ends, every    *)
(* subscription, worker and connection is released, also when Start failed *)
(* half way, after some streams were already delivering.  A signal at any  *)
(* other moment does not leave the process running either, but it may      *)
(* terminate without Stop.                                                 *)
(***************************************************************************)
Released ==
  client = None /\ subs = << >> /\ pano = None /\ ~board.live
    /\ devices \cap {"derived", "workers"} = {}

EndsClean ==
  /\ <>(at \in {"spinning", "failed", "ended", "aborted"})
  /\ at = "failed" ~> at = "ended"
  /\ (at = "spinning" /\ signalled /\ (announced \/ ~Live)) ~> at = "ended"
  /\ signalled ~> at \in {"ended", "aborted"}
  /\ [](at = "ended" => Released)
=============================================================================
