# A formal model of orbvi_ros_bridge

`orbvi_ros_bridge` connects an ORBVI camera head, reached through the prebuilt
ORBVI Host SDK, to ROS. It publishes images, IMU, lidar, depth and optimized
odometry, and with `tf_mode=robot` it takes part in the TF tree of a robot it
does not own. This directory holds TLA+ modules translated from its C++ source,
TLC configurations that check them on small instances, and TLAPS proofs of what
holds for instances of any size.

Paths below are relative to `orbvi_ros_bridge/src/` of the repository. The ROS2
node, `bridge_node_ros2.cpp`, is the one modelled; the ROS1 node is a near
duplicate of it without the publish queue, and both share the policy headers.

## 1. The system

### 1.1 Threads

| thread | runs | takes |
|---|---|---|
| main / spin (single-threaded executor) | `Start`, `Stop`, the `/tf_static` and `/tf` subscriptions, the 100 ms robot timer | session mutex, worker mutexes |
| SDK callbacks | `PublishDelivery`, `PublishPanorama` and what they call, one callback per subscription, several at once | every mutex below |
| publish workers (8 by default) | `PublishWorkerLoop` | `publish_queue_mutex_` |
| depth worker | `DepthDerivedWorkerLoop` | `depth_derived_mutex_`, `panorama_depth_mutex_` |

Callbacks are assumed to arrive in any order, at any rate and at any moment,
also while `Stop` runs: the SDK is a binary and its headers promise nothing else.

### 1.2 Components

**Pose transform gate** (`PoseTransformGate`, `transform_geometry.cpp`).
State: stamp and number of the last accepted sample, the producer's epoch, up
to 16 retired epochs. Operation: `Accept`. Called by `PublishVio` under
`vio_tf_mutex_`. Hard: samples come late, twice, from a producer that restarted,
from devices with and without epochs and numbers. Correct when: stamps ascend
within a life of the producer, numbers where there are any, and a life that was
left is not believed again while it can be remembered.

**Static TF registry** (`StaticTfRegistry`, `robot_tf.cpp`). State: one entry per
child (record, owner, conflict), the children seen on `/tf`, an overflow flag.
Operations: `Observe`, `ObserveDynamic`, `HasChild`, `TracksStatic`, `Resolve`.
Hard: any publisher may announce anything in any order; one record and one owner
stand for everything heard. Correct when: the conflict flag is exact, a path
that resolves never changes, one that stopped never comes back, and the search
agrees with the tree.

**Robot TF session** (`RobotTfSession`, `robot_tf_session.hpp`, with
`PrepareRobotTfSession`, `HandleRobotTf`, `PollRobotTf`, `PublishVio` of the
node). State: registry, snapshot, mounting and odom state, blocked flag, and the
tf2 buffer beside it. Operations: `Observe`, `Poll`, `Pose`, `Snapshot`. Hard:
three threads; the buffer is written after the mutex is released; the gate has
consumed a sample before the session looks at it; the bridge hears its own
broadcasts. Correct when: no snapshot outlives a contradiction, no pose uses a
disputed edge, installations never hot-reload, the startup anchor is used only in
the world it was computed in, the mounting is found or given up.

**Publish queue** (`EnqueuePublishTask`, `PublishWorkerLoop`,
`Start/StopPublishWorkers`). State: a deque of at most `max_publish_queue_depth`
tasks, a stop flag, a drop counter, the threads. Hard: drop-oldest under
contention, wakeups, stopping while full and while callbacks are in flight.
Correct when: it implements *drop oldest*, every task is accounted for, nothing
sleeps on work, and `Stop` returns.

**Depth worker** (`EnqueueDepthDerivedFrame`, `DepthDerivedWorkerLoop`,
`GeneratePanoramaDepth`, `Start/StopDepthDerivedWorker`). State: a slot of one
frame and its flags, the thread, the cache of four panorama depths. Hard: the
same, and `Stop` clears the cache before it joins the worker that fills it.
Correct when: it implements *drop oldest* of depth one and the cache holds only
depths of the present connection.

**Pose TF diagnostics** (`pose_tf_diagnostics.hpp`). State: counts, last report,
healthy since, failure pending. Correct when: within one start reports are a
period apart and none that is due is withheld, their counts are exact, and a recovery
is reported only when it is one.

**Optimized path** (`AppendVioOdometryToPath`, end of `PublishVio`). State: the
path and the time it was last published. Correct when: it is the longest
admissible end of what was received, and between `Start` and `Stop` it is published
at its rate and never further behind.

**Bridge lifecycle** (`main`, `Start`, `ConnectWithRetry`, `Prepare...`,
`Subscribe`, `SubscribePanorama`, `Stop`, `~Impl` of the ROS2 node). State: the
client, subscriptions, workers, broadcasters, calibration, session and generator
that exist, and where the main thread is. Operations: one per call of the SDK.
Hard: every call may fail; callbacks run from the first subscription on and read
the configuration and what was prepared without a lock; the board may lack a
stream the host then has to make; a signal shuts the ROS context down at any moment,
after which whatever needs the context throws. Correct when: what callbacks read is
settled before the first of them, a bridge that spins has a source for whatever it
announces, no failure or signal leaves the process running, and whoever reaches the
end of `main` has released everything.

**Configuration** (`LoadConfig` and its loaders, `panorama_options.hpp`). State:
`config_`. Operations: parse, clamp, derive streams from outputs and outputs from
streams. Hard: the parameters depend on each other, and later phases of `Start`
change the result. Correct when: no size is unusable and no output lacks the
stream and decoder it needs.

**Board mounting snapshot and board IPM** (`board_ipm.hpp`, `PublishBoardIpm`).
State: the temporary subscription and its first frame; later the snapshot of the
session that one BEV frame is compared with. Hard: the frame may come late, twice
or broken while the wait times out; the session pauses between snapshot and
publication. Correct when: the mounting is the first frame's or none, and a
published ground image shows the ground where the audited transforms have it.

**Sensor tree and mounting** (`transform_geometry.cpp`, `robot_tf.cpp`). Pure
functions from a calibration to transforms: full and partial calibrations, the
front camera as anchor, the robot's mounting and startup odom. Hard: many
independent defects; matrices become quaternions. Correct when: the tree agrees
with the calibration, loses only what is broken, and a mounting changes no
geometry.

**Extrinsics exporter** (`export_extrinsics.cpp`). State: the output file. Hard:
partial writes, failures, interruption. Correct when: an existing file is never
touched and the file is whole or not there when it says so.

**Image delivery** (`PublishDelivery` and what it calls). State: the cache of the
last 16 rectified left images per pair, the worker's slot, the time of the last
host IPM. Hard: caching, the depth worker and the other callbacks interleave;
entries of a bundle are broken one at a time. Correct when: every image is
published as what it shows, and a cloud is coloured by the nearest images.

**Frame conversions** (`frame_conversions_ros2.cpp`). Pure functions from a
delivery to messages; modelled as far as topic, frame, stamp and the shown part of
the payload go.

**Not modelled**: the ROS1 node, the SDK itself, build and launch files (section 6).

### 1.3 How they interact

    /tf_static, /tf --> HandleRobotTf --Observe--> StaticTfRegistry
                            | then, unlocked               ^
                            v                              | Resolve
                        tf2 buffer <----- lookup ----- RobotTfSession <-- Poll, 100 ms
                                                           ^
    optimized odometry --> PublishVio: Snapshot, gate, ----+ Pose --> /tf
                                 |
                                 +--> diagnostics, path
    disparity --> depth map, slot --> depth worker --> cloud, panorama depth cache
    rectified images --> cache of left images -------------^ colours
    board BEV --> mounting snapshot (before Start goes on), later board IPM <-- Snapshot
    any frame --> publish queue --> workers --> ROS publishers
    Start: LoadConfig, connect, mounting, TF setup, depth, transforms, IPM, worker, subscriptions

## 2. The modules

| module | models | form |
|---|---|---|
| `PoseGate` | `PoseTransformGate` | actions `Accept`, `Reject` over the gate's fields, reused by `RobotTf` |
| `PoseGateHistory` | the gate under any delivery | machine with the history its promises are about |
| `StaticTfRegistry` | `StaticTfRegistry` | operators on a registry value, one per member function |
| `StaticTfAudit` | the registry under any announcements | machine with history |
| `StaticTfProofs` | | theorems, and lemmas on forests that grow and registries that learn |
| `RobotTf` | session, node glue, tf2 buffer | machine; extends `StaticTfRegistry` and `PoseGate` |
| `RobotTfProofs` | | theorems, on top of `StaticTfProofs` |
| `DropOldest` | nothing in the code: what a hand-over buffer promises | abstract specification |
| `PublishQueue` | publish queue and workers | machine; refines `DropOldest` |
| `PublishQueueProofs` | | theorems, the refinement among them |
| `DepthWorker` | slot, depth worker, panorama cache | machine; refines `DropOldest` with depth 1 |
| `DepthWorkerProofs` | | theorems, the refinement among them |
| `SteadyClock` | `std::chrono::steady_clock` | shared by the next two |
| `PoseDiagnostics` | `PoseTfDiagnostics` | actions on its fields |
| `VioPath` | the optimized path | actions on its fields |
| `VioOutputs` | the part of `PublishVio` that drives both, `Start`, `Stop` | machine; extends both |
| `PublishVioProofs` | | theorems about the gate and about what follows it |
| `RigidGeometry` | rotation matrices and quaternions of both geometry files | operators |
| `SensorTree` | calibration, TF configuration and mounting to transforms | operators on the above |
| `ExtrinsicsSnapshot` | `PreparePoseTransforms` and `orbvi_export_extrinsics` | machine; extends `SensorTree` |
| `ExtrinsicsProofs` | | theorems, and lemmas on rotations, quaternions, motions and trees |
| `BridgeConfig` | `LoadConfig` | operators on a function from parameter names to values |
| `BridgeLifecycle` | main thread, board snapshot | machine; extends `BridgeConfig` and `SensorTree` |
| `BridgeLifecycleProofs` | | theorems |
| `FrameMessages` | frames to messages | operators |
| `FrameDelivery` | `PublishDelivery`, cache, derived outputs, board IPM | machine; extends `FrameMessages` and `SteadyClock` |
| `FrameDeliveryProofs` | | theorems |

The `MC` modules hold the sets and model values of the configurations. Next to an operator a comment introduces
*mutated forms* of it: the operator with a plausible bug. They are used by no
specification; substituted for the original they make the property that guards
against that bug fail, which shows the property has teeth.

### Correspondence and abstractions

*PoseGate.* One action per outcome of `Accept`. Clock domain, `timestamp_valid`
and `tracking_state` are one flag `fit`: the code rejects on any of them before
it looks at anything else. Epochs are compared only for equality. A sample that
is not numbered still leaves a number behind, as in the code: it is not a special
value. The 64-bit numbers are naturals; the code compares and never adds.

*StaticTfRegistry.* A transform's numbers are one abstract value: equal within
the code's tolerance or not. Composition of geometry becomes the set of records
on the path. Two consequences: that the tolerance is not transitive is not
represented, and paths of different edges always differ. `Search` is the
breadth-first search as written, one level at a time: a recursive function whose
step is `Widened`. `Resolves`/`Resolved` is its definition by ancestors, which the
session uses because it is cheap; `SearchIsExact` says that they agree. The run
`static_tf` checks it and `AuditSearchExact` proves it. What is at or above a
frame is the least set that holds it and is closed under "parent of"; the code
climbs one parent at a time.

*RobotTf.* A step is one hold of the session mutex, or thread-local work between
two holds. `HearStatic` is `Observe`, `Install` the later `setTransform` of the
same thread: in between the callback may run. `TakeSample`, `ComputePose` and
`SendPose` cut `PublishVio` where it takes and releases the session mutex;
`vio_tf_mutex_` keeps a second sample out. `ComputePose` has one disjunct per
early return of `Pose`. `Poll` covers the timer. The bridge's broadcasts become
audible as those of one more publisher. tf2's buffer is external: it holds the
latest record per child and answers when two frames are connected. The 500 ms
discovery period is a flag that rises at any moment. The ground projection is a
property of the sample (`level`), as is the validity of its frames (`native`).

*PublishQueue, DepthWorker.* A step is one critical section. Condition variables
are explicit: a worker in `wait` runs only when notified or spuriously; an
unlock and the `notify_one` after it are two steps. Tasks and frames are
numbers. `main` is the thread in `Start` and `Stop`. What a task does is a step
that ends; the SDK may refuse to derive a depth.

*RigidGeometry, SensorTree.* Rotations are the 24 that carry the axes onto one
another, translations integers: products, inverses and the conversion of a matrix
to a quaternion by its largest component are then exact, and the branch for each
component is taken by some rotation. Rounding and the tolerance of a unit norm are
not represented. A calibration is a record of what the two parsers found readable;
an exception is the value `Failed`. The
extrinsics that `PartialLidar` keeps are the calibration's own, restricted to the
places that are `Standing`: their number and their camera IDs are what the code
asks about, never their place.

*ExtrinsicsSnapshot.* Both programs run the same operators; the exporter writes its
file in any number of `write` calls, may fail in each, and may be killed anywhere.

*BridgeConfig, BridgeLifecycle.* A parameter is absent or has a value; the
configuration is a function from the names of its fields, the functions of its
parts put `Together`; `LoadConfig` takes the value `Loaded` by the single loaders,
so that it is computed once. A parameter that is declared keeps the type of its
default (`Typed`), as ROS2 enforces. Only fields that other
code branches on are kept. A step of the main thread is the code up to and
including one call of the SDK, which succeeds or fails as the board likes. The
signal handler is rclcpp's: an action of its own at any moment (`Signal`), after which
the context is invalid and constructors that need it throw. Where that is not caught
the process terminates without `Stop` (`at = "aborted"`): for the broadcasters
(`ConfigureThrows`) and the subscriptions or the timer of the session (`PoseThrows`),
which `Start` makes outside its try blocks, for the executor of `rclcpp::spin`
(`Spin`), and in a callback or the derived worker for the publisher of a topic's first
message (`LatePublish`). `announced` says that every topic has its publisher
(`Announce`); from then on `publish` only returns. Queue and worker are in `PublishQueue` and
`DepthWorker`; here they exist or not, and `JoinDerived` and `JoinWorkers` rely on
`StopReturns` of those modules.

*FrameMessages, FrameDelivery.* An image's pixels are one value, `shows`: which
camera, view, tile or bytes it is a picture of. Sizes and strides are small
integers, since the checks on them decide what is published. `CacheOne` is one hold
of the cache mutex: the images of one rectified frame enter one by one, in the order of `Given`, and
`rectified.left` says which are still to come. A topic is the tuple of its parts.
The frame
the worker took is a value; that the slot hands it over correctly is
`DepthWorker`'s matter, and the pause of the session is a step that may come
between `ReceiveBev` and `PublishBev`.

*VioOutputs.* Time advances in seconds by `Wait`. The verdict on a sample is
any, except that a transform without a parent frame is never valid. Stop renews
the path only, Start the diagnostics too, so `Paced` speaks of the time between them:
two reports, one before a `Start` and one after, may be at the same moment. It is
judged by histories (`heard`, `reports`, `arrived`), not by the code's own times.

## 3. What the runs show

Twelve runs; the three whose name is followed by a star find a disagreement
between code and documentation (section 4).

| run | bounds | shows |
|---|---|---|
| `pose_gate` | 4 epochs and none, stamps 0..3, numbers 0..2, memory of 2 | `StampsAscend`, `NumbersAscend` between identified and numbered samples, `RetiredByAge`, `NoEpochReturns` |
| `pose_gate_unnumbered`* | same | a number is accepted twice |
| `static_tf` | 3 frames, 2 publishers, local seeds, dynamic, malformed; 4 announcements; capacity 2 | `ConflictExact`, `NoHotReload`, `PauseIsFinal`, `SearchIsExact` |
| `static_tf_overflow`* | 3 frames, capacity 1 | overflow without a child too many |
| `robot` | 6 frames, three installations: a URDF with a second mounting and a broken IMU; a mounting the bridge claims while the IMU and perhaps a rival are announced; a claimed mounting and anchor in a graph they collide with, through two producer lives | `SnapshotIsAudited`, `NeverReloads`, `DisputedNeverUsed`, `AnchorWorld`, `InstallationFound`, `DuplicatePauses` |
| `robot_restart`* | a claimed mounting, samples with frames that do not convert | a pose against the anchor of the old world |
| `publish_queue` | 2 producers, 2 workers, depth 2, 4 tasks, 2 starts | refinement of `DropOldest`, `Accounted`, `OvertakesFew`, `LatestPublished`, `StopReturns` |
| `depth_worker` | 5 frames, cache of 2, 2 starts | refinement of `DropOldest`, `CacheIsCurrent`, `LatestTaken`, `StopReturns` |
| `vio_outputs` | path of 2 poses, 3 samples, 7 s with a report period of 3 s, starts and stops anywhere | `CountsExact`, `Paced`, `RecoveryIsReal`, `PathIsLongestRun` |
| `extrinsics` | all pairs of 24 orientations of IMU and front camera, all pairs of 22 defects, every mounting in quarter turns, 2 writes | `FrontCameraAgrees`, `BranchesIndependent`, `RobotPreservesGeometry`, `ExportIsWhole` |
| `lifecycle` | every choice of streams with every TF mode; each other parameter at the values told apart; 2 BEV frames during the snapshot; any call fails; a signal at any moment | `OutputsHaveSources`, `BoardSnapshot`, `Settled`, `EndsClean` |
| `delivery` | 9 configurations, 2 tiles of 2x2 pixels, stamps 1..3, cache of 2, colours at most 1 off, clock to 4 | `ColoursAreNearest`, `ShownAsItIs` |

Why the bounds are enough. *Gate*: two epochs fill the memory, a third evicts,
a fourth sees the evicted one return; three positive stamps make ascent,
repetition and reordering possible. *Registry*: a conflict needs two
announcements of one child, a hidden one needs a seed and two publishers (three),
a late effect on a path one more; a full table of two leaves one child out, and
three frames close cycles. *Session*: each feed holds the announcements that may
disagree about one edge, and all of them may be heard in any order, repeatedly,
against every state of Poll and Pose. *Queues*: one task more than depth and
workers can hold forces a drop while both workers are busy; the second start meets
leftovers of the first. *Path and diagnostics*: one pose more than the path holds;
more than two report periods. *Extrinsics*: two defects are enough for one to hide
another; the rotations include the half turns at which the conversion of a matrix
changes its branch. *Lifecycle*: two frames distinguish the first from the last;
parameters that are not combined do not meet in any condition of the code.
*Delivery*: two tiles so that one may lack a colour; a cache of two drops an image
of every three; frames and metadata are each broken in one place; cameras are left
unnamed in places that name no camera and in places that name one, alone, beside that
very camera and several at once.

The deadlock check is off in `depth_worker`, where a model whose frames and starts
are used up stops, as the program does when nothing is delivered, and in
`lifecycle` and `extrinsics`, whose programs end. In the other runs some step is
always possible.

### Fairness

Weak fairness of each worker thread, of the thread between unlock and
`notify_one`, and of the steps of `Start` and `Stop` that wait for nothing but
the join: the operating system schedules runnable threads, `publish()` and the
SDK's derivations return. For `lifecycle`: weak fairness of the main thread, whose
calls of the SDK return and whose wait for the board's snapshot is timed. Neither the
board's frames nor the signal are assumed to come, nor that all publishers get made or
one throws (`Announce`, `LatePublish`): `EndsClean` says what follows a signal, and
where an uncaught exception is one of the ways out it says so. For `robot`: strong fairness of the timer and of
the subscriptions, since the executor is one thread that serves both, for
announcements of the bridge and of publishers declared `Present` (`/tf_static` is
reliable and transient-local); weak fairness of the buffer write and of time.
Nothing is assumed of SDK callbacks, calls of `Start` and `Stop`, spurious
wakeups, or publishers that may not exist.

## 4. Findings

1. `robot_restart`. The gate reports a restart of the producer with one sample
   and forgets it. If `RobotTfSession::Pose` refuses that very sample before it
   looks at `producer_changed` (line 90: its frames do not convert), the restart is lost, and the next sample is sent against the odom
   anchor of the old world. `docs/TF.md:147` rules that out.
2. `static_tf_overflow`. `ObserveDynamic` overflows when the table holds exactly
   4096 children and one of *them* is heard again; `Observe` and the message
   ("exceeds 4096 frames") mean more than 4096.
3. `pose_gate_unnumbered`. A sample without a number makes the gate forget the
   last one, and a number accepted before is accepted again in the same life.
   `docs/TF.md:115` says duplicate sequences are excluded.

Edge cases met on the way, without a run of their own.

Within what the code promises: a stamp far in the future shuts the gate for the
rest of that life; a contradiction heard after `Pose` returned cannot stop that one
broadcast; when `Pose` refuses to anchor because `camera_init` already has a parent,
it blocks the session but leaves the snapshot for IPM; the anchor is seeded without
a new audit, so an odom frame that something placed below `camera_init` closes a
cycle that the next audit finds; several workers may reorder the messages of one
topic (`OvertakesFew` bounds by how many); `Stop` clears the panorama depths and the
path before the callbacks that refill them have stopped (`CacheIsCurrent` says why
the depths do no harm); it resets the path's publication time with it, so a callback
in flight may publish a path sooner after the last than the rate that the repository's
`README.md:336` calls the maximum.

Worth a look by the maintainers:

- Two front cameras, or two extrinsics for the front camera, make
  `BuildSensorTransforms` return before it looks at any camera, though
  `docs/TF.md:105-107` promises that independent valid branches remain;
  `BranchesIndependent` excludes the case (`Ambiguous`).
- A signal before the bridge spins, or before each topic had its first message, ends
  the process by an uncaught exception: `rclcpp::init` installs a handler that shuts the
  context down, and the broadcasters (`bridge_node_ros2.cpp:436-438`), the session's
  subscriptions and `rclcpp::spin` are outside every try block. `Stop` does not run.
- A calibration fetch that fails once in `Start` leaves a robot without session
  and board IPM for the life of the process.
- `LoadStreams` keeps duplicates: `raw,raw` subscribes twice, and two callbacks then
  share `last_ipm_publish_time_` without a lock.
- When depth cannot be prepared, `depth_assist` is cleared but `depth_required` is
  not; the last early return of `PrepareDepthPublisher` cannot be reached.
- NaN passes the checks of the depth range; the fallback 8.0 of `depth_max_warp` may
  still be at or below the minimum; the blend mode of a panorama profile never takes
  effect; `publish_depth`, `split_multi_image_frames` and `publish_bundle_entries`
  are read but never declared as parameters.
- A raw bundle entry, or a decoded raw image, without a camera ID takes its index for
  one (`frame_conversions_ros2.cpp:1079-1084`, `1152-1168`): in place 2 to 5, counted
  from 0, it is published on the topic and with the optical frame of camera 2 to 5, even
  if the bundle also has that camera, where `docs/TF.md:134` speaks of the SDK's camera
  ID. `ShownAsItIs` names the exception (`PassesFor`). Decoded rectified images are told
  apart by their place in the delivery when published and by their frame ID when
  cached; a delivery with both `decoded_image` and `decoded_images` is cached twice.

## 5. What is proved

This section goes module by module; each theorem is named where its argument is
told. For any sets of epochs, stamps, numbers, frames, values and publishers, any
memory and any capacity, from the named assumptions of the constants only.

**`PublishVioProofs`**, the gate. `GateTypeCorrect`. `GateStampsAscend`, from the invariant
that the gate's stamp is that of the last accepted sample: `StampsAscend` alone
is not inductive, since it does not say what the next stamp is compared with.
`GateRemembers` (`RetiredByAge`), from `AgeInv`: the current epoch has the
greatest age, so pushing it onto the list ages all others by one and drops only
one that has reached `Retain`; `RetireShape` says what the push does to the list.
`GateNoEpochReturns`, an action property, from the same invariant.
`GateNumbersAscend`, from the invariant that the gate's number is that of the last
accepted sample; the comparison is only with that one, which is why a
single unnumbered sample breaks the chain (finding 3).

**`StaticTfProofs`.** `AuditTypeCorrect`: both tables stay within
the capacity. `AuditConflictExact`, from `AuditInv`: for every child in the table
the stored record was announced; the stored owner is local exactly as long as every
announcement was; every child heard is in the table unless it was full. Hence
comparing a new announcement with the stored pair is as good as comparing it
with everything heard (`EntryStep`). `AuditNeverReloads` and `AuditPauseIsFinal`
speak of paths. A registry only learns (`ObservedGrows`), so its forest only grows:
a frame's line of ancestors is extended at its root or closed to a cycle
(`GrowsAtRoot`), and two frames of one tree keep the path between them unless a
cycle is closed above (`PathStays`). "Does not resolve" is not inductive: a path may
not resolve yet. What is inductive is `Doomed`, the three reasons why a path that
resolved no longer does (overflow, a cycle above an end, a contested edge), none of
which goes away; and `Fixed`, a path that is what it was or closed to a cycle.

`AuditSearchExact`: the search of `Resolve` succeeds exactly where the definition by
ancestors does and yields the same records. It holds of every level (`Level`) that
the frames reached are part of the tree of the start, each with the edges of the
path to it (`Tree`), or, if the start hangs in a cycle, that all of them do
(`Ring`): there the code's own check of the ancestors is what refuses the answer.
`Spent` counts: a level either reaches a new frame over an edge not used before or
nothing will any more, so as many levels as there are edges are enough. The
induction over the levels is the argument of the least counterexample
(`LeastNatural`, from the well-foundedness of the naturals), since the proof system
cannot apply the principle of induction itself; `LevelsExist` gives the recursive
function by the same argument.

**`RobotTfProofs`.** For every robot, feed and schedule. `RegistryInv` ties the
registry to all that was heard: without overflow, an entry without conflict agrees
with every announcement of its child, although the bridge seeds its own records and
hears itself. `AdoptedInv`: every pose adopted is `Fixed` since, and a startup anchor
is the registered record of `camera_init` unless the table overflowed. They give
`SessionNeverReloads` and `PosesUndisputed`, the latter across the three steps in
which the mutex is released and the buffer is behind the registry.
`SessionTypeCorrect`: nothing malformed reaches the buffer.

Two properties of the run `robot` are true of its graphs and false in general, and
are proved with the exception named. `SnapshotAudited`: every transform of a
snapshot in use still resolves to the records it was made from, from `SnapshotInv`
(each frame of it resolves) and `AdoptedInv`, except while `AnchorUnaudited`: the
anchor has been seeded and either the table is over its capacity or the base hangs
in a cycle. `Pose` seeds the anchor and audits nothing, so in these two
cases the snapshot stays until the next announcement or poll. `SeenRestartsPause`:
no pose is sent against the anchor of an earlier world, from `RestartInv` (an
unblocked session with an anchor is in the anchor's life, or holds the sample that
reported the change), if every step satisfies `RestartSeen`: the sample with which
the gate reports a restart is not refused for its frames before `Pose` looks
at `producer_changed`. A step that breaks `RestartSeen` is finding 1.

**`PublishQueueProofs`.** `QueueOrdered`: the queue ascends, everything in it is newer
than what is being published, and no task is in two hands. From it the
refinement `QueueRefines` of `DropOldest`: evicting the head is keeping the newest
(`AdmitKeepsNewest`). `QueueAccounted`. `QueueOvertakesFew` needs a measure:
`OvertakeInv` says that those who overtook a published message plus the workers that
still hold an older task are fewer than all workers; each late publication moves
one from the second count to the first. `QueueNeverStuck` is the safety under
`LatestPublished` and `StopReturns`: while the node runs, a task in the queue has a
worker awake or a callback between its unlock and its `notify_one`, and while `Stop`
joins, no worker sleeps and one that has not returned can move. From `AwakeInv`, for
any number of workers and callbacks, any depth and any spurious wakeup.

**`DepthWorkerProofs`.** `SlotRefines`, the same refinement with depth one.
`CacheCurrent`, from `CacheInv`: what is in the cache, in the worker's hands and in
the slot ascends and is newer than the start, since `Start` returns only after the
worker of the last connection was joined and the cache cleared with no worker there.
`WorkerNeverStuck`, as for the queue.

**`PublishVioProofs`**, what follows the gate. `ReportsCountAll`, `RecoveriesAreReal`, `OutputsPaced`,
`PathLongest`, from `DiagnosticsInv` (the counters are the true totals, what is
remembered of a failure is what a recovery is owed; the last report since `Start` is
the one `last_report` remembers), `RateInv` (the last publication since `Start` or
`Stop` is the one remembered, and it is the path or young) and `RunInv` (the path is a segment that ends with the last
sample and cannot begin earlier).

**`BridgeLifecycleProofs`.** For any parameters, files and answers of the board.
`CallbacksSeeSettled` and `EndedReleased`, from `LifecycleInv`: which of the
subscriptions and workers may exist at each place of the main thread.
`FirstSnapshotCounts`, from `BoardInv`: what `tf_setup_` was made of.
`OutputsSourced`: a bridge that spins has a source for whatever its configuration
announces. No single phase of `Start` establishes that: `LoadConfig` derives streams
from outputs and outputs from streams (`LoadConfigured`: what `Configured` asks holds
of every result, canvas sizes and bounds of the counters included), and each later
phase adds a decoder, prepares a generator or takes an output back. `SourcesInv`
says what each phase leaves for the next: that the transforms, IPM, depth, stream and
panorama parts of the promise hold as soon as the phase that settles them has passed.
`Typed` is the one assumption about parameters: without it a size need not be a
number.

**`FrameDeliveryProofs`.** For any configurations, deliveries, pairs of cameras,
tolerance and depth of the cache. `DeliveryInv` says that the cache of a pair holds
at most `CacheDepth` images and only left ones of that pair, that callbacks and worker
hold deliveries they were really given, and that in robot mode the BEV callback has
the transforms of the installation. From it `ColoursNearest` (`ColoursAreNearest`):
the colour of a tile is an image of its pair that is still cached, none cached is nearer
in time and no older one as near (`NoneNearer`), although images of the delivery that is
being cached still enter while the worker chooses. The code keeps the first of equals,
since it replaces its choice only for a smaller distance. `PublishedAsItIs`
(`ShownAsItIs`): every message shows what its topic and frame ID promise, for raw and
rectified bundles of any length, tiles and board IPMs, and a readable entry is published
whatever the others are. That a raw entry or image without a camera ID passes for the
camera its place names, as section 4 says, is part of the property: `NamesTopic` shows
that there is no other way under another camera's topic. What deliveries look like is assumed by name
(`RawAssumption`, `RectifiedAssumption` and so on: what the SDK's types guarantee,
such as stamps that are numbers), and `NameAssumption` says that a camera's frame ID
is not empty: the provers know nothing of what a string is made of.

**`ExtrinsicsProofs`.** For any calibrations, mountings and jobs. `ExportNeverHalf`
(`ExportIsWhole`), from `ExportInv`: what the file may be at each step of the exporter.
`SoundBranchesStay` (`BranchesIndependent`). `TreeInv` says that a tree that is there
is the one built for the job's device, and `TreeFacts` what such a tree holds. Every
edge that construction adds has one of the shapes of `Star`: IMU or LiDAR below
`aft_mapped`, the device below `aft_mapped`, a camera below the device. A star is a
forest (`StarIsForest`), and in a star the check for a cycle refuses nothing
(`AddedThere`), so an edge is added when its rigid transform is one and its child is
new. That a sound branch's transform is rigid takes the algebra of rotations: their
product and their transpose are rotations again (`ProductIsRotation`,
`TransposeIsRotation`; the latter from the cofactors), the quaternion of one is never
zero (`TurnedQuaternion`). These hold of all integer matrices.

`FrontStands` (`FrontCameraAgrees`) and `RobotKeeps` (`RobotPreservesGeometry`) are
about the two languages the code computes in: matrices until an edge is made, unit
quaternions afterwards. `Turns` says that a quaternion stands for a matrix; the
conversion establishes it (`RotationQuaternion`), multiplication and conjugation keep
it (`MultiplyTurns`, from Euler's four squares in `HamiltonSpun`; `ConjugateTurns`),
and rotating a vector is applying the matrix (`RotateIs`). So each edge `Stands` for a
rigid motion, and motions form a group (`ComposeAssociative`, `InverseLaws`). The
recursion over a tree is then avoided where it can be: `TreePlaced` gives every frame
of a star one pose such that each edge is the pose of its child seen from its parent,
and `PosesPlaced` shows, by a least counterexample over the rounds of the recursion,
that what is composed downwards is those poses. `LoadMade` says which calibrated motion
each edge stands for, so that the way from the LiDAR to the front camera cancels to
that camera's own extrinsic. For the robot, `RobotPlaced` extends the same poses by one
for the base: they place the new edges too, hence nothing has moved. That the new
edges are a forest (`AnchoredForest`, `UnanchoredForest`) is shown by their shapes, as
for the star. `RobotInv` carries the setup and the tree from the step that computes
them to the one that uses them.

Assumed are that the calibration gives whole matrices and vectors and cameras 2 to 5
(`CalibrationAssumption`: the SDK's types, its camera table, and the model's exact
numbers), that a mounting's pose is a vector and quarter turns (`MountingAssumption`),
that `None` is not a value it stands beside (`NoneAssumption`), and that the frame names
the code fixes are well formed and distinct (`FramesAssumption`). Integers are the
abstraction here: on rotations that are not quarter turns the code rounds, and neither
the run nor the theorems speak of that.

**Only model-checked.** `SnapshotIsAudited` and `AnchorWorld` without the exceptions
above hold of the run's graphs only. `InstallationFound`, `DuplicatePauses`,
`LatestPublished`, `LatestTaken`, `StopReturns` and, but for its last line, `EndsClean` are liveness under
fairness, which the proof system does not treat; `QueueNeverStuck`,
`WorkerNeverStuck` and `EndedReleased` are their safety part.

## 6. Not modelled, and why

- Pixel, point-cloud, colour-map and text-overlay arithmetic, and the parsing of
  odometry fields: data with no control in it. Rigid transforms are modelled on
  quarter turns only, without rounding.
- The ROS1 node, `bridge_node.cpp` with `frame_conversions.cpp`: it drives the same
  policy headers and repeats the ROS2 node without the publish queue; modelling it
  would repeat `BridgeLifecycle` and `FrameDelivery` line by line.
- The SDK and tf2 beyond the interface the bridge uses; tf2's history of transforms:
  static ones have none.
- The wording of logs, launch files, generated message code, CI.
- In `frame_conversions_ros2.cpp`, `MakeDepthPointCloud`, `MakeDisparityLayout`,
  `ReadDisparityPx` and the overload of `MakeDepthPanoramaImage` for a finished
  panorama: no call from the ROS2 node.

## 7. What could be added

1. One composition of `BridgeLifecycle` with the queue and the worker, in place of the
   reliance on `StopReturns` in `JoinDerived` and `JoinWorkers`.
2. A refinement of `FrameDelivery`'s slot by `DepthWorker`, which today share only the
   abstract view of it.
3. The ROS1 node as an instance of the same modules with the queue left out.
