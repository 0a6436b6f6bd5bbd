---------------------------- MODULE DepthWorker -----------------------------
(***************************************************************************)
(* The depth-derived worker of bridge_node_ros2.cpp: the disparity         *)
(* callback leaves a frame in a slot of one, a thread turns the latest one *)
(* into panorama depth, point cloud and depth panorama, and the panorama   *)
(* callback picks from the last few panorama depths.                       *)
(*                                                                         *)
(* A step is one critical section of depth_derived_mutex_ or of            *)
(* panorama_depth_mutex_, or what a thread does between two of them.  A    *)
(* frame is its number in the order of the calls of                        *)
(* EnqueueDepthDerivedFrame.                                               *)
(***************************************************************************)
EXTENDS Integers, Sequences, FiniteSets, Functions

CONSTANTS
  CacheSize,   \* 4 in the code
  MaxFrames,   \* bound: calls of EnqueueDepthDerivedFrame
  MaxLives     \* bound: calls of Start

ASSUME DepthWorkerAssumption ==
  /\ CacheSize \in Nat \ {0}
  /\ MaxFrames \in Nat /\ MaxLives \in Nat

VARIABLES
  slot,        \* depth_derived_frame_
  pending,     \* depth_derived_pending_
  stop,        \* depth_derived_stop_
  pc,          \* the worker: no thread, about to look, in cv.wait, deriving
               \* panorama depth, publishing the rest, returned
  frame,       \* frame it works on
  notifying,   \* the callback is between its unlock and notify_one
  cache,       \* panorama_depth_frames_
  main,        \* the thread that calls Start and Stop
  restart,     \* it is in Start
  lives,       \* starts so far
  offered,     \* calls of EnqueueDepthDerivedFrame so far
  since        \* history: offered when the present worker was spawned

vars == <<slot, pending, stop, pc, frame, notifying, cache, main, restart, lives,
          offered, since>>

Init ==
  /\ slot = 0 /\ pending = FALSE /\ stop = FALSE
  /\ pc = "none" /\ frame = 0
  /\ notifying = FALSE
  /\ cache = << >>
  /\ main = "stopped" /\ restart = FALSE /\ lives = 0
  /\ offered = 0 /\ since = 0

-----------------------------------------------------------------------------
(***************************************************************************)
(* EnqueueDepthDerivedFrame, at any time: a callback may still be in       *)
(* flight when Stop has stopped the subscriptions.                         *)
(***************************************************************************)
\* Mutated form of Replaced: a frame that waits is not overwritten.
ReplacedNot(n) == IF pending THEN slot ELSE n

Replaced(n) == n

Enqueue ==
  /\ offered < MaxFrames /\ ~notifying
  /\ offered' = offered + 1
  /\ IF stop THEN UNCHANGED <<slot, pending, notifying>>
     ELSE /\ slot' = Replaced(offered + 1)
          /\ pending' = TRUE
          /\ notifying' = TRUE
  /\ UNCHANGED <<stop, pc, frame, cache, main, restart, lives, since>>

NotifyOne ==
  /\ notifying
  /\ notifying' = FALSE
  /\ pc' = IF pc = "wait" THEN "look" ELSE pc
  /\ UNCHANGED <<slot, pending, stop, frame, cache, main, restart, lives, offered, since>>

-----------------------------------------------------------------------------
(***************************************************************************)
(* DepthDerivedWorkerLoop.                                                 *)
(***************************************************************************)
Goes(place) ==
  /\ pc' = place
  /\ UNCHANGED <<slot, stop, notifying, main, restart, lives, offered, since>>

\* Mutated form of Sleep: cv.wait without a predicate.
SleepUnchecked ==
  /\ pc = "look" /\ ~stop
  /\ Goes("wait")
  /\ UNCHANGED <<pending, frame, cache>>

Sleep ==
  /\ pc = "look" /\ ~stop /\ ~pending
  /\ Goes("wait")
  /\ UNCHANGED <<pending, frame, cache>>

WakeSpuriously ==
  /\ pc = "wait"
  /\ Goes("look")
  /\ UNCHANGED <<pending, frame, cache>>

Take ==
  /\ pc = "look" /\ ~stop /\ pending
  /\ frame' = slot
  /\ pending' = FALSE
  /\ Goes("derive")
  /\ UNCHANGED cache

Cached(n) ==
  IF Len(cache) = CacheSize THEN Append(Tail(cache), n) ELSE Append(cache, n)

(***************************************************************************)
(* GeneratePanoramaDepth: the SDK may refuse the frame.                    *)
(***************************************************************************)
Derive ==
  /\ pc = "derive"
  /\ cache' \in {cache, Cached(frame)}
  /\ Goes("publish")
  /\ UNCHANGED <<pending, frame>>

Publish ==
  /\ pc = "publish"
  /\ Goes("look")
  /\ UNCHANGED <<pending, frame, cache>>

\* Mutated form of Return: the wait is left only for a frame.
ReturnIdle ==
  /\ pc = "look" /\ stop /\ pending
  /\ Goes("returned")
  /\ UNCHANGED <<pending, frame, cache>>

Return ==
  /\ pc = "look" /\ stop
  /\ Goes("returned")
  /\ UNCHANGED <<pending, frame, cache>>

Work == Sleep \/ Take \/ Derive \/ Publish \/ Return

-----------------------------------------------------------------------------
(***************************************************************************)
(* Start clears the cache, then restarts the worker.  Stop clears the      *)
(* cache before it stops the worker, which may still add a frame to it.    *)
(***************************************************************************)
\* Mutated form of BeginStart: Start relies on the clearing that Stop did.
BeginStartTrusting ==
  /\ main = "stopped" /\ lives < MaxLives
  /\ main' = "clear" /\ restart' = TRUE
  /\ UNCHANGED <<slot, pending, stop, pc, frame, notifying, cache, lives, offered, since>>

BeginStart ==
  /\ main = "stopped" /\ lives < MaxLives
  /\ main' = "clear" /\ restart' = TRUE
  /\ cache' = << >>
  /\ UNCHANGED <<slot, pending, stop, pc, frame, notifying, lives, offered, since>>

BeginStop ==
  /\ main = "started"
  /\ main' = "clear" /\ restart' = FALSE
  /\ cache' = << >>
  /\ UNCHANGED <<slot, pending, stop, pc, frame, notifying, lives, offered, since>>

Close ==
  /\ main = "clear"
  /\ main' = "closed"
  /\ stop' = TRUE /\ pending' = FALSE
  /\ UNCHANGED <<slot, pc, frame, notifying, cache, restart, lives, offered, since>>

NotifyAll ==
  /\ main = "closed"
  /\ main' = "joining"
  /\ pc' = IF pc = "wait" THEN "look" ELSE pc
  /\ UNCHANGED <<slot, pending, stop, frame, notifying, cache, restart, lives, offered, since>>

Joined ==
  /\ main = "joining" /\ pc \in {"none", "returned"}
  /\ main' = IF restart THEN "opening" ELSE "stopped"
  /\ pc' = "none"
  /\ stop' = FALSE
  /\ UNCHANGED <<slot, pending, frame, notifying, cache, restart, lives, offered, since>>

Open ==
  /\ main = "opening"
  /\ main' = "started"
  /\ lives' = lives + 1
  /\ stop' = FALSE /\ pending' = FALSE
  /\ pc' = "look"
  /\ since' = offered
  /\ UNCHANGED <<slot, frame, notifying, cache, restart, offered>>

Next ==
  \/ Enqueue \/ NotifyOne
  \/ Work \/ WakeSpuriously
  \/ BeginStart \/ BeginStop \/ Close \/ NotifyAll \/ Joined \/ Open

Spec == Init /\ [][Next]_vars

(***************************************************************************)
(* Fairness: threads that can run do, and the SDK's derivations return.    *)
(* None of callbacks, of calls of Start and Stop, or of spurious wakeups.  *)
(***************************************************************************)
Fairness ==
  /\ WF_vars(Work) /\ WF_vars(NotifyOne)
  /\ WF_vars(Close) /\ WF_vars(NotifyAll) /\ WF_vars(Joined) /\ WF_vars(Open)

FairSpec == Spec /\ Fairness

-----------------------------------------------------------------------------
(***************************************************************************)
(* The slot keeps the promise of DropOldest with a depth of one: the       *)
(* worker starts frames in order, none twice, and when it is free it takes *)
(* the latest.                                                             *)
(***************************************************************************)
Promise == INSTANCE DropOldest WITH
  Depth <- 1, open <- ~stop,
  waiting <- IF pending THEN {slot} ELSE {},
  running <- IF pc \in {"derive", "publish"} THEN {frame} ELSE {}

Refines == Promise!Spec

(***************************************************************************)
(* While the bridge runs, the panorama is never stitched with a depth of   *)
(* an earlier connection, although a worker may outlive the clearing of    *)
(* the cache in Stop; and the cache is bounded, in the order of the frames.*)
(***************************************************************************)
CacheIsCurrent ==
  /\ Len(cache) <= CacheSize
  /\ main = "started" =>
       \A i \in DOMAIN cache :
         /\ cache[i] > since
         /\ \A j \in DOMAIN cache : i < j => cache[i] < cache[j]

(***************************************************************************)
(* No wakeup is lost: the latest frame is taken by the worker unless it is *)
(* stopped, without another frame to help it along.                        *)
(***************************************************************************)
LatestTaken ==
  \A n \in 1 .. MaxFrames :
    (main = "started" /\ pending /\ slot = n)
      ~> (frame = n \/ main # "started" \/ offered > n)

(***************************************************************************)
(* Stop and Start return.                                                  *)
(***************************************************************************)
StopReturns == main \in {"clear", "closed", "joining"} ~> main \in {"stopped", "started"}
=============================================================================
