----------------------------- MODULE VioOutputs -----------------------------
(***************************************************************************)
(* What PublishVio (bridge_node_ros2.cpp) tells the user about every       *)
(* optimized odometry sample: the diagnostics of the transform, whose      *)
(* verdict ok is the modules PoseGate's and RobotTf's, and the path, which *)
(* takes refused samples too.  Start begins both anew, Stop only the path; *)
(* callbacks may still be in flight after either.                          *)
(***************************************************************************)
EXTENDS PoseDiagnostics, VioPath

vars == <<now, diagnosticsVars, pathVars>>

Init == now = 0 /\ DiagnosticsInit /\ PathInit

(***************************************************************************)
(* A transform without a parent frame is invalid.                          *)
(***************************************************************************)
Odometry(p, ok) ==
  /\ ok => p.frame # NoFrame
  /\ Observe(ok)
  /\ Receive(p) \/ Refuse(p)
  /\ UNCHANGED now

Start ==
  /\ NewDiagnostics
  /\ NewPath
  /\ UNCHANGED now

Stop == NewPath /\ UNCHANGED <<now, diagnosticsVars>>

Wait ==
  /\ Tick
  /\ report' = Silence
  /\ UNCHANGED <<last_report, healthy_since, accepted, rejected, failure_pending,
                 lastRejected, deserved, heard, reports, pathVars>>

Next == (\E p \in Poses, ok \in BOOLEAN : Odometry(p, ok)) \/ Start \/ Stop \/ Wait

Spec == Init /\ [][Next]_vars

(***************************************************************************)
(* Between one Start and the next the reports keep their rate, and between *)
(* two of Start and Stop the path keeps vio_path_publish_rate_hz; neither  *)
(* withholds what is due.  A Start begins both anew (bridge_node_ros2.cpp: *)
(* 434 and 444-447) and a Stop the path (492-496), so nothing is said      *)
(* of a report or a path before it and one after.                          *)
(***************************************************************************)
Paced == ReportsSpaced /\ NothingWithheld /\ RateKept
=============================================================================
