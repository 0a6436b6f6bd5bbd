------------------------------ MODULE PoseGate ------------------------------
(***************************************************************************)
(* PoseTransformGate of src/orbvi_ros_bridge/src/transform_geometry.cpp:   *)
(* the filter in front of the dynamic transform.  Optimized pose samples   *)
(* reach it in any order, any number of times, from any life of the        *)
(* algorithm on the device; it decides which of them may move the robot.   *)
(*                                                                         *)
(* A life of the producer is named by its epoch (the boot_id:generation    *)
(* metadata).  Old devices send no epoch: NoEpoch.                         *)
(***************************************************************************)
EXTENDS Integers, Sequences, Functions

CONSTANTS
  Epochs,     \* identified lives of the producer
  NoEpoch,    \* a sample that carries neither boot_id nor generation
  Stamps,     \* sample timestamps, 0 being the invalid one
  Numbers,    \* sequence numbers
  Retain      \* retired epochs the gate remembers (16 in the code)

ASSUME GateAssumption ==
  /\ NoEpoch \notin Epochs
  /\ Stamps \subseteq Nat
  /\ Numbers \subseteq Nat
  /\ Retain \in Nat \ {0}

VARIABLES
  timestamp,  \* stamp of the last accepted sample, 0 before the first
  sequence,   \* its number
  epoch,      \* last identified epoch
  retired     \* epochs left behind, oldest first

gateVars == <<timestamp, sequence, epoch, retired>>

(***************************************************************************)
(* fit: realtime clock domain, timestamp_valid not "false", and no         *)
(* tracking_state other than TRACKING.  A sample that is not numbered      *)
(* still leaves a number behind: 0 when the metadata is absent, the digits *)
(* parsed so far when it is malformed.                                     *)
(***************************************************************************)
Sample == [stamp : Stamps, fit : BOOLEAN, epoch : Epochs \cup {NoEpoch},
           numbered : BOOLEAN, number : Numbers]

GateInit ==
  /\ timestamp = 0
  /\ sequence = 0
  /\ epoch = NoEpoch
  /\ retired = << >>

OpensEpoch(s) == s.epoch # NoEpoch /\ s.epoch # epoch

RepeatsNumber(s) ==
  /\ s.numbered
  /\ timestamp # 0
  /\ \/ s.number = sequence
     \/ s.epoch # NoEpoch /\ s.number < sequence

\* Mutated forms of Fresh: numbered samples are trusted to order themselves;
\* a retired epoch is only refused while it is the latest one retired; numbers
\* are compared for equality only.
FreshByNumber(s) ==
  IF OpensEpoch(s)
    THEN s.epoch \notin Range(retired)
    ELSE (s.numbered \/ s.stamp > timestamp) /\ ~RepeatsNumber(s)

FreshForgetful(s) ==
  IF OpensEpoch(s)
    THEN retired # << >> => s.epoch # retired[Len(retired)]
    ELSE s.stamp > timestamp /\ ~RepeatsNumber(s)

FreshUnequal(s) ==
  IF OpensEpoch(s)
    THEN s.epoch \notin Range(retired)
    ELSE s.stamp > timestamp /\ (s.numbered => s.number # sequence)

Fresh(s) ==
  IF OpensEpoch(s)
    THEN s.epoch \notin Range(retired)
    ELSE s.stamp > timestamp /\ ~RepeatsNumber(s)

Accepts(s) == s.stamp # 0 /\ s.fit /\ Fresh(s)

(***************************************************************************)
(* The *changed result of Accept: the consumer must assume that the        *)
(* producer restarted and that its world frame moved.                      *)
(***************************************************************************)
ReportsChange(s) ==
  IF OpensEpoch(s) THEN timestamp # 0 ELSE s.numbered /\ s.number < sequence

\* Mutated forms of Retire: the memory is never trimmed; it is trimmed at the
\* wrong end.
RetireUnbounded == IF epoch = NoEpoch THEN retired ELSE Append(retired, epoch)

RetireNewest ==
  IF epoch = NoEpoch THEN retired
  ELSE IF Len(retired) = Retain THEN [retired EXCEPT ![Retain] = epoch]
  ELSE Append(retired, epoch)

Retire ==
  IF epoch = NoEpoch THEN retired
  ELSE IF Len(retired) = Retain THEN Append(Tail(retired), epoch)
  ELSE Append(retired, epoch)

Accept(s) ==
  /\ Accepts(s)
  /\ timestamp' = s.stamp
  /\ sequence' = s.number
  /\ epoch' = IF OpensEpoch(s) THEN s.epoch ELSE epoch
  /\ retired' = IF OpensEpoch(s) THEN Retire ELSE retired

Reject(s) == ~Accepts(s) /\ UNCHANGED gateVars

GateTypeOK ==
  /\ timestamp \in Stamps \cup {0}
  /\ sequence \in Numbers \cup {0}
  /\ epoch \in Epochs \cup {NoEpoch}
  /\ retired \in Seq(Epochs)
  /\ Len(retired) <= Retain
=============================================================================
