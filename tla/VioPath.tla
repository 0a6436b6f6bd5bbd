------------------------------- MODULE VioPath ------------------------------
(***************************************************************************)
(* The optimized path: AppendVioOdometryToPath of                          *)
(* frame_conversions_ros2.cpp and the last part of PublishVio, which       *)
(* publishes a copy of it at a limited rate.  The path takes every         *)
(* optimized odometry, those the pose gate refuses included.               *)
(***************************************************************************)
EXTENDS SteadyClock, Sequences

CONSTANTS
  Poses,      \* odometry: records [stamp, frame], NoFrame for an empty frame_id
  NoFrame,
  MaxPoses,   \* vio_path_max_poses, at least 1 after LoadConfig
  PathPeriod, \* 1 / vio_path_publish_rate_hz, 0 when the rate is not limited
  MaxReceived \* bound: odometry messages

ASSUME VioPathAssumption ==
  /\ \A p \in Poses : p.stamp \in Nat
  /\ MaxPoses \in Nat \ {0}
  /\ PathPeriod \in Nat /\ MaxReceived \in Nat

VARIABLES
  path,        \* vio_path_
  last,        \* last_vio_path_publish_time_
  sent,        \* history: <<time, path>> of each published path
  arrived,     \* history: time of the latest odometry with a frame
  received     \* history: odometry with a frame, in order

pathVars == <<path, last, sent, arrived, received>>

PathInit ==
  /\ path = << >> /\ last = Never
  /\ sent = << >> /\ arrived = Never /\ received = << >>

-----------------------------------------------------------------------------
(***************************************************************************)
(* The path's header is that of its last pose: frame_changed and           *)
(* timestamp_rolled_back both look at the pose before.                     *)
(***************************************************************************)
Broken(p) ==
  /\ path # << >>
  /\ p.frame # path[Len(path)].frame \/ p.stamp < path[Len(path)].stamp

\* Mutated form of Appended: the trim keeps the oldest poses.
AppendedOldest(p) ==
  LET q == Append(IF Broken(p) THEN << >> ELSE path, p)
  IN  IF Len(q) > MaxPoses THEN SubSeq(q, 1, MaxPoses) ELSE q

Appended(p) ==
  LET q == Append(IF Broken(p) THEN << >> ELSE path, p)
  IN  IF Len(q) > MaxPoses THEN Tail(q) ELSE q

\* Mutated form of PathDue: the period is not waited for.
PathDueAlways == last = Never \/ now >= last

\* Mutated form of PathDue: the period counts from the latest odometry.
PathDueQuiet == PathPeriod = 0 \/ Elapsed(arrived, PathPeriod)

PathDue == PathPeriod = 0 \/ Elapsed(last, PathPeriod)

Receive(p) ==
  /\ Len(received) < MaxReceived
  /\ p.frame # NoFrame
  /\ path' = Appended(p)
  /\ received' = Append(received, p) /\ arrived' = now
  /\ IF PathDue THEN last' = now /\ sent' = Append(sent, <<now, Appended(p)>>)
                ELSE UNCHANGED <<last, sent>>

Refuse(p) == p.frame = NoFrame /\ UNCHANGED pathVars

NewPath ==
  /\ path' = << >> /\ last' = Never
  /\ sent' = << >> /\ arrived' = Never /\ received' = << >>

-----------------------------------------------------------------------------
OneRun(s) ==
  \A i \in 1 .. Len(s) - 1 : s[i].frame = s[i + 1].frame /\ s[i].stamp <= s[i + 1].stamp

SuffixFrom(i) == SubSeq(received, i, Len(received))

(***************************************************************************)
(* The path is the longest end of what was received that has one frame,    *)
(* never runs backwards in time and is within the limit: a reset loses     *)
(* nothing it need not lose and the trim takes the oldest.                 *)
(***************************************************************************)
PathIsLongestRun ==
  received # << >> =>
    \E i \in 1 .. Len(received) :
      /\ path = SuffixFrom(i)
      /\ OneRun(path) /\ Len(path) <= MaxPoses
      /\ i > 1 => Len(path) = MaxPoses \/ ~OneRun(SuffixFrom(i - 1))

(***************************************************************************)
(* No two paths are published less than a period apart, resets of the path *)
(* in between included, and the rate costs no more than that: the first    *)
(* odometry is published at once, and while what was published last is not *)
(* the present path, it is less than a period older than the latest        *)
(* odometry.                                                               *)
(***************************************************************************)
RateKept ==
  /\ \A i \in 1 .. Len(sent) - 1 : sent[i + 1][1] - sent[i][1] >= PathPeriod
  /\ received # << >> =>
       /\ sent # << >> /\ sent[1][2] = <<received[1]>>
       /\ sent[Len(sent)][2] = path \/ arrived - sent[Len(sent)][1] < PathPeriod
=============================================================================
