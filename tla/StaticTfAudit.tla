---------------------------- MODULE StaticTfAudit ---------------------------
(***************************************************************************)
(* The registry fed by a ROS graph in which anybody may publish anything:  *)
(* static records of any publisher in any order and any number of times    *)
(* (/tf_static is latched, publishers restart), dynamic ones, and the      *)
(* bridge's own seeds.  The history is what was actually heard.            *)
(***************************************************************************)
EXTENDS StaticTfRegistry

CONSTANT MaxHeard   \* bound: different announcements in one behaviour

ASSUME MaxHeardAssumption == MaxHeard \in Nat

VARIABLES
  audited,    \* the registry
  told,       \* <<record, owner>> pairs given to Observe
  moving,     \* children given to ObserveDynamic
  lost        \* <<parent, child>> pairs that resolved once and then did not

auditVars == <<audited, told, moving, lost>>

AuditInit ==
  /\ audited = EmptyRegistry
  /\ told = {}
  /\ moving = {}
  /\ lost = {}

Remember ==
  lost' = lost \cup {pc \in Frames \X Frames :
                       /\ Resolves(audited, pc[1], pc[2])
                       /\ ~Resolves(audited', pc[1], pc[2])}

Within(n) == Cardinality(told) + Cardinality(moving) <= n

Observe(r, owner) ==
  /\ audited' = Observed(audited, r, owner)
  /\ told' = told \cup {<<r, owner>>}
  /\ UNCHANGED moving
  /\ Within(MaxHeard)'
  /\ Remember

ObserveDynamic(c) ==
  /\ audited' = ObservedDynamic(audited, c)
  /\ moving' = moving \cup {c}
  /\ UNCHANGED told
  /\ Within(MaxHeard)'
  /\ Remember

AuditNext ==
  \/ \E r \in Record, owner \in Authority : Observe(r, owner)
  \/ \E c \in Frames : ObserveDynamic(c)

AuditSpec == AuditInit /\ [][AuditNext]_auditVars

-----------------------------------------------------------------------------
(***************************************************************************)
(* Type correctness; both tables of the registry are bounded.              *)
(***************************************************************************)
AuditTypeOK ==
  /\ IsRegistry(audited)
  /\ Cardinality(Known(audited)) <= Capacity
  /\ Cardinality(audited.dynamic) <= Capacity
  /\ told \subseteq Record \X Authority
  /\ moving \subseteq Frames
  /\ lost \subseteq Frames \X Frames

(***************************************************************************)
(* Two announcements of one child that cannot both be right: different     *)
(* transforms, or the same one from two publishers.                        *)
(***************************************************************************)
Disagree(a, b) ==
  /\ a[1].child = b[1].child
  /\ \/ a[1] # b[1]
     \/ a[2] # Local /\ b[2] # Local /\ a[2] # b[2]

Contested(c) ==
  \E a, b \in told : a[1].child = c /\ (~Valid(a[1]) \/ Disagree(a, b))

(***************************************************************************)
(* The conflict flag is exact: it is set if and only if what was heard of  *)
(* the child is contradictory, whatever the order in which the records,    *)
(* the local seed and repetitions arrived.  StaticTfRegistry::Observe,     *)
(* which keeps one record and one authority per child.                     *)
(***************************************************************************)
ConflictExact ==
  \A c \in Known(audited) : audited.entries[c].conflict <=> Contested(c)

(***************************************************************************)
(* "Installation and sensor snapshots never silently hot-reload": while a  *)
(* path resolves, nothing that arrives may change what it resolves to.     *)
(* robot_tf_session.hpp:18, StaticTfRegistry::Resolve.                     *)
(***************************************************************************)
NoHotReload ==
  [][\A p, c \in Frames :
       Resolves(audited, p, c) /\ Resolves(audited', p, c)
         => Resolved(audited, p, c) = Resolved(audited', p, c)]_auditVars

(***************************************************************************)
(* "Duplicate publishers or changing paths pause robot outputs"            *)
(* (docs/TF.md): the pause is for good.  A path that resolved and stopped  *)
(* resolving never resolves again, so no consumer can lose a restart or a  *)
(* conflict by being late.                                                 *)
(***************************************************************************)
PauseIsFinal ==
  \A pc \in lost : ~Resolves(audited, pc[1], pc[2])

(***************************************************************************)
(* The audit gives up only when it must: "static TF audit exceeds 4096     *)
(* frames" (robot_tf.cpp:231) is reported only after more than Capacity    *)
(* children were heard in one of the two tables.                           *)
(***************************************************************************)
OverflowOnlyWhenExceeded ==
  audited.overflow =>
    \/ Cardinality({a[1].child : a \in told}) > Capacity
    \/ Cardinality(moving) > Capacity

(***************************************************************************)
(* The breadth-first search of StaticTfRegistry::Resolve finds the one     *)
(* path of the forest and refuses exactly when that path is contested or   *)
(* hangs in a cycle, whatever was heard: Resolves and Resolved describe it.*)
(***************************************************************************)
SearchIsExact ==
  \A p, c \in Frames :
    /\ SearchResolves(audited, p, c) <=> Resolves(audited, p, c)
    /\ Resolves(audited, p, c) /\ p # c =>
         Search(audited, p)[c] = PathEdges(ParentOf(audited), p, c)
=============================================================================
