-------------------------- MODULE StaticTfRegistry --------------------------
(***************************************************************************)
(* StaticTfRegistry of src/orbvi_ros_bridge/src/robot_tf.cpp: the record   *)
(* of every static transform the bridge has heard of, who published it and *)
(* whether anything about it was ever contradicted.  It answers one        *)
(* question: is there a path of uncontested static transforms between two  *)
(* frames, and what is it?                                                 *)
(*                                                                         *)
(* A registry is a value here: the operators are its const and non-const   *)
(* member functions.  Geometry is abstract.  A transform's numbers are one *)
(* member of Values, equal up to the code's tolerance or not; a composed   *)
(* pose is the set of records along its path.                              *)
(***************************************************************************)
EXTENDS Integers, FiniteSets, Functions

CONSTANTS
  Frames,     \* frame names
  Values,     \* translation and rotation of a transform
  Malformed,  \* one that ValidTransform refuses
  Owners,     \* publishers, by publisher_gid (ROS2) or caller id (ROS1)
  Local,      \* "@local": seeded from the SDK or the configuration
  Capacity    \* 4096 in the code

ASSUME RegistryAssumption ==
  /\ Malformed \notin Values
  /\ Local \notin Owners
  /\ IsFiniteSet(Frames)
  /\ Capacity \in Nat \ {0}

Record == [child : Frames, parent : Frames, value : Values \cup {Malformed}]
Authority == Owners \cup {Local}
Entry == [record : Record, owner : Authority, conflict : BOOLEAN]

Valid(r) == r.parent # r.child /\ r.value # Malformed

EmptyRegistry ==
  [entries |-> [c \in {} |-> {}], dynamic |-> {}, overflow |-> FALSE]

Known(reg) == DOMAIN reg.entries
TracksStatic(reg, c) == c \in Known(reg)
HasChild(reg, c) == c \in Known(reg) \/ c \in reg.dynamic

IsRegistry(reg) ==
  /\ reg \in [entries : [Known(reg) -> Entry], dynamic : SUBSET Frames, overflow : BOOLEAN]
  /\ Known(reg) \subseteq Frames

-----------------------------------------------------------------------------
(***************************************************************************)
(* Observe: what a first and a repeated announcement of a child make of    *)
(* its entry.  The record of the first one is never replaced; a local seed *)
(* gives way to the first real publisher.                                  *)
(***************************************************************************)
\* Mutated forms of Contradicts: publishers are not told apart; the local seed
\* counts as one of them.
ContradictsByRecord(e, r, owner) == ~Valid(r) \/ e.record # r
ContradictsSeed(e, r, owner) == ~Valid(r) \/ e.record # r \/ e.owner # owner

Contradicts(e, r, owner) ==
  \/ ~Valid(r) \/ e.record # r
  \/ e.owner # Local /\ owner # Local /\ e.owner # owner

FirstEntry(r, owner) == [record |-> r, owner |-> owner, conflict |-> ~Valid(r)]

\* Mutated forms of NextEntry: the local seed keeps the entry; a later record
\* that agrees clears the flag; the latest record replaces the first one.
NextEntrySeedStays(e, r, owner) ==
  [e EXCEPT !.conflict = @ \/ Contradicts(e, r, owner)]

NextEntryForgives(e, r, owner) ==
  [record |-> e.record,
   owner |-> IF e.owner = Local THEN owner ELSE e.owner,
   conflict |-> Contradicts(e, r, owner)]

NextEntryReloads(e, r, owner) ==
  [record |-> r,
   owner |-> IF e.owner = Local THEN owner ELSE e.owner,
   conflict |-> e.conflict \/ ~Valid(r)]

NextEntry(e, r, owner) ==
  [record |-> e.record,
   owner |-> IF e.owner = Local THEN owner ELSE e.owner,
   conflict |-> e.conflict \/ Contradicts(e, r, owner)]

\* Mutated form of Observed: no limit on the number of children.
ObservedUnbounded(reg, r, owner) ==
  [reg EXCEPT !.entries =
     [c \in Known(reg) \cup {r.child} |->
        IF c # r.child THEN reg.entries[c]
        ELSE IF c \in Known(reg) THEN NextEntry(reg.entries[c], r, owner)
        ELSE FirstEntry(r, owner)]]

Observed(reg, r, owner) ==
  IF r.child \in Known(reg)
    THEN [reg EXCEPT !.entries[r.child] = NextEntry(@, r, owner)]
  ELSE IF Cardinality(Known(reg)) >= Capacity
    THEN [reg EXCEPT !.overflow = TRUE]
  ELSE [reg EXCEPT !.entries =
          [c \in Known(reg) \cup {r.child} |->
             IF c = r.child THEN FirstEntry(r, owner) ELSE reg.entries[c]]]

(***************************************************************************)
(* ObserveDynamic: a full set overflows even when the child is already in  *)
(* it.                                                                     *)
(***************************************************************************)
ObservedDynamic(reg, c) ==
  IF Cardinality(reg.dynamic) >= Capacity
    THEN [reg EXCEPT !.overflow = TRUE]
    ELSE [reg EXCEPT !.dynamic = @ \cup {c}]

-----------------------------------------------------------------------------
(***************************************************************************)
(* A forest given by its parent function: the frames at or above f are the *)
(* least set that contains f and with a frame its parent.  In a cycle no   *)
(* frame of it is without a parent.                                        *)
(***************************************************************************)
Lineages(parent, f) ==
  {S \in SUBSET ({f} \cup Range(parent)) :
     f \in S /\ \A g \in S \cap DOMAIN parent : parent[g] \in S}

AtOrAbove(parent, f) ==
  {g \in {f} \cup Range(parent) : \A S \in Lineages(parent, f) : g \in S}

Cyclic(parent, f) == AtOrAbove(parent, f) \subseteq DOMAIN parent

Joined(parent, p, c) == AtOrAbove(parent, p) \cap AtOrAbove(parent, c) # {}

(***************************************************************************)
(* The edges, named by their children, between two frames of one tree.     *)
(***************************************************************************)
PathEdges(parent, p, c) ==
  LET up == AtOrAbove(parent, p)
      vp == AtOrAbove(parent, c)
  IN  ((up \ vp) \cup (vp \ up)) \cap DOMAIN parent

ParentOf(reg) == [c \in Known(reg) |-> reg.entries[c].record.parent]

Clean(reg, c) == ~reg.entries[c].conflict /\ c \notin reg.dynamic

(***************************************************************************)
(* Resolve as the code computes it: a breadth-first search from the parent *)
(* over valid entries in both directions, then a check of every edge on    *)
(* the path found, the ancestors of each edge included.                    *)
(***************************************************************************)
SearchEdges(reg) == {e \in Known(reg) : Valid(reg.entries[e].record)}

Ends(reg, e) == {e, reg.entries[e].record.parent}

Via(reg, seen, f) ==
  {eg \in SearchEdges(reg) \X DOMAIN seen : Ends(reg, eg[1]) = {f, eg[2]}}

Widened(reg, seen) ==
  LET next == {f \in Frames \ DOMAIN seen : Via(reg, seen, f) # {}}
  IN  [f \in DOMAIN seen \cup next |->
         IF f \in DOMAIN seen THEN seen[f]
         ELSE LET eg == CHOOSE x \in Via(reg, seen, f) : TRUE
              IN  seen[eg[2]] \cup {eg[1]}]

Search(reg, p) ==
  LET last == Cardinality(SearchEdges(reg))
      reach[n \in 0 .. last] ==
        IF n = 0 THEN [f \in {p} |-> {}] ELSE Widened(reg, reach[n - 1])
  IN  reach[last]

\* Mutated form of SearchResolves: a cycle is not looked for.
SearchResolvesCycles(reg, p, c) ==
  LET paths == Search(reg, p)
  IN  ~reg.overflow /\ c \in DOMAIN paths /\ \A e \in paths[c] : Clean(reg, e)

SearchResolves(reg, p, c) ==
  LET paths == Search(reg, p)
  IN  /\ ~reg.overflow
      /\ c \in DOMAIN paths
      /\ \A e \in paths[c] : Clean(reg, e) /\ ~Cyclic(ParentOf(reg), e)

(***************************************************************************)
(* The same answer without the search, which the rest of the project uses: *)
(* in a forest the path is the only one, and an edge that is not valid is  *)
(* contested since it was first heard.                                     *)
(***************************************************************************)
Resolves(reg, p, c) ==
  /\ ~reg.overflow
  /\ \/ p = c
     \/ LET parent == ParentOf(reg)
        IN  /\ ~Cyclic(parent, p) /\ ~Cyclic(parent, c)
            /\ Joined(parent, p, c)
            /\ \A e \in PathEdges(parent, p, c) : Clean(reg, e)

Resolved(reg, p, c) ==
  {reg.entries[e].record : e \in PathEdges(ParentOf(reg), p, c)}
=============================================================================
