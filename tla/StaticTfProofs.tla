--------------------------- MODULE StaticTfProofs ---------------------------
(***************************************************************************)
(* The static TF audit for every set of frames, transforms and publishers, *)
(* every capacity and every sequence of announcements.  The first part is  *)
(* about the operators of the registry alone: what Observe does to it, and *)
(* what growing does to its paths.                                         *)
(***************************************************************************)
EXTENDS StaticTfAudit, FiniteSetTheorems, WellFoundedInduction, TLAPS

(***************************************************************************)
(* A registry is its three fields, and both of its tables are finite.      *)
(***************************************************************************)
LEMMA RegistryFields ==
  ASSUME NEW reg, IsRegistry(reg)
  PROVE  /\ Known(reg) \subseteq Frames
         /\ reg.entries \in [Known(reg) -> Entry]
         /\ reg.dynamic \subseteq Frames
         /\ reg.overflow \in BOOLEAN
         /\ reg = [entries |-> reg.entries, dynamic |-> reg.dynamic,
                   overflow |-> reg.overflow]
         /\ IsFiniteSet(Known(reg)) /\ IsFiniteSet(reg.dynamic)
<1>1. /\ reg.dynamic \subseteq Frames
      /\ reg.overflow \in BOOLEAN
      /\ reg = [entries |-> reg.entries, dynamic |-> reg.dynamic,
                overflow |-> reg.overflow]
      /\ reg.entries \in [Known(reg) -> Entry]
      /\ Known(reg) \subseteq Frames
  BY DEF IsRegistry
<1>2. IsFiniteSet(Known(reg)) /\ IsFiniteSet(reg.dynamic)
  BY <1>1, RegistryAssumption, FS_Subset
<1> QED BY <1>1, <1>2

(***************************************************************************)
(* Observe of a known child replaces its entry and touches no other.       *)
(***************************************************************************)
LEMMA ObserveAgain ==
  ASSUME NEW reg, IsRegistry(reg), NEW r \in Record, NEW owner \in Authority,
         r.child \in Known(reg)
  PROVE  LET after == Observed(reg, r, owner)
         IN  /\ IsRegistry(after)
             /\ Known(after) = Known(reg)
             /\ after.entries[r.child] = NextEntry(reg.entries[r.child], r, owner)
             /\ \A c \in Known(reg) \ {r.child} : after.entries[c] = reg.entries[c]
             /\ after.dynamic = reg.dynamic /\ after.overflow = reg.overflow
<1> DEFINE after == Observed(reg, r, owner)
           ent == [reg.entries EXCEPT ![r.child] = NextEntry(@, r, owner)]
<1>1. after = [reg EXCEPT !.entries = ent]
  BY RegistryFields DEF Observed, IsRegistry
<1>2. NextEntry(reg.entries[r.child], r, owner) \in Entry
  BY RegistryFields DEF NextEntry, Entry
<1>3. ent \in [Known(reg) -> Entry]
  BY <1>2, RegistryFields
<1>4. after = [entries |-> ent, dynamic |-> reg.dynamic, overflow |-> reg.overflow]
  BY <1>1, RegistryFields
<1>5. Known(after) = Known(reg)
  BY <1>3, <1>4 DEF Known
<1>6. IsRegistry(after)
  BY <1>3, <1>4, <1>5, RegistryFields DEF IsRegistry
<1> QED BY <1>3, <1>4, <1>5, <1>6, RegistryFields

(***************************************************************************)
(* Observe of a child that finds no room only raises the overflow flag.    *)
(***************************************************************************)
LEMMA ObserveFull ==
  ASSUME NEW reg, IsRegistry(reg), NEW r \in Record, NEW owner \in Authority,
         r.child \notin Known(reg), Cardinality(Known(reg)) >= Capacity
  PROVE  LET after == Observed(reg, r, owner)
         IN  /\ IsRegistry(after)
             /\ Known(after) = Known(reg)
             /\ after.entries = reg.entries
             /\ after.dynamic = reg.dynamic
BY RegistryFields DEF Observed, IsRegistry, Known

(***************************************************************************)
(* Observe of a new child adds its entry and touches no other.             *)
(***************************************************************************)
LEMMA ObserveFirst ==
  ASSUME NEW reg, IsRegistry(reg), NEW r \in Record, NEW owner \in Authority,
         r.child \notin Known(reg), ~(Cardinality(Known(reg)) >= Capacity)
  PROVE  LET after == Observed(reg, r, owner)
         IN  /\ IsRegistry(after)
             /\ Known(after) = Known(reg) \cup {r.child}
             /\ after.entries[r.child] = FirstEntry(r, owner)
             /\ \A c \in Known(reg) : after.entries[c] = reg.entries[c]
             /\ after.dynamic = reg.dynamic /\ after.overflow = reg.overflow
<1> DEFINE after == Observed(reg, r, owner)
           known == Known(reg) \cup {r.child}
           ent == [c \in known |->
                     IF c = r.child THEN FirstEntry(r, owner) ELSE reg.entries[c]]
<1>1. after = [reg EXCEPT !.entries = ent]
  BY DEF Observed
<1>2. FirstEntry(r, owner) \in Entry
  BY DEF FirstEntry, Entry, Valid
<1>3. ent \in [known -> Entry] /\ known \in SUBSET Frames
  BY <1>2, RegistryFields DEF Record
<1>4. after = [entries |-> ent, dynamic |-> reg.dynamic, overflow |-> reg.overflow]
  BY <1>1, RegistryFields
<1>5. Known(after) = known
  BY <1>3, <1>4 DEF Known
<1>6. IsRegistry(after)
  BY <1>3, <1>4, <1>5, RegistryFields DEF IsRegistry
<1> QED BY <1>3, <1>4, <1>5, <1>6, RegistryFields

-----------------------------------------------------------------------------
(***************************************************************************)
(* What is at or above a frame: the frame, its parents, and nothing that a *)
(* set closed under "parent of" can do without.                            *)
(***************************************************************************)
LEMMA Above ==
  ASSUME NEW P, NEW f
  PROVE  /\ f \in AtOrAbove(P, f)
         /\ \A g \in AtOrAbove(P, f) \cap DOMAIN P : P[g] \in AtOrAbove(P, f)
         /\ AtOrAbove(P, f) \subseteq {f} \cup Range(P)
BY DEF AtOrAbove, Lineages, Range

(***************************************************************************)
(* What is at or above a frame lies in every set that holds the frame and  *)
(* the parent of each of its members.                                      *)
(***************************************************************************)
LEMMA AboveLeast ==
  ASSUME NEW P, NEW f, NEW S, f \in S, \A g \in S \cap DOMAIN P : P[g] \in S
  PROVE  AtOrAbove(P, f) \subseteq S
<1> DEFINE L == S \cap ({f} \cup Range(P))
<1>1. L \in Lineages(P, f)
  BY DEF Lineages, Range
<1> QED BY <1>1 DEF AtOrAbove

(***************************************************************************)
(* What is above a frame above f is above f.                               *)
(***************************************************************************)
LEMMA AboveAbove ==
  ASSUME NEW P, NEW f, NEW g \in AtOrAbove(P, f)
  PROVE  AtOrAbove(P, g) \subseteq AtOrAbove(P, f)
BY Above, AboveLeast

(***************************************************************************)
(* Above a frame with a parent is what is above the parent; a frame        *)
(* without one is a root.                                                  *)
(***************************************************************************)
LEMMA AboveParent ==
  ASSUME NEW P, NEW f
  PROVE  /\ f \in DOMAIN P => AtOrAbove(P, f) \subseteq {f} \cup AtOrAbove(P, P[f])
         /\ f \notin DOMAIN P => AtOrAbove(P, f) = {f}
<1>1. CASE f \in DOMAIN P
  <2> DEFINE S == {f} \cup AtOrAbove(P, P[f])
  <2>1. \A g \in S \cap DOMAIN P : P[g] \in S
    BY Above
  <2>2. f \in S
    OBVIOUS
  <2>3. AtOrAbove(P, f) \subseteq S
    <3> HIDE DEF S
    <3> QED BY <2>1, <2>2, AboveLeast
  <2> QED BY <1>1, <2>3
<1>2. CASE f \notin DOMAIN P
  <2>1. AtOrAbove(P, f) \subseteq {f}
    BY <1>2, AboveLeast
  <2> QED BY <1>2, <2>1, Above
<1> QED BY <1>1, <1>2

(***************************************************************************)
(* A line of ancestors: of two frames above f one is above the other.      *)
(***************************************************************************)
LEMMA AboveLinear ==
  ASSUME NEW P, NEW f, NEW g \in AtOrAbove(P, f), NEW h \in AtOrAbove(P, f)
  PROVE  h \in AtOrAbove(P, g) \/ g \in AtOrAbove(P, h)
<1> DEFINE A(x) == AtOrAbove(P, x)
           S == {x \in A(f) : \A y \in A(f) : y \in A(x) \/ x \in A(y)}
<1>1. f \in S
  BY Above
<1>2. ASSUME NEW x \in S \cap DOMAIN P
      PROVE  P[x] \in S
  <2>1. P[x] \in A(f)
    BY Above
  <2>2. ASSUME NEW y \in A(f)
        PROVE  y \in A(P[x]) \/ P[x] \in A(y)
    <3>1. CASE x \in A(y)
      BY <3>1, Above
    <3>2. CASE y \in A(x)
      <4>1. y = x \/ y \in A(P[x])
        BY <3>2, AboveParent
      <4>2. P[x] \in A(x)
        BY Above
      <4> QED BY <4>1, <4>2
    <3> QED BY <3>1, <3>2
  <2> QED BY <2>1, <2>2
<1>3. AtOrAbove(P, f) \subseteq S
  <2> HIDE DEF S
  <2> QED BY <1>1, <1>2, AboveLeast
<1> QED BY <1>3

(***************************************************************************)
(* A line that is not a cycle ends in one root, which is above all of it.  *)
(***************************************************************************)
LEMMA RootAboveAll ==
  ASSUME NEW P, NEW f, NEW r \in AtOrAbove(P, f), r \notin DOMAIN P
  PROVE  \A g \in AtOrAbove(P, f) : r \in AtOrAbove(P, g)
<1>1. AtOrAbove(P, r) = {r}
  BY AboveParent
<1> QED BY <1>1, AboveLinear, Above

(***************************************************************************)
(* A line of ancestors ends in at most one frame without a parent.         *)
(***************************************************************************)
LEMMA OneRoot ==
  ASSUME NEW P, NEW f, NEW r \in AtOrAbove(P, f), r \notin DOMAIN P,
         NEW q \in AtOrAbove(P, f), q \notin DOMAIN P
  PROVE  q = r
<1>1. r \in AtOrAbove(P, q) /\ AtOrAbove(P, q) = {q}
  BY RootAboveAll, AboveParent
<1> QED BY <1>1

(***************************************************************************)
(* A frame with a parent is not above its parent, outside of a cycle.      *)
(***************************************************************************)
LEMMA ParentNotBelow ==
  ASSUME NEW P, NEW f \in DOMAIN P, ~Cyclic(P, P[f])
  PROVE  f \notin AtOrAbove(P, P[f])
<1> SUFFICES ASSUME f \in AtOrAbove(P, P[f])
             PROVE  FALSE
  OBVIOUS
<1> DEFINE A == AtOrAbove(P, P[f])
           S == {x \in A : f \in AtOrAbove(P, x)}
<1>1. P[f] \in S
  BY Above
<1>2. ASSUME NEW x \in S \cap DOMAIN P
      PROVE  P[x] \in S
  <2>1. P[x] \in A
    BY Above
  <2>2. f \in AtOrAbove(P, P[x])
    BY <1>2, AboveParent
  <2> QED BY <2>1, <2>2
<1>3. A \subseteq S
  <2> HIDE DEF S
  <2> QED BY <1>1, <1>2, AboveLeast
<1>4. PICK r \in A : r \notin DOMAIN P
  BY DEF Cyclic
<1>5. f \in AtOrAbove(P, r) /\ AtOrAbove(P, r) = {r}
  BY <1>3, <1>4, AboveParent
<1> QED BY <1>4, <1>5

-----------------------------------------------------------------------------
(***************************************************************************)
(* A forest that grows: known frames keep their parents.                   *)
(***************************************************************************)
Extends(Q, P) == DOMAIN P \subseteq DOMAIN Q /\ \A g \in DOMAIN P : Q[g] = P[g]

(***************************************************************************)
(* New parents only add ancestors.                                         *)
(***************************************************************************)
LEMMA AboveGrows ==
  ASSUME NEW P, NEW Q, Extends(Q, P), NEW f
  PROVE  AtOrAbove(P, f) \subseteq AtOrAbove(Q, f)
<1>1. \A g \in AtOrAbove(Q, f) \cap DOMAIN P : P[g] \in AtOrAbove(Q, f)
  BY Above DEF Extends
<1> QED BY <1>1, Above, AboveLeast

(***************************************************************************)
(* A cycle stays one.                                                      *)
(***************************************************************************)
LEMMA CycleStays ==
  ASSUME NEW P, NEW Q, Extends(Q, P), NEW f, Cyclic(P, f)
  PROVE  Cyclic(Q, f)
<1> DEFINE S == AtOrAbove(P, f)
<1>1. f \in S /\ S \subseteq DOMAIN P /\ \A g \in S \cap DOMAIN P : P[g] \in S
  BY Above DEF Cyclic
<1>2. \A g \in S \cap DOMAIN Q : Q[g] \in S
  BY <1>1 DEF Extends
<1>3. AtOrAbove(Q, f) \subseteq S
  BY <1>1, <1>2, AboveLeast
<1> QED BY <1>1, <1>3 DEF Cyclic, Extends

(***************************************************************************)
(* What comes on top of a line starts at its root, and only there does it  *)
(* meet the line, unless it closes a cycle.                                *)
(***************************************************************************)
LEMMA GrowsAtRoot ==
  ASSUME NEW P, NEW Q, Extends(Q, P), NEW f,
         NEW r \in AtOrAbove(P, f), r \notin DOMAIN P, ~Cyclic(Q, f)
  PROVE  /\ AtOrAbove(Q, f) = AtOrAbove(P, f) \cup AtOrAbove(Q, r)
         /\ AtOrAbove(Q, r) \cap AtOrAbove(P, f) = {r}
<1> DEFINE A == AtOrAbove(P, f)
           W == AtOrAbove(Q, r)
<1>1. A \subseteq AtOrAbove(Q, f)
  BY AboveGrows
<1>2. W \subseteq AtOrAbove(Q, f)
  BY <1>1, AboveAbove
<1>3. AtOrAbove(Q, f) \subseteq A \cup W
  <2> DEFINE S == A \cup W
  <2>1. f \in S /\ r \in W
    BY Above
  <2>2. \A g \in W \cap DOMAIN Q : Q[g] \in S
    BY Above
  <2>3. \A g \in A \cap DOMAIN P : Q[g] \in S
    BY Above DEF Extends
  <2>4. \A g \in A \ DOMAIN P : g = r
    BY OneRoot
  <2>5. \A g \in S \cap DOMAIN Q : Q[g] \in S
    BY <2>1, <2>2, <2>3, <2>4
  <2> HIDE DEF A, W
  <2> QED BY <2>1, <2>5, AboveLeast
<1>4. ASSUME NEW g \in W, g \in A, g # r
      PROVE  FALSE
  <2>1. r \in AtOrAbove(Q, g)
    BY <1>4, RootAboveAll, AboveGrows
  <2> DEFINE Z == {x \in W : r \in AtOrAbove(Q, x)}
  <2>2. r \in Z
    BY Above
  <2>3. ASSUME NEW x \in Z \cap DOMAIN Q
        PROVE  Q[x] \in Z
    <3>1. Q[x] \in W
      BY Above
    <3>2. CASE x # r
      <4>1. r \in AtOrAbove(Q, Q[x])
        BY <2>3, <3>2, AboveParent
      <4> QED BY <3>1, <4>1
    <3>3. CASE x = r
      <4>1. g \in AtOrAbove(Q, Q[r])
        BY <1>4, <2>3, <3>3, AboveParent
      <4>2. r \in AtOrAbove(Q, Q[r])
        BY <2>1, <4>1, AboveAbove
      <4> QED BY <3>1, <3>3, <4>2
    <3> QED BY <3>2, <3>3
  <2>4. W \subseteq Z
    <3> HIDE DEF Z
    <3> QED BY <2>2, <2>3, AboveLeast
  <2>5. PICK q \in AtOrAbove(Q, f) : q \notin DOMAIN Q
    BY DEF Cyclic
  <2>6. q \in AtOrAbove(Q, r)
    BY <1>1, <2>5, RootAboveAll
  <2>7. r \in AtOrAbove(Q, q) /\ AtOrAbove(Q, q) = {q}
    BY <2>4, <2>5, <2>6, AboveParent
  <2>8. W = {r}
    BY <2>5, <2>7, AboveParent
  <2> QED BY <1>4, <2>8
<1>5. r \in A /\ r \in W
  BY Above
<1> QED BY <1>1, <1>2, <1>3, <1>4, <1>5

(***************************************************************************)
(* Two frames of one tree keep the path between them, unless a cycle is    *)
(* closed above them.                                                      *)
(***************************************************************************)
LEMMA PathStays ==
  ASSUME NEW P, NEW Q, Extends(Q, P), NEW p, NEW c,
         ~Cyclic(P, p), ~Cyclic(P, c), Joined(P, p, c),
         ~Cyclic(Q, p), ~Cyclic(Q, c)
  PROVE  Joined(Q, p, c) /\ PathEdges(Q, p, c) = PathEdges(P, p, c)
<1> DEFINE U == AtOrAbove(P, p)
           V == AtOrAbove(P, c)
<1>1. PICK r \in U : r \notin DOMAIN P
  BY DEF Cyclic
<1>2. PICK q \in V : q \notin DOMAIN P
  BY DEF Cyclic
<1>3. PICK x \in U : x \in V
  BY DEF Joined
<1>4. r \in AtOrAbove(P, x) /\ q \in AtOrAbove(P, x)
  BY <1>1, <1>2, <1>3, RootAboveAll
<1>5. q = r
  BY <1>1, <1>2, <1>4, OneRoot
<1> DEFINE W == AtOrAbove(Q, r)
<1>6. AtOrAbove(Q, p) = U \cup W /\ W \cap U = {r}
  BY <1>1, GrowsAtRoot
<1>7. AtOrAbove(Q, c) = V \cup W /\ W \cap V = {r}
  BY <1>2, <1>5, GrowsAtRoot
<1>8. \A g \in U \cup V : g \notin DOMAIN P => g = r
  BY <1>1, <1>2, <1>5, OneRoot
<1>9. DOMAIN P \subseteq DOMAIN Q
  BY DEF Extends
<1> HIDE DEF U, V, W
<1>10. ((U \cup W) \ (V \cup W)) \cup ((V \cup W) \ (U \cup W)) = (U \ V) \cup (V \ U)
  BY <1>6, <1>7
<1>11. (U \ V) \cup (V \ U) \subseteq DOMAIN P
  BY <1>6, <1>7, <1>8
<1>12. PathEdges(Q, p, c) = (U \ V) \cup (V \ U)
  BY <1>6, <1>7, <1>9, <1>10, <1>11 DEF PathEdges
<1>13. PathEdges(P, p, c) = (U \ V) \cup (V \ U)
  BY <1>11 DEF PathEdges, U, V
<1>14. Joined(Q, p, c)
  BY <1>6, <1>7 DEF Joined
<1> QED BY <1>12, <1>13, <1>14

-----------------------------------------------------------------------------
(***************************************************************************)
(* A registry only learns: the record of a child stays, a conflict, a      *)
(* dynamic child and an overflow are never forgotten.                      *)
(***************************************************************************)
Grows(reg, new) ==
  /\ Known(reg) \subseteq Known(new)
  /\ \A c \in Known(reg) :
       /\ new.entries[c].record = reg.entries[c].record
       /\ reg.entries[c].conflict => new.entries[c].conflict
  /\ reg.dynamic \subseteq new.dynamic
  /\ reg.overflow => new.overflow

(***************************************************************************)
(* Observe forgets nothing.                                                *)
(***************************************************************************)
LEMMA ObservedGrows ==
  ASSUME NEW reg, IsRegistry(reg), NEW r \in Record, NEW owner \in Authority
  PROVE  IsRegistry(Observed(reg, r, owner)) /\ Grows(reg, Observed(reg, r, owner))
<1>1. CASE r.child \in Known(reg)
  <2> DEFINE e == reg.entries[r.child]
  <2>1. /\ NextEntry(e, r, owner).record = e.record
        /\ e.conflict => NextEntry(e, r, owner).conflict
    BY DEF NextEntry
  <2> HIDE DEF e
  <2> QED BY <1>1, <2>1, ObserveAgain DEF Grows, e
<1>2. CASE r.child \notin Known(reg) /\ Cardinality(Known(reg)) >= Capacity
  <2>1. Observed(reg, r, owner) = [reg EXCEPT !.overflow = TRUE]
    BY <1>2 DEF Observed
  <2>2. Observed(reg, r, owner).overflow
    BY <2>1, RegistryFields
  <2> QED BY <1>2, <2>2, ObserveFull DEF Grows
<1>3. CASE r.child \notin Known(reg) /\ ~(Cardinality(Known(reg)) >= Capacity)
  BY <1>3, ObserveFirst DEF Grows
<1> QED BY <1>1, <1>2, <1>3

(***************************************************************************)
(* ObserveDynamic forgets nothing and replaces no record.                  *)
(***************************************************************************)
LEMMA ObservedDynamicGrows ==
  ASSUME NEW reg, IsRegistry(reg), NEW c \in Frames
  PROVE  /\ IsRegistry(ObservedDynamic(reg, c)) /\ Grows(reg, ObservedDynamic(reg, c))
         /\ ObservedDynamic(reg, c).entries = reg.entries
<1> DEFINE new == ObservedDynamic(reg, c)
<1>0. PICK E, D, O : /\ reg = [entries |-> E, dynamic |-> D, overflow |-> O]
                     /\ D \subseteq Frames /\ O \in BOOLEAN
  BY RegistryFields
<1>1. \/ new = [entries |-> E, dynamic |-> D, overflow |-> TRUE]
      \/ new = [entries |-> E, dynamic |-> D \cup {c}, overflow |-> O]
  <2>1. reg.dynamic = D
    BY <1>0
  <2>2. [reg EXCEPT !.overflow = TRUE] = [entries |-> E, dynamic |-> D, overflow |-> TRUE]
    <3>1. \A v : [reg EXCEPT !.overflow = v] = [entries |-> E, dynamic |-> D, overflow |-> v]
      BY <1>0
    <3> QED BY <3>1, Zenon
  <2>3. [reg EXCEPT !.dynamic = D \cup {c}]
          = [entries |-> E, dynamic |-> D \cup {c}, overflow |-> O]
    BY <1>0
  <2> QED BY <2>1, <2>2, <2>3 DEF ObservedDynamic
<1>2. new.entries = reg.entries /\ reg.dynamic \subseteq new.dynamic
      /\ new.dynamic \subseteq Frames /\ new.overflow \in BOOLEAN
      /\ (reg.overflow => new.overflow)
  <2> HIDE DEF new
  <2>1. reg.entries = E /\ reg.dynamic = D /\ reg.overflow = O
    BY <1>0
  <2>2. CASE new = [entries |-> E, dynamic |-> D, overflow |-> TRUE]
    <3>1. new.entries = E /\ new.dynamic = D /\ new.overflow = TRUE
      BY <2>2
    <3> QED BY <1>0, <2>1, <3>1
  <2>3. CASE new = [entries |-> E, dynamic |-> D \cup {c}, overflow |-> O]
    <3>1. new.entries = E /\ new.dynamic = D \cup {c} /\ new.overflow = O
      BY <2>3
    <3> QED BY <1>0, <2>1, <3>1
  <2> QED BY <1>1, <2>2, <2>3
<1>3. new = [entries |-> new.entries, dynamic |-> new.dynamic, overflow |-> new.overflow]
  <2> HIDE DEF new
  <2> QED BY <1>1
<1> HIDE DEF new
<1>4. Known(new) = Known(reg)
  BY <1>2 DEF Known
<1>5. IsRegistry(new)
  BY <1>2, <1>3, <1>4, RegistryFields DEF IsRegistry
<1> QED BY <1>2, <1>4, <1>5 DEF Grows, new

(***************************************************************************)
(* A path that cannot resolve any more: the table overflowed, an end hangs *)
(* in a cycle, or one of its edges is contested.                           *)
(***************************************************************************)
Doomed(reg, p, c) ==
  LET parent == ParentOf(reg)
  IN  \/ reg.overflow
      \/ Cyclic(parent, p) \/ Cyclic(parent, c)
      \/ /\ Joined(parent, p, c)
         /\ \E e \in PathEdges(parent, p, c) : ~Clean(reg, e)

(***************************************************************************)
(* A path that resolved is the one it was, or is doomed.                   *)
(***************************************************************************)
Fixed(reg, p, c, path) ==
  LET parent == ParentOf(reg)
  IN  \/ Cyclic(parent, p) \/ Cyclic(parent, c)
      \/ Joined(parent, p, c) /\ path = Resolved(reg, p, c)

(***************************************************************************)
(* A registry that learns is a forest that grows.                          *)
(***************************************************************************)
LEMMA GrowsExtends ==
  ASSUME NEW reg, NEW new, Grows(reg, new)
  PROVE  Extends(ParentOf(new), ParentOf(reg))
BY DEF Grows, Extends, ParentOf

(***************************************************************************)
(* The edges of a path are registered, and the path from a frame to itself *)
(* has none.                                                               *)
(***************************************************************************)
LEMMA PathFacts ==
  ASSUME NEW reg, NEW p, NEW c
  PROVE  /\ PathEdges(ParentOf(reg), p, c) \subseteq Known(reg)
         /\ PathEdges(ParentOf(reg), p, p) = {} /\ Joined(ParentOf(reg), p, p)
<1>1. DOMAIN ParentOf(reg) = Known(reg)
  BY DEF ParentOf
<1> QED BY <1>1, Above DEF PathEdges, Joined

(***************************************************************************)
(* What cannot resolve any more cannot resolve later either.               *)
(***************************************************************************)
LEMMA DoomedStays ==
  ASSUME NEW reg, NEW new, Grows(reg, new), NEW p, NEW c, Doomed(reg, p, c)
  PROVE  Doomed(new, p, c)
<1> DEFINE P == ParentOf(reg)
           Q == ParentOf(new)
<1>1. Extends(Q, P)
  BY GrowsExtends
<1>2. CASE reg.overflow
  BY <1>2 DEF Doomed, Grows
<1>3. CASE Cyclic(P, p) \/ Cyclic(P, c)
  BY <1>1, <1>3, CycleStays DEF Doomed
<1>4. CASE ~Cyclic(P, p) /\ ~Cyclic(P, c) /\ ~reg.overflow
  <2>1. PICK e \in PathEdges(P, p, c) : ~Clean(reg, e)
    BY <1>4 DEF Doomed
  <2>2. e \in Known(reg) /\ ~Clean(new, e)
    BY <2>1, PathFacts DEF Grows, Clean
  <2>3. Joined(P, p, c)
    BY <1>4 DEF Doomed
  <2>4. CASE Cyclic(Q, p) \/ Cyclic(Q, c)
    BY <2>4 DEF Doomed
  <2>5. CASE ~Cyclic(Q, p) /\ ~Cyclic(Q, c)
    <3>1. Joined(Q, p, c) /\ PathEdges(Q, p, c) = PathEdges(P, p, c)
      BY <1>1, <1>4, <2>3, <2>5, PathStays
    <3> QED BY <2>1, <2>2, <3>1 DEF Doomed
  <2> QED BY <2>4, <2>5
<1> QED BY <1>2, <1>3, <1>4

(***************************************************************************)
(* What is doomed does not resolve now.                                    *)
(***************************************************************************)
LEMMA DoomedFails ==
  ASSUME NEW reg, NEW p, NEW c, Doomed(reg, p, c), p # c
  PROVE  ~Resolves(reg, p, c)
BY DEF Doomed, Resolves

(***************************************************************************)
(* A path that stops resolving does so for one of the three reasons.       *)
(***************************************************************************)
LEMMA LostIsDoomed ==
  ASSUME NEW reg, NEW new, Grows(reg, new), NEW p, NEW c,
         Resolves(reg, p, c), ~Resolves(new, p, c)
  PROVE  /\ Doomed(new, p, c)
         /\ p = c => new.overflow
<1> DEFINE P == ParentOf(reg)
           Q == ParentOf(new)
<1>1. Extends(Q, P)
  BY GrowsExtends
<1>2. CASE p = c
  BY <1>2 DEF Resolves, Doomed
<1>3. CASE p # c
  <2>1. ~Cyclic(P, p) /\ ~Cyclic(P, c) /\ Joined(P, p, c)
    BY <1>3 DEF Resolves
  <2>2. CASE Cyclic(Q, p) \/ Cyclic(Q, c) \/ new.overflow
    BY <1>3, <2>2 DEF Doomed
  <2>3. CASE ~Cyclic(Q, p) /\ ~Cyclic(Q, c) /\ ~new.overflow
    <3>1. Joined(Q, p, c)
      BY <1>1, <2>1, <2>3, PathStays
    <3> QED BY <1>3, <2>3, <3>1 DEF Resolves, Doomed
  <2> QED BY <1>3, <2>2, <2>3
<1> QED BY <1>2, <1>3

(***************************************************************************)
(* A path that resolves is fixed as it is.                                 *)
(***************************************************************************)
LEMMA ResolvedIsFixed ==
  ASSUME NEW reg, NEW p, NEW c, Resolves(reg, p, c)
  PROVE  Fixed(reg, p, c, Resolved(reg, p, c))
BY PathFacts DEF Resolves, Fixed

(***************************************************************************)
(* A fixed path stays fixed, whatever is announced.                        *)
(***************************************************************************)
LEMMA FixedStays ==
  ASSUME NEW reg, NEW new, Grows(reg, new), NEW p, NEW c, NEW path, Fixed(reg, p, c, path)
  PROVE  Fixed(new, p, c, path)
<1> DEFINE P == ParentOf(reg)
           Q == ParentOf(new)
<1>1. Extends(Q, P)
  BY GrowsExtends
<1>2. CASE Cyclic(P, p) \/ Cyclic(P, c)
  BY <1>1, <1>2, CycleStays DEF Fixed
<1>3. CASE Cyclic(Q, p) \/ Cyclic(Q, c)
  BY <1>3 DEF Fixed
<1>4. CASE ~Cyclic(P, p) /\ ~Cyclic(P, c) /\ ~Cyclic(Q, p) /\ ~Cyclic(Q, c)
  <2>1. Joined(P, p, c) /\ path = Resolved(reg, p, c)
    BY <1>4 DEF Fixed
  <2>2. Joined(Q, p, c) /\ PathEdges(Q, p, c) = PathEdges(P, p, c)
    BY <1>1, <1>4, <2>1, PathStays
  <2>3. \A e \in PathEdges(P, p, c) : new.entries[e].record = reg.entries[e].record
    BY PathFacts DEF Grows
  <2>4. Resolved(new, p, c) = Resolved(reg, p, c)
    BY <2>2, <2>3 DEF Resolved
  <2> QED BY <2>1, <2>2, <2>4 DEF Fixed
<1> QED BY <1>2, <1>3, <1>4

(***************************************************************************)
(* What resolved once resolves to the same path for ever, if at all.       *)
(***************************************************************************)
LEMMA FixedResolves ==
  ASSUME NEW reg, NEW p, NEW c, NEW path, Fixed(reg, p, c, path), Resolves(reg, p, c),
         p = c => path = {}
  PROVE  path = Resolved(reg, p, c)
<1>1. CASE p = c
  BY <1>1, PathFacts DEF Resolved
<1>2. CASE p # c
  BY <1>2 DEF Fixed, Resolves
<1> QED BY <1>1, <1>2

-----------------------------------------------------------------------------
(***************************************************************************)
(* One more element adds at most one to the cardinality.                   *)
(***************************************************************************)
LEMMA OneMore ==
  ASSUME NEW S, IsFiniteSet(S), NEW x
  PROVE  /\ Cardinality(S) \in Nat
         /\ Cardinality(S \cup {x}) \in Nat
         /\ Cardinality(S \cup {x}) <= Cardinality(S) + 1
<1>1. Cardinality(S) \in Nat
  BY FS_CardinalityType
<1>2. CASE x \in S
  <2>1. S \cup {x} = S
    BY <1>2
  <2> QED BY <1>1, <2>1
<1>3. CASE x \notin S
  <2>1. Cardinality(S \cup {x}) = Cardinality(S) + 1
    BY <1>3, FS_AddElement
  <2> QED BY <1>1, <2>1
<1> QED BY <1>2, <1>3

(***************************************************************************)
(* Type correctness, and the two tables never outgrow the capacity.        *)
(***************************************************************************)
THEOREM AuditTypeCorrect == AuditSpec => []AuditTypeOK
<1> USE RegistryAssumption
<1>1. AuditInit => AuditTypeOK
  <2>1. Known(EmptyRegistry) = {} /\ IsRegistry(EmptyRegistry)
    BY DEF EmptyRegistry, Known, IsRegistry
  <2>2. EmptyRegistry.dynamic = {}
    BY DEF EmptyRegistry
  <2> QED BY <2>1, <2>2, FS_EmptySet DEF AuditInit, AuditTypeOK
<1>2. AuditTypeOK /\ [AuditNext]_auditVars => AuditTypeOK'
  <2> SUFFICES ASSUME AuditTypeOK, [AuditNext]_auditVars
               PROVE  AuditTypeOK'
    OBVIOUS
  <2> USE DEF AuditTypeOK
  <2>1. ASSUME NEW r \in Record, NEW owner \in Authority, Observe(r, owner)
        PROVE  AuditTypeOK'
    <3>1. /\ audited' = Observed(audited, r, owner) /\ moving' = moving
          /\ told' \subseteq Record \X Authority /\ lost' \subseteq Frames \X Frames
      BY <2>1 DEF Observe, Remember
    <3>2. CASE r.child \in Known(audited)
      BY <3>1, <3>2, ObserveAgain
    <3>3. CASE r.child \notin Known(audited) /\ Cardinality(Known(audited)) >= Capacity
      BY <3>1, <3>3, ObserveFull
    <3>4. CASE r.child \notin Known(audited) /\ ~(Cardinality(Known(audited)) >= Capacity)
      <4>1. /\ Cardinality(Known(audited)) \in Nat
            /\ Cardinality(Known(audited) \cup {r.child}) \in Nat
            /\ Cardinality(Known(audited) \cup {r.child}) <= Cardinality(Known(audited)) + 1
        BY RegistryFields, OneMore
      <4>2. Cardinality(Known(audited) \cup {r.child}) <= Capacity
        BY <3>4, <4>1
      <4>3. IsRegistry(audited') /\ Known(audited') = Known(audited) \cup {r.child}
            /\ audited'.dynamic = audited.dynamic
        BY <3>1, <3>4, ObserveFirst
      <4> QED BY <3>1, <4>2, <4>3
    <3> QED BY <3>2, <3>3, <3>4
  <2>2. ASSUME NEW c \in Frames, ObserveDynamic(c)
        PROVE  AuditTypeOK'
    <3>1. /\ audited' = ObservedDynamic(audited, c)
          /\ told' = told /\ moving' \subseteq Frames /\ lost' \subseteq Frames \X Frames
      BY <2>2 DEF ObserveDynamic, Remember
    <3>2. CASE Cardinality(audited.dynamic) >= Capacity
      <4>1. /\ IsRegistry(audited') /\ audited'.dynamic = audited.dynamic
            /\ Known(audited') = Known(audited)
        BY <3>1, <3>2, RegistryFields DEF ObservedDynamic, IsRegistry, Known
      <4> QED BY <3>1, <4>1
    <3>3. CASE ~(Cardinality(audited.dynamic) >= Capacity)
      <4>1. /\ IsRegistry(audited') /\ audited'.dynamic = audited.dynamic \cup {c}
            /\ Known(audited') = Known(audited)
        BY <3>1, <3>3, RegistryFields DEF ObservedDynamic, IsRegistry, Known
      <4>2. /\ Cardinality(audited.dynamic) \in Nat
            /\ Cardinality(audited.dynamic \cup {c}) \in Nat
            /\ Cardinality(audited.dynamic \cup {c}) <= Cardinality(audited.dynamic) + 1
        BY RegistryFields, OneMore
      <4>3. Cardinality(audited.dynamic \cup {c}) <= Capacity
        BY <3>3, <4>2
      <4> QED BY <3>1, <4>1, <4>3
    <3> QED BY <3>2, <3>3
  <2>3. CASE UNCHANGED auditVars
    BY <2>3 DEF auditVars
  <2> QED BY <2>1, <2>2, <2>3 DEF AuditNext
<1> QED BY <1>1, <1>2, PTL DEF AuditSpec

-----------------------------------------------------------------------------
(***************************************************************************)
(* What the entry of a child says about the announcements heard of it.     *)
(* The record is one of them; the owner is local only while all of them    *)
(* are, and is otherwise the publisher of one.  Nothing was heard of a     *)
(* child without an entry, unless the table is full.                       *)
(***************************************************************************)
About(c) == {a \in told : a[1].child = c}

EntryInv(c) ==
  LET e == audited.entries[c]
  IN  /\ \E a \in About(c) : a[1] = e.record
      /\ e.owner = Local => \A a \in About(c) : a[2] = Local
      /\ e.owner # Local => \E a \in About(c) : a[2] = e.owner
      /\ e.conflict <=> Contested(c)

AuditInv ==
  /\ \A c \in Known(audited) : EntryInv(c)
  /\ \A a \in told : a[1].child \in Known(audited)
                       \/ Cardinality(Known(audited)) >= Capacity

(***************************************************************************)
(* The flag of the next entry is right when that of the present one is:    *)
(* one record and one owner stand for everything heard before.             *)
(***************************************************************************)
LEMMA EntryStep ==
  ASSUME AuditTypeOK, NEW r \in Record, NEW owner \in Authority, Observe(r, owner),
         r.child \in Known(audited), EntryInv(r.child)
  PROVE  EntryInv(r.child)'
<1> DEFINE c == r.child
           e == audited.entries[c]
           n == <<r, owner>>
<1>1. /\ audited'.entries[c] = NextEntry(e, r, owner)
      /\ told' = told \cup {n}
      /\ About(c)' = About(c) \cup {n}
  BY ObserveAgain DEF Observe, About, AuditTypeOK
<1>2. /\ e \in Entry /\ e.owner \in Authority /\ e.conflict \in BOOLEAN
      /\ \A a \in told : a[1] \in Record /\ a[2] \in Authority
  BY RegistryFields DEF AuditTypeOK, Entry
<1>3. /\ audited'.entries[c].record = e.record
      /\ audited'.entries[c].owner = IF e.owner = Local THEN owner ELSE e.owner
      /\ audited'.entries[c].conflict = (e.conflict \/ Contradicts(e, r, owner))
  BY <1>1 DEF NextEntry
<1>4. PICK first \in About(c) : first[1] = e.record
  BY DEF EntryInv
<1>5. Contested(c)' <=> Contested(c) \/ ~Valid(r)
                        \/ \E a \in About(c) : Disagree(a, n)
  <2>1. n[1] = r /\ n[2] = owner /\ n \in told'
    BY <1>1
  <2>2. ASSUME Contested(c)
        PROVE  Contested(c)'
    BY <1>1, <2>2 DEF Contested
  <2>3. ASSUME ~Valid(r)
        PROVE  Contested(c)'
    BY <2>1, <2>3 DEF Contested
  <2>4. ASSUME NEW a \in About(c), Disagree(a, n)
        PROVE  Contested(c)'
    BY <1>1, <2>1, <2>4 DEF Contested, About
  <2>5. ASSUME NEW a \in told', NEW b \in told', a[1].child = c,
               ~Valid(a[1]) \/ Disagree(a, b)
        PROVE  Contested(c) \/ ~Valid(r) \/ \E x \in About(c) : Disagree(x, n)
    <3>1. CASE a \in told /\ b \in told
      BY <2>5, <3>1 DEF Contested
    <3>2. CASE a = n /\ b = n
      BY <2>1, <2>5, <3>2 DEF Disagree
    <3>3. CASE a = n /\ b \in told
      BY <2>1, <2>5, <3>3 DEF Disagree, About
    <3>4. CASE a \in told /\ b = n
      BY <2>1, <2>5, <3>4 DEF Disagree, About, Contested
    <3> QED BY <1>1, <2>5, <3>1, <3>2, <3>3, <3>4
  <2> QED BY <2>2, <2>3, <2>4, <2>5 DEF Contested
<1>6. ASSUME ~Contested(c)
      PROVE  Contradicts(e, r, owner) <=>
               ~Valid(r) \/ \E a \in About(c) : Disagree(a, n)
  <2>1. \A a \in About(c) : a[1] = e.record
    BY <1>4, <1>6 DEF Contested, Disagree, About
  <2>2. CASE e.record # r
    BY <1>4, <2>2 DEF Contradicts, Disagree, About
  <2>3. CASE e.record = r /\ e.owner = Local
    BY <2>1, <2>3 DEF Contradicts, Disagree, EntryInv
  <2>4. CASE e.record = r /\ e.owner # Local
    <3>1. PICK b \in About(c) : b[2] = e.owner
      BY <2>4 DEF EntryInv
    <3>2. \A a \in About(c) : a[2] = Local \/ a[2] = e.owner
      BY <1>6, <2>4, <3>1 DEF Contested, Disagree, About
    <3> QED BY <2>1, <2>4, <3>1, <3>2 DEF Contradicts, Disagree, About
  <2> QED BY <2>2, <2>3, <2>4
<1>7. audited'.entries[c].conflict <=> Contested(c)'
  BY <1>3, <1>5, <1>6 DEF EntryInv
<1>8. \E a \in About(c)' : a[1] = audited'.entries[c].record
  BY <1>1, <1>3, <1>4
<1>9. /\ audited'.entries[c].owner = Local => \A a \in About(c)' : a[2] = Local
      /\ audited'.entries[c].owner # Local =>
           \E a \in About(c)' : a[2] = audited'.entries[c].owner
  <2>1. n \in About(c)' /\ n[2] = owner
    BY <1>1
  <2>2. CASE e.owner = Local
    <3>1. \A a \in About(c) : a[2] = Local
      BY <2>2 DEF EntryInv
    <3> QED BY <1>1, <1>3, <2>1, <2>2, <3>1
  <2>3. CASE e.owner # Local
    <3>1. \E a \in About(c) : a[2] = e.owner
      BY <2>3 DEF EntryInv
    <3> QED BY <1>1, <1>3, <2>3, <3>1
  <2> QED BY <2>2, <2>3
<1> QED BY <1>7, <1>8, <1>9 DEF EntryInv

(***************************************************************************)
(* The invariant of the audit survives an announcement.                    *)
(***************************************************************************)
LEMMA AuditStep ==
  ASSUME AuditTypeOK, AuditInv, NEW r \in Record, NEW owner \in Authority, Observe(r, owner)
  PROVE  AuditInv'
<1>1. /\ audited' = Observed(audited, r, owner)
      /\ told' = told \cup {<<r, owner>>}
  BY DEF Observe
<1>2. IsRegistry(audited) /\ Cardinality(Known(audited)) \in Nat
  BY RegistryFields, FS_CardinalityType DEF AuditTypeOK
<1>3. ASSUME NEW c \in Known(audited), c # r.child,
             audited'.entries[c] = audited.entries[c]
      PROVE  EntryInv(c)'
  <2>1. About(c)' = About(c)
    BY <1>1, <1>3 DEF About
  <2>2. Contested(c)' <=> Contested(c)
    BY <1>1, <1>3 DEF Contested, Disagree
  <2>3. EntryInv(c)
    BY <1>3 DEF AuditInv
  <2> QED BY <1>3, <2>1, <2>2, <2>3 DEF EntryInv
<1>4. CASE r.child \in Known(audited)
  <2>1. Known(audited') = Known(audited)
    BY <1>1, <1>2, <1>4, ObserveAgain
  <2>2. \A c \in Known(audited) \ {r.child} : audited'.entries[c] = audited.entries[c]
    BY <1>1, <1>2, <1>4, ObserveAgain
  <2>3. EntryInv(r.child)'
    BY <1>4, EntryStep DEF AuditInv
  <2>4. \A a \in told' : a[1].child \in Known(audited')
                          \/ Cardinality(Known(audited')) >= Capacity
    BY <1>1, <1>4, <2>1 DEF AuditInv
  <2> QED BY <1>3, <2>1, <2>2, <2>3, <2>4 DEF AuditInv
<1>5. CASE r.child \notin Known(audited) /\ Cardinality(Known(audited)) >= Capacity
  <2>1. Known(audited') = Known(audited) /\ audited'.entries = audited.entries
    BY <1>1, <1>2, <1>5, ObserveFull
  <2>2. \A a \in told' : a[1].child \in Known(audited')
                          \/ Cardinality(Known(audited')) >= Capacity
    BY <1>5, <2>1
  <2>3. \A c \in Known(audited) : EntryInv(c)'
    BY <1>3, <1>5, <2>1
  <2> QED BY <2>1, <2>2, <2>3 DEF AuditInv
<1>6. CASE r.child \notin Known(audited) /\ ~(Cardinality(Known(audited)) >= Capacity)
  <2>1. /\ Known(audited') = Known(audited) \cup {r.child}
        /\ audited'.entries[r.child] = FirstEntry(r, owner)
        /\ \A c \in Known(audited) : audited'.entries[c] = audited.entries[c]
    BY <1>1, <1>2, <1>6, ObserveFirst
  <2>2. About(r.child) = {}
    BY <1>6 DEF AuditInv, About
  <2>3. About(r.child)' = {<<r, owner>>}
    BY <1>1, <2>2 DEF About
  <2>4. Contested(r.child)' <=> ~Valid(r)
    <3>1. \A a \in told' : a[1].child = r.child => a = <<r, owner>>
      BY <2>3 DEF About
    <3>2. \A a \in told', b \in told' :
            a[1].child = r.child => (Disagree(a, b) => b = <<r, owner>>)
      BY <3>1 DEF Disagree
    <3>3. ~Disagree(<<r, owner>>, <<r, owner>>)
      BY DEF Disagree
    <3> QED BY <1>1, <3>1, <3>2, <3>3 DEF Contested
  <2>5. EntryInv(r.child)'
    <3>1. /\ audited'.entries[r.child].record = r
          /\ audited'.entries[r.child].owner = owner
          /\ audited'.entries[r.child].conflict = ~Valid(r)
      BY <2>1 DEF FirstEntry
    <3>2. \A a \in About(r.child)' : a[1] = r /\ a[2] = owner
      BY <2>3
    <3>3. <<r, owner>> \in About(r.child)'
      BY <2>3
    <3> QED BY <2>4, <3>1, <3>2, <3>3 DEF EntryInv
  <2>6. \A c \in Known(audited) : EntryInv(c)'
    BY <1>3, <1>6, <2>1
  <2>7. \A a \in told' : a[1].child \in Known(audited')
    BY <1>1, <1>6, <2>1 DEF AuditInv
  <2> QED BY <2>1, <2>5, <2>6, <2>7 DEF AuditInv
<1> QED BY <1>4, <1>5, <1>6

(***************************************************************************)
(* The invariant of the audit, for every history of announcements.         *)
(***************************************************************************)
LEMMA AuditInvariant == AuditSpec => []AuditInv
<1>1. AuditInit => AuditInv
  BY DEF AuditInit, AuditInv, EmptyRegistry, Known
<1>2. AuditTypeOK /\ AuditInv /\ [AuditNext]_auditVars => AuditInv'
  <2> SUFFICES ASSUME AuditTypeOK, AuditInv, [AuditNext]_auditVars
               PROVE  AuditInv'
    OBVIOUS
  <2>1. ASSUME NEW r \in Record, NEW owner \in Authority, Observe(r, owner)
        PROVE  AuditInv'
    BY <2>1, AuditStep
  <2>2. ASSUME audited'.entries = audited.entries, told' = told
        PROVE  AuditInv'
    BY <2>2 DEF AuditInv, EntryInv, About, Contested, Known
  <2>3. ASSUME NEW c \in Frames, ObserveDynamic(c)
        PROVE  AuditInv'
    <3>1. audited'.entries = audited.entries
      BY <2>3, RegistryFields DEF ObserveDynamic, ObservedDynamic, AuditTypeOK
    <3> QED BY <2>2, <2>3, <3>1 DEF ObserveDynamic
  <2>4. CASE UNCHANGED auditVars
    BY <2>2, <2>4 DEF auditVars
  <2> QED BY <2>1, <2>3, <2>4 DEF AuditNext
<1> QED BY <1>1, <1>2, AuditTypeCorrect, PTL DEF AuditSpec

(***************************************************************************)
(* The conflict flag is exact for every history of announcements.          *)
(***************************************************************************)
THEOREM AuditConflictExact == AuditSpec => []ConflictExact
<1>1. AuditInv => ConflictExact
  BY DEF AuditInv, EntryInv, ConflictExact
<1> QED BY <1>1, AuditInvariant, PTL

-----------------------------------------------------------------------------
(***************************************************************************)
(* No announcement makes the registry forget anything.                     *)
(***************************************************************************)
LEMMA AuditGrows ==
  ASSUME AuditTypeOK, [AuditNext]_auditVars
  PROVE  Grows(audited, audited')
<1>1. ASSUME NEW r \in Record, NEW owner \in Authority, Observe(r, owner)
      PROVE  Grows(audited, audited')
  BY <1>1, ObservedGrows DEF AuditTypeOK, Observe
<1>2. ASSUME NEW c \in Frames, ObserveDynamic(c)
      PROVE  Grows(audited, audited')
  BY <1>2, ObservedDynamicGrows DEF AuditTypeOK, ObserveDynamic
<1>3. CASE UNCHANGED auditVars
  BY <1>3 DEF auditVars, Grows
<1> QED BY <1>1, <1>2, <1>3 DEF AuditNext

(***************************************************************************)
(* NoHotReload for any frames and announcements: the records on a path are *)
(* never replaced, and a path that resolves keeps its edges, because a     *)
(* line of ancestors only grows at its root (PathStays).                   *)
(***************************************************************************)
THEOREM AuditNeverReloads == AuditSpec => NoHotReload
<1>1. AuditTypeOK /\ [AuditNext]_auditVars =>
        [\A p, c \in Frames :
           Resolves(audited, p, c) /\ Resolves(audited', p, c)
             => Resolved(audited, p, c) = Resolved(audited', p, c)]_auditVars
  <2> SUFFICES ASSUME AuditTypeOK, [AuditNext]_auditVars, NEW p \in Frames, NEW c \in Frames,
                      Resolves(audited, p, c), Resolves(audited', p, c)
               PROVE  Resolved(audited, p, c) = Resolved(audited', p, c)
    OBVIOUS
  <2>1. Fixed(audited', p, c, Resolved(audited, p, c))
    BY AuditGrows, ResolvedIsFixed, FixedStays
  <2>2. p = c => Resolved(audited, p, c) = {}
    BY PathFacts DEF Resolved
  <2> QED BY <2>1, <2>2, FixedResolves
<1> QED BY <1>1, AuditTypeCorrect, PTL DEF AuditSpec, NoHotReload

(***************************************************************************)
(* PauseIsFinal for any frames and announcements.  That a lost path does   *)
(* not resolve is not inductive; that it is doomed is: by the overflow, a  *)
(* cycle or a contested edge, none of which goes away.                     *)
(***************************************************************************)
LostInv ==
  \A pc \in lost : /\ Doomed(audited, pc[1], pc[2])
                   /\ pc[1] = pc[2] => audited.overflow

(***************************************************************************)
(* PauseIsFinal for any frames and announcements: what Resolve refused     *)
(* after it had answered, it refuses for ever.                             *)
(***************************************************************************)
THEOREM AuditPauseIsFinal == AuditSpec => []PauseIsFinal
<1>1. AuditInit => LostInv
  BY DEF AuditInit, LostInv
<1>2. AuditTypeOK /\ LostInv /\ [AuditNext]_auditVars => LostInv'
  <2> SUFFICES ASSUME AuditTypeOK, LostInv, [AuditNext]_auditVars, NEW pc \in lost'
               PROVE  /\ Doomed(audited', pc[1], pc[2])
                      /\ pc[1] = pc[2] => audited'.overflow
    BY DEF LostInv
  <2>1. Grows(audited, audited')
    BY AuditGrows
  <2>2. CASE pc \in lost
    BY <2>1, <2>2, DoomedStays DEF LostInv, Grows
  <2>3. CASE pc \notin lost
    <3>1. Remember
      BY <2>3 DEF AuditNext, Observe, ObserveDynamic, auditVars
    <3>2. Resolves(audited, pc[1], pc[2]) /\ ~Resolves(audited', pc[1], pc[2])
      BY <2>3, <3>1 DEF Remember
    <3> QED BY <2>1, <3>2, LostIsDoomed
  <2> QED BY <2>2, <2>3
<1>3. LostInv => PauseIsFinal
  <2> SUFFICES ASSUME LostInv, NEW pc \in lost
               PROVE  ~Resolves(audited, pc[1], pc[2])
    BY DEF PauseIsFinal
  <2>1. CASE pc[1] = pc[2]
    BY <2>1 DEF LostInv, Resolves
  <2>2. CASE pc[1] # pc[2]
    BY <2>2, DoomedFails DEF LostInv
  <2> QED BY <2>1, <2>2
<1> QED BY <1>1, <1>2, <1>3, AuditTypeCorrect, PTL DEF AuditSpec

-----------------------------------------------------------------------------
(***************************************************************************)
(* Every set of numbers has a least one, which is what inductions over the *)
(* levels of the search rest on.                                           *)
(***************************************************************************)
LEMMA LeastNatural ==
  ASSUME NEW T \in SUBSET Nat, T # {}
  PROVE  \E x \in T : \A y \in T : x <= y
<1> DEFINE less == {ss \in Nat \X Nat : ss[1] < ss[2]}
<1>1. IsWellFoundedOn(less, Nat)
  BY NatLessThanWellFounded DEF OpToRel
<1>2. \A x, y \in Nat : y < x => <<y, x>> \in less
  OBVIOUS
<1> HIDE DEF less
<1>3. PICK x \in T : \A y \in T : ~ (<<y, x>> \in less)
  BY <1>1, WFMin
<1>4. ASSUME NEW y \in T
      PROVE  x <= y
  <2>1. x \in Nat /\ y \in Nat
    OBVIOUS
  <2>2. ~ (y < x)
    BY <1>2, <1>3, <2>1
  <2> QED BY <2>1, <2>2
<1> QED BY <1>4

(***************************************************************************)
(* What Search computes: the levels of the search up to the N-th.          *)
(***************************************************************************)
Start(p) == [f \in {p} |-> {}]

IsLevels(g, reg, p, N) ==
  g = [n \in 0 .. N |-> IF n = 0 THEN Start(p) ELSE Widened(reg, g[n - 1])]

(***************************************************************************)
(* The recursive definition has a solution: the shortest unsolvable one    *)
(* could be solved from the one before.                                    *)
(***************************************************************************)
LEMMA LevelsExist ==
  ASSUME NEW reg, NEW p, NEW N \in Nat
  PROVE  \E g : IsLevels(g, reg, p, N)
<1> DEFINE T == {m \in Nat : ~ \E g : IsLevels(g, reg, p, m)}
<1> SUFFICES ASSUME T # {}
             PROVE  FALSE
  OBVIOUS
<1>1. PICK x \in T : \A y \in T : x <= y
  BY LeastNatural
<1>2. CASE x = 0
  <2> DEFINE g == [n \in 0 .. 0 |-> Start(p)]
  <2>1. g = [n \in 0 .. 0 |-> IF n = 0 THEN Start(p) ELSE Widened(reg, g[n - 1])]
    OBVIOUS
  <2>2. IsLevels(g, reg, p, 0)
    BY <2>1 DEF IsLevels
  <2> QED BY <1>2, <2>2
<1>3. CASE x # 0
  <2>1. x - 1 \in Nat /\ x - 1 \notin T
    BY <1>1, <1>3
  <2>2. PICK h : IsLevels(h, reg, p, x - 1)
    BY <2>1
  <2> DEFINE g == [n \in 0 .. x |-> IF n = 0 THEN Start(p) ELSE Widened(reg, h[n - 1])]
  <2>3. ASSUME NEW n \in 0 .. x, n # 0
        PROVE  g[n - 1] = h[n - 1]
    <3>1. n - 1 \in 0 .. x /\ n - 1 \in 0 .. x - 1
      BY <2>3
    <3>2. h[n - 1] = IF n - 1 = 0 THEN Start(p) ELSE Widened(reg, h[(n - 1) - 1])
      BY <2>2, <3>1, Zenon DEF IsLevels
    <3> QED BY <3>1, <3>2
  <2>4. g = [n \in 0 .. x |-> IF n = 0 THEN Start(p) ELSE Widened(reg, g[n - 1])]
    BY <2>3
  <2>5. IsLevels(g, reg, p, x)
    BY <2>4 DEF IsLevels
  <2> QED BY <2>5
<1> QED BY <1>2, <1>3

(***************************************************************************)
(* Search answers with the last of its levels.                             *)
(***************************************************************************)
LEMMA SearchLevels ==
  ASSUME NEW reg, NEW p, NEW N \in Nat, N = Cardinality(SearchEdges(reg))
  PROVE  \E g : IsLevels(g, reg, p, N) /\ Search(reg, p) = g[N]
<1> DEFINE G == CHOOSE g : IsLevels(g, reg, p, N)
<1>1. IsLevels(G, reg, p, N)
  BY LevelsExist
<1>2. Search(reg, p) = G[N]
  BY DEF Search, IsLevels, Start
<1> QED BY <1>1, <1>2

-----------------------------------------------------------------------------
(***************************************************************************)
(* What the audit keeps true of a registry: an entry is filed under its    *)
(* child, and one that is not valid is contested.                          *)
(***************************************************************************)
Sound(reg) ==
  /\ IsRegistry(reg)
  /\ \A c \in Known(reg) :
       /\ reg.entries[c].record.child = c
       /\ ~Valid(reg.entries[c].record) => reg.entries[c].conflict

(***************************************************************************)
(* The edges the search walks along join two different frames.             *)
(***************************************************************************)
LEMMA EdgeFacts ==
  ASSUME NEW reg, Sound(reg)
  PROVE  /\ IsFiniteSet(SearchEdges(reg)) /\ Cardinality(SearchEdges(reg)) \in Nat
         /\ DOMAIN ParentOf(reg) = Known(reg)
         /\ \A c \in Known(reg) :
              /\ ParentOf(reg)[c] = reg.entries[c].record.parent
              /\ c \in Frames /\ ParentOf(reg)[c] \in Frames
              /\ Clean(reg, c) => c \in SearchEdges(reg)
         /\ \A e \in SearchEdges(reg) : e \in Known(reg) /\ ParentOf(reg)[e] # e
<1>1. SearchEdges(reg) \subseteq Known(reg) /\ IsFiniteSet(Known(reg))
  BY RegistryFields DEF SearchEdges, Sound
<1>2. IsFiniteSet(SearchEdges(reg)) /\ Cardinality(SearchEdges(reg)) \in Nat
  BY <1>1, FS_Subset, FS_CardinalityType
<1>3. \A c \in Known(reg) : reg.entries[c].record \in Record /\ c \in Frames
  BY RegistryFields DEF Sound, Entry
<1>4. \A c \in Known(reg) : reg.entries[c].record.parent \in Frames
  BY <1>3 DEF Record
<1>5. \A c \in Known(reg) : Clean(reg, c) => c \in SearchEdges(reg)
  BY DEF Sound, Clean, SearchEdges
<1>6. \A e \in SearchEdges(reg) : reg.entries[e].record.parent # e
  BY DEF SearchEdges, Sound, Valid
<1> QED BY <1>1, <1>2, <1>3, <1>4, <1>5, <1>6 DEF ParentOf

(***************************************************************************)
(* The search finds f along the edge e from a frame g found before.        *)
(***************************************************************************)
Found(reg, seen, f, e, g) ==
  /\ e \in SearchEdges(reg) /\ g \in DOMAIN seen
  /\ \/ f = e /\ g = ParentOf(reg)[e]
     \/ g = e /\ f = ParentOf(reg)[e]

(***************************************************************************)
(* One level more: what was found stays, every new frame is found along an *)
(* edge from a frame found before, and no such frame is left out.          *)
(***************************************************************************)
LEMMA WidenedFacts ==
  ASSUME NEW reg, Sound(reg), NEW seen, DOMAIN seen \subseteq Frames
  PROVE  LET new == Widened(reg, seen)
         IN  /\ DOMAIN seen \subseteq DOMAIN new /\ DOMAIN new \subseteq Frames
             /\ \A f \in DOMAIN seen : new[f] = seen[f]
             /\ \A f \in DOMAIN new \ DOMAIN seen :
                  \E e, g : Found(reg, seen, f, e, g) /\ new[f] = seen[g] \cup {e}
             /\ \A f \in Frames : \A e, g : Found(reg, seen, f, e, g) => f \in DOMAIN new
<1> DEFINE next == {f \in Frames \ DOMAIN seen : Via(reg, seen, f) # {}}
           new == Widened(reg, seen)
<1>1. /\ DOMAIN new = DOMAIN seen \cup next
      /\ \A f \in DOMAIN seen : new[f] = seen[f]
      /\ \A f \in next : LET eg == CHOOSE x \in Via(reg, seen, f) : TRUE
                         IN  new[f] = seen[eg[2]] \cup {eg[1]}
  BY DEF Widened
<1>2. ASSUME NEW f \in next
      PROVE  \E e, g : Found(reg, seen, f, e, g) /\ new[f] = seen[g] \cup {e}
  <2> DEFINE eg == CHOOSE x \in Via(reg, seen, f) : TRUE
  <2>1. eg \in Via(reg, seen, f)
    OBVIOUS
  <2>2. /\ eg[1] \in SearchEdges(reg) /\ eg[2] \in DOMAIN seen
        /\ {eg[1], reg.entries[eg[1]].record.parent} = {f, eg[2]}
    BY <2>1 DEF Via, Ends
  <2>3. reg.entries[eg[1]].record.parent = ParentOf(reg)[eg[1]] /\ f # eg[2]
    BY <2>2, EdgeFacts
  <2>4. new[f] = seen[eg[2]] \cup {eg[1]}
    BY <1>1
  <2> HIDE DEF eg, new
  <2>5. Found(reg, seen, f, eg[1], eg[2])
    BY <2>2, <2>3 DEF Found
  <2> QED BY <2>4, <2>5
<1>3. ASSUME NEW f \in Frames, NEW e, NEW g, Found(reg, seen, f, e, g), f \notin DOMAIN seen
      PROVE  f \in next
  <2>1. Ends(reg, e) = {f, g}
    BY <1>3, EdgeFacts DEF Found, Ends
  <2>2. <<e, g>> \in Via(reg, seen, f)
    BY <1>3, <2>1 DEF Via, Found
  <2> QED BY <1>3, <2>2
<1> HIDE DEF new
<1> QED BY <1>1, <1>2, <1>3 DEF new

(***************************************************************************)
(* The edges used so far, whose ends have all been found; and a search     *)
(* that no edge leads out of.  Until then every level uses one edge more.  *)
(***************************************************************************)
Used(seen) == UNION {seen[f] : f \in DOMAIN seen}

Saturated(reg, seen) ==
  \A e \in SearchEdges(reg) : e \in DOMAIN seen <=> ParentOf(reg)[e] \in DOMAIN seen

Spent(reg, seen, n) ==
  /\ DOMAIN seen \subseteq Frames
  /\ Used(seen) \subseteq SearchEdges(reg)
  /\ \A e \in Used(seen) : e \in DOMAIN seen /\ ParentOf(reg)[e] \in DOMAIN seen
  /\ Saturated(reg, seen) \/ Cardinality(Used(seen)) >= n

(***************************************************************************)
(* A level of the search uses a new edge or finds nothing.                 *)
(***************************************************************************)
LEMMA SpentStep ==
  ASSUME NEW reg, Sound(reg), NEW seen, NEW n \in Nat, Spent(reg, seen, n)
  PROVE  Spent(reg, Widened(reg, seen), n + 1)
<1> DEFINE new == Widened(reg, seen)
           E == SearchEdges(reg)
           P == ParentOf(reg)
<1> HIDE DEF new
<1>1. /\ DOMAIN seen \subseteq DOMAIN new /\ DOMAIN new \subseteq Frames
      /\ \A f \in DOMAIN seen : new[f] = seen[f]
      /\ \A f \in DOMAIN new \ DOMAIN seen :
           \E e, g : Found(reg, seen, f, e, g) /\ new[f] = seen[g] \cup {e}
      /\ \A f \in Frames : \A e, g : Found(reg, seen, f, e, g) => f \in DOMAIN new
  BY WidenedFacts DEF Spent, new
<1>2. Used(seen) \subseteq Used(new)
  BY <1>1 DEF Used
<1>3. ASSUME NEW e \in Used(new)
      PROVE  e \in E /\ e \in DOMAIN new /\ P[e] \in DOMAIN new
  <2>1. PICK f \in DOMAIN new : e \in new[f]
    BY DEF Used
  <2>2. CASE f \in DOMAIN seen
    <3>1. e \in Used(seen)
      BY <1>1, <2>1, <2>2 DEF Used
    <3> QED BY <1>1, <3>1 DEF Spent
  <2>3. CASE f \notin DOMAIN seen
    <3>1. PICK d, g : Found(reg, seen, f, d, g) /\ new[f] = seen[g] \cup {d}
      BY <1>1, <2>3
    <3>2. CASE e = d
      BY <1>1, <3>1, <3>2 DEF Found
    <3>3. CASE e \in seen[g]
      <4>1. e \in Used(seen)
        BY <3>1, <3>3 DEF Used, Found
      <4> QED BY <1>1, <4>1 DEF Spent
    <3> QED BY <2>1, <3>1, <3>2, <3>3
  <2> QED BY <2>2, <2>3
<1>4. CASE Saturated(reg, seen)
  <2>1. DOMAIN new = DOMAIN seen
    BY <1>1, <1>4 DEF Saturated, Found
  <2>2. Saturated(reg, new)
    BY <1>4, <2>1 DEF Saturated
  <2> QED BY <1>1, <1>3, <2>2 DEF Spent, new
<1>5. CASE ~Saturated(reg, seen)
  <2>1. PICK d \in E : ~ (d \in DOMAIN seen <=> P[d] \in DOMAIN seen)
    BY <1>5 DEF Saturated
  <2>2. d \in Frames /\ P[d] \in Frames
    BY EdgeFacts
  <2>3. PICK f \in DOMAIN new : f \notin DOMAIN seen
    <3>1. CASE d \in DOMAIN seen
      <4>1. Found(reg, seen, P[d], d, d)
        BY <3>1 DEF Found
      <4> QED BY <1>1, <2>1, <2>2, <3>1, <4>1
    <3>2. CASE d \notin DOMAIN seen
      <4>1. Found(reg, seen, d, d, P[d])
        BY <2>1, <3>2 DEF Found
      <4> QED BY <1>1, <2>1, <2>2, <3>2, <4>1
    <3> QED BY <3>1, <3>2
  <2>4. PICK e, g : Found(reg, seen, f, e, g) /\ new[f] = seen[g] \cup {e}
    BY <1>1, <2>3
  <2>5. e \notin Used(seen)
    BY <2>3, <2>4 DEF Found, Spent
  <2>6. Used(seen) \cup {e} \subseteq Used(new)
    BY <1>2, <2>3, <2>4 DEF Used
  <2>7. IsFiniteSet(Used(seen)) /\ IsFiniteSet(Used(new))
    BY <1>3, EdgeFacts, FS_Subset DEF Spent
  <2>8. /\ Cardinality(Used(seen) \cup {e}) = Cardinality(Used(seen)) + 1
        /\ Cardinality(Used(seen) \cup {e}) <= Cardinality(Used(new))
    BY <2>5, <2>6, <2>7, FS_AddElement, FS_Subset
  <2>9. Cardinality(Used(seen)) \in Nat /\ Cardinality(Used(new)) \in Nat
    BY <2>7, FS_CardinalityType
  <2>10. Cardinality(Used(seen)) >= n
    BY <1>5 DEF Spent
  <2>11. Cardinality(Used(new)) >= n + 1
    BY <2>8, <2>9, <2>10
  <2> QED BY <1>1, <1>3, <2>11 DEF Spent, new
<1> QED BY <1>4, <1>5

(***************************************************************************)
(* A search that has used as many edges as there are has used all of them. *)
(***************************************************************************)
LEMMA SpentSaturates ==
  ASSUME NEW reg, Sound(reg), NEW seen, Spent(reg, seen, Cardinality(SearchEdges(reg)))
  PROVE  Saturated(reg, seen)
<1> SUFFICES ASSUME ~Saturated(reg, seen)
             PROVE  FALSE
  OBVIOUS
<1>1. IsFiniteSet(SearchEdges(reg)) /\ Cardinality(SearchEdges(reg)) \in Nat
  BY EdgeFacts
<1>2. /\ IsFiniteSet(Used(seen))
      /\ Cardinality(Used(seen)) <= Cardinality(SearchEdges(reg))
      /\ Cardinality(SearchEdges(reg)) = Cardinality(Used(seen))
           => SearchEdges(reg) = Used(seen)
  BY <1>1, FS_Subset DEF Spent
<1>3. Cardinality(Used(seen)) \in Nat
  BY <1>2, FS_CardinalityType
<1>4. Cardinality(Used(seen)) >= Cardinality(SearchEdges(reg))
  BY DEF Spent
<1>5. SearchEdges(reg) = Used(seen)
  BY <1>1, <1>2, <1>3, <1>4
<1> QED BY <1>5 DEF Spent, Saturated

-----------------------------------------------------------------------------
(***************************************************************************)
(* In a tree that does not hang in a cycle: what the search knows of the   *)
(* frames it found is the path to each.  They are a connected part of the  *)
(* tree: a frame off the line of p was found after its parent, and one on  *)
(* it after the frame below.                                               *)
(***************************************************************************)
Tree(reg, p, seen) ==
  LET P == ParentOf(reg)
  IN  /\ p \in DOMAIN seen
      /\ \A f \in DOMAIN seen :
           /\ ~Cyclic(P, f) /\ Joined(P, p, f)
           /\ seen[f] = PathEdges(P, p, f)
           /\ \/ f \in AtOrAbove(P, p)
              \/ f \in DOMAIN P /\ P[f] \in DOMAIN seen
      /\ \A h \in AtOrAbove(P, p) \cap DOMAIN P : P[h] \in DOMAIN seen => h \in DOMAIN seen

(***************************************************************************)
(* In a tree that hangs in a cycle every edge does.                        *)
(***************************************************************************)
Ring(reg, p, seen) ==
  LET P == ParentOf(reg)
  IN  /\ p \in DOMAIN seen /\ seen[p] = {}
      /\ \A f \in DOMAIN seen :
           /\ Cyclic(P, f)
           /\ \A e \in seen[f] : Cyclic(P, e)
           /\ f # p => seen[f] # {}

(***************************************************************************)
(* The frames above a child and its parent, outside of a cycle: the child  *)
(* comes on top of what is above the parent.                               *)
(***************************************************************************)
LEMMA ChildLine ==
  ASSUME NEW P, NEW f \in DOMAIN P, ~Cyclic(P, P[f])
  PROVE  /\ AtOrAbove(P, f) = {f} \cup AtOrAbove(P, P[f])
         /\ f \notin AtOrAbove(P, P[f])
         /\ ~Cyclic(P, f)
<1>1. AtOrAbove(P, f) = {f} \cup AtOrAbove(P, P[f])
  BY Above, AboveAbove, AboveParent
<1>2. ~Cyclic(P, f)
  BY <1>1 DEF Cyclic
<1> QED BY <1>1, <1>2, ParentNotBelow

(***************************************************************************)
(* Neither a frame with a parent nor the parent hangs in a cycle, if one   *)
(* of them does not.                                                       *)
(***************************************************************************)
LEMMA ParentLine ==
  ASSUME NEW P, NEW f \in DOMAIN P, ~Cyclic(P, f)
  PROVE  ~Cyclic(P, P[f])
<1>1. PICK r \in AtOrAbove(P, f) : r \notin DOMAIN P
  BY DEF Cyclic
<1>2. P[f] \in AtOrAbove(P, f)
  BY Above
<1>3. r \in AtOrAbove(P, P[f])
  BY <1>1, <1>2, RootAboveAll
<1> QED BY <1>1, <1>3 DEF Cyclic

(***************************************************************************)
(* Only one frame of a line has a given parent.                            *)
(***************************************************************************)
LEMMA OneBelow ==
  ASSUME NEW P, NEW p, NEW g \in AtOrAbove(P, p) \cap DOMAIN P,
         NEW h \in AtOrAbove(P, p) \cap DOMAIN P, P[g] = P[h], ~Cyclic(P, P[g])
  PROVE  g = h
<1>1. h \in AtOrAbove(P, g) \/ g \in AtOrAbove(P, h)
  BY AboveLinear
<1> QED BY <1>1, ChildLine

(***************************************************************************)
(* The search goes down an edge of the tree, to a frame off the line of p. *)
(***************************************************************************)
LEMMA DownStep ==
  ASSUME NEW P, NEW p, NEW f \in DOMAIN P, f \notin AtOrAbove(P, p),
         ~Cyclic(P, P[f]), Joined(P, p, P[f])
  PROVE  /\ ~Cyclic(P, f) /\ Joined(P, p, f)
         /\ PathEdges(P, p, f) = PathEdges(P, p, P[f]) \cup {f}
<1> DEFINE U == AtOrAbove(P, p)
           V == AtOrAbove(P, P[f])
<1>1. AtOrAbove(P, f) = {f} \cup V /\ f \notin V /\ ~Cyclic(P, f)
  BY ChildLine
<1>2. Joined(P, p, f)
  BY <1>1 DEF Joined
<1> HIDE DEF U, V
<1>3. ((U \ ({f} \cup V)) \cup (({f} \cup V) \ U)) \cap DOMAIN P
        = (((U \ V) \cup (V \ U)) \cap DOMAIN P) \cup {f}
  BY DEF U
<1> QED BY <1>1, <1>2, <1>3 DEF PathEdges, U, V

(***************************************************************************)
(* The search goes up an edge of the tree, on the line of p.               *)
(***************************************************************************)
LEMMA UpStep ==
  ASSUME NEW P, NEW p, NEW g \in DOMAIN P, g \in AtOrAbove(P, p), ~Cyclic(P, g)
  PROVE  /\ ~Cyclic(P, P[g]) /\ Joined(P, p, P[g])
         /\ PathEdges(P, p, P[g]) = PathEdges(P, p, g) \cup {g}
<1> DEFINE U == AtOrAbove(P, p)
           V == AtOrAbove(P, P[g])
<1>1. ~Cyclic(P, P[g])
  BY ParentLine
<1>2. AtOrAbove(P, g) = {g} \cup V /\ g \notin V
  BY <1>1, ChildLine
<1>3. P[g] \in U /\ P[g] \in V
  BY Above
<1>4. Joined(P, p, P[g])
  BY <1>3 DEF Joined
<1>5. V \subseteq U /\ g \in U
  BY <1>3, AboveAbove
<1> HIDE DEF U, V
<1>6. ((U \ V) \cup (V \ U)) \cap DOMAIN P
        = (((U \ ({g} \cup V)) \cup (({g} \cup V) \ U)) \cap DOMAIN P) \cup {g}
  BY <1>2, <1>5
<1> QED BY <1>1, <1>2, <1>4, <1>6 DEF PathEdges, U, V

(***************************************************************************)
(* A level of the search in a tree without a cycle.                        *)
(***************************************************************************)
LEMMA TreeStep ==
  ASSUME NEW reg, Sound(reg), NEW p, NEW seen, DOMAIN seen \subseteq Frames,
         Tree(reg, p, seen)
  PROVE  Tree(reg, p, Widened(reg, seen))
<1> DEFINE P == ParentOf(reg)
           new == Widened(reg, seen)
           U == AtOrAbove(P, p)
<1> HIDE DEF new, P
<1>1. /\ DOMAIN seen \subseteq DOMAIN new /\ DOMAIN new \subseteq Frames
      /\ \A f \in DOMAIN seen : new[f] = seen[f]
      /\ \A f \in DOMAIN new \ DOMAIN seen :
           \E e, g : Found(reg, seen, f, e, g) /\ new[f] = seen[g] \cup {e}
  BY WidenedFacts DEF new
<1>2. /\ p \in DOMAIN seen
      /\ \A f \in DOMAIN seen :
           /\ ~Cyclic(P, f) /\ Joined(P, p, f)
           /\ seen[f] = PathEdges(P, p, f)
           /\ f \in U \/ (f \in DOMAIN P /\ P[f] \in DOMAIN seen)
      /\ \A h \in U \cap DOMAIN P : P[h] \in DOMAIN seen => h \in DOMAIN seen
  BY DEF Tree, P
<1>3. ASSUME NEW f \in DOMAIN new, f \notin DOMAIN seen
      PROVE  /\ ~Cyclic(P, f) /\ Joined(P, p, f)
             /\ new[f] = PathEdges(P, p, f)
             /\ f \in U \/ (f \in DOMAIN P /\ P[f] \in DOMAIN seen)
             /\ \A h \in U \cap DOMAIN P : P[h] = f => h \in DOMAIN seen
  <2>1. PICK e, g : Found(reg, seen, f, e, g) /\ new[f] = seen[g] \cup {e}
    BY <1>1, <1>3
  <2>2. e \in DOMAIN P /\ g \in DOMAIN seen
    BY <2>1, EdgeFacts DEF Found, P
  <2>3. CASE f = e /\ g = P[e]
    <3>1. f \notin U
      BY <1>2, <1>3, <2>2, <2>3
    <3>2. /\ ~Cyclic(P, f) /\ Joined(P, p, f)
          /\ PathEdges(P, p, f) = PathEdges(P, p, g) \cup {f}
      BY <1>2, <2>2, <2>3, <3>1, DownStep
    <3>3. \A h \in U \cap DOMAIN P : P[h] # f
      BY <3>1, Above
    <3> QED BY <1>2, <2>1, <2>2, <2>3, <3>2, <3>3
  <2>4. CASE g = e /\ f = P[e]
    <3>1. g \in U
      BY <1>2, <1>3, <2>2, <2>4
    <3>2. /\ ~Cyclic(P, f) /\ Joined(P, p, f)
          /\ PathEdges(P, p, f) = PathEdges(P, p, g) \cup {g}
      BY <1>2, <2>2, <2>4, <3>1, UpStep
    <3>3. \A h \in U \cap DOMAIN P : P[h] = f => h = g
      BY <2>2, <2>4, <3>1, <3>2, OneBelow
    <3>4. f \in U
      BY <2>2, <2>4, <3>1, Above
    <3> QED BY <1>2, <2>1, <2>2, <2>4, <3>2, <3>3, <3>4
  <2> QED BY <2>1, <2>3, <2>4 DEF Found, P
<1>4. /\ p \in DOMAIN new
      /\ \A f \in DOMAIN new :
           /\ ~Cyclic(P, f) /\ Joined(P, p, f)
           /\ new[f] = PathEdges(P, p, f)
           /\ f \in U \/ (f \in DOMAIN P /\ P[f] \in DOMAIN new)
      /\ \A h \in U \cap DOMAIN P : P[h] \in DOMAIN new => h \in DOMAIN new
  <2> HIDE DEF U
  <2> QED BY <1>1, <1>2, <1>3
<1> QED BY <1>4 DEF Tree, P, new

(***************************************************************************)
(* A level of the search in a tree with a cycle.                           *)
(***************************************************************************)
LEMMA RingStep ==
  ASSUME NEW reg, Sound(reg), NEW p, NEW seen, DOMAIN seen \subseteq Frames,
         Ring(reg, p, seen)
  PROVE  Ring(reg, p, Widened(reg, seen))
<1> DEFINE P == ParentOf(reg)
           new == Widened(reg, seen)
<1> HIDE DEF new, P
<1>1. /\ DOMAIN seen \subseteq DOMAIN new
      /\ \A f \in DOMAIN seen : new[f] = seen[f]
      /\ \A f \in DOMAIN new \ DOMAIN seen :
           \E e, g : Found(reg, seen, f, e, g) /\ new[f] = seen[g] \cup {e}
  BY WidenedFacts DEF new
<1>2. /\ p \in DOMAIN seen /\ seen[p] = {}
      /\ \A f \in DOMAIN seen :
           /\ Cyclic(P, f)
           /\ \A e \in seen[f] : Cyclic(P, e)
           /\ f # p => seen[f] # {}
  BY DEF Ring, P
<1>3. ASSUME NEW f \in DOMAIN new, f \notin DOMAIN seen
      PROVE  /\ Cyclic(P, f)
             /\ \A e \in new[f] : Cyclic(P, e)
             /\ new[f] # {}
  <2>1. PICK e, g : Found(reg, seen, f, e, g) /\ new[f] = seen[g] \cup {e}
    BY <1>1, <1>3
  <2>2. e \in DOMAIN P /\ Cyclic(P, g) /\ \A d \in seen[g] : Cyclic(P, d)
    BY <1>2, <2>1, EdgeFacts DEF Found, P
  <2>3. CASE f = e /\ g = P[e]
    <3>1. AtOrAbove(P, f) \subseteq {f} \cup AtOrAbove(P, g)
      BY <2>2, <2>3, AboveParent
    <3>2. Cyclic(P, f)
      BY <2>2, <2>3, <3>1 DEF Cyclic
    <3> QED BY <2>1, <2>2, <2>3, <3>2
  <2>4. CASE g = e /\ f = P[e]
    <3>1. AtOrAbove(P, f) \subseteq AtOrAbove(P, g)
      BY <2>2, <2>4, Above, AboveAbove
    <3>2. Cyclic(P, f)
      BY <2>2, <3>1 DEF Cyclic
    <3> QED BY <2>1, <2>2, <2>4, <3>2
  <2> QED BY <2>1, <2>3, <2>4 DEF Found, P
<1>4. /\ p \in DOMAIN new /\ new[p] = {}
      /\ \A f \in DOMAIN new :
           /\ Cyclic(P, f)
           /\ \A e \in new[f] : Cyclic(P, e)
           /\ f # p => new[f] # {}
  BY <1>1, <1>2, <1>3
<1> QED BY <1>4 DEF Ring, P, new

(***************************************************************************)
(* The answer of the search: no edge leads out of it, and it is the tree   *)
(* or the ring that p hangs in.                                            *)
(***************************************************************************)
Level(reg, p, seen, n) ==
  /\ Spent(reg, seen, n)
  /\ ~Cyclic(ParentOf(reg), p) => Tree(reg, p, seen)
  /\ Cyclic(ParentOf(reg), p) => Ring(reg, p, seen)

(***************************************************************************)
(* It holds of the level that has only p, and so of the last one.          *)
(***************************************************************************)
LEMMA FirstLevel ==
  ASSUME NEW reg, Sound(reg), NEW p \in Frames
  PROVE  Level(reg, p, Start(p), 0)
<1> DEFINE P == ParentOf(reg)
<1>1. DOMAIN Start(p) = {p} /\ Start(p)[p] = {}
  BY DEF Start
<1>2. Used(Start(p)) = {}
  BY <1>1 DEF Used
<1>3. Spent(reg, Start(p), 0)
  BY <1>1, <1>2, FS_EmptySet DEF Spent
<1>4. ASSUME ~Cyclic(P, p)
      PROVE  Tree(reg, p, Start(p))
  <2>1. \A h \in AtOrAbove(P, p) \cap DOMAIN P : P[h] # p
    BY <1>4, ParentNotBelow
  <2>2. Joined(P, p, p) /\ PathEdges(P, p, p) = {} /\ p \in AtOrAbove(P, p)
    BY PathFacts, Above
  <2>3. \A f \in DOMAIN Start(p) :
          /\ ~Cyclic(P, f) /\ Joined(P, p, f)
          /\ Start(p)[f] = PathEdges(P, p, f)
          /\ f \in AtOrAbove(P, p)
    BY <1>1, <1>4, <2>2
  <2> HIDE DEF P
  <2> QED BY <1>1, <2>1, <2>3 DEF Tree, P
<1>5. Cyclic(P, p) => Ring(reg, p, Start(p))
  BY <1>1 DEF Ring
<1> QED BY <1>3, <1>4, <1>5 DEF Level

(***************************************************************************)
(* By induction over the levels, it holds of the answer.                   *)
(***************************************************************************)
LEMMA SearchLevel ==
  ASSUME NEW reg, Sound(reg), NEW p \in Frames
  PROVE  Level(reg, p, Search(reg, p), Cardinality(SearchEdges(reg)))
<1> DEFINE N == Cardinality(SearchEdges(reg))
<1>1. N \in Nat
  BY EdgeFacts
<1>2. PICK g : IsLevels(g, reg, p, N) /\ Search(reg, p) = g[N]
  <2> HIDE DEF N
  <2> QED BY <1>1, SearchLevels DEF N
<1> HIDE DEF N
<1> DEFINE T == {n \in 0 .. N : ~Level(reg, p, g[n], n)}
<1>3. T = {}
  <2> SUFFICES ASSUME T # {}
               PROVE  FALSE
    OBVIOUS
  <2>1. T \subseteq Nat
    BY <1>1
  <2>2. PICK x \in T : \A y \in T : x <= y
    BY <2>1, LeastNatural
  <2>3. x \in 0 .. N /\ ~Level(reg, p, g[x], x)
    OBVIOUS
  <2>4. g[x] = IF x = 0 THEN Start(p) ELSE Widened(reg, g[x - 1])
    BY <1>2, <2>3, Zenon DEF IsLevels
  <2>5. CASE x = 0
    BY <2>3, <2>4, <2>5, FirstLevel
  <2>6. CASE x # 0
    <3>1. x - 1 \in 0 .. N /\ x - 1 \in Nat /\ ~(x <= x - 1) /\ (x - 1) + 1 = x
      BY <1>1, <2>3, <2>6
    <3>2. Level(reg, p, g[x - 1], x - 1)
      BY <2>2, <3>1
    <3>3. DOMAIN g[x - 1] \subseteq Frames
      BY <3>2 DEF Level, Spent
    <3>4. Spent(reg, Widened(reg, g[x - 1]), (x - 1) + 1)
      BY <3>1, <3>2, SpentStep DEF Level
    <3>5. Level(reg, p, Widened(reg, g[x - 1]), x)
      BY <3>1, <3>2, <3>3, <3>4, TreeStep, RingStep DEF Level
    <3> QED BY <2>3, <2>4, <2>6, <3>5
  <2> QED BY <2>5, <2>6
<1>4. N \in 0 .. N
  BY <1>1
<1>5. Level(reg, p, g[N], N)
  BY <1>3, <1>4
<1> QED BY <1>2, <1>5 DEF N

(***************************************************************************)
(* The search reaches whatever is joined to p by clean edges: up the line  *)
(* of p to a frame above c, and down from there.                           *)
(***************************************************************************)
LEMMA SearchReaches ==
  ASSUME NEW reg, Sound(reg), NEW p, NEW c, NEW seen, p \in DOMAIN seen,
         Saturated(reg, seen),
         ~Cyclic(ParentOf(reg), c), Joined(ParentOf(reg), p, c),
         \A e \in PathEdges(ParentOf(reg), p, c) : Clean(reg, e)
  PROVE  c \in DOMAIN seen
<1> DEFINE P == ParentOf(reg)
           U == AtOrAbove(P, p)
           V == AtOrAbove(P, c)
           K == DOMAIN seen
           met == K \cap U \cap V
<1> HIDE DEF P
<1>1. \A y \in ((U \ V) \cup (V \ U)) \cap DOMAIN P : y \in K <=> P[y] \in K
  <2>1. \A y \in ((U \ V) \cup (V \ U)) \cap DOMAIN P : y \in Known(reg) /\ Clean(reg, y)
    BY EdgeFacts DEF P, PathEdges
  <2>2. \A y \in ((U \ V) \cup (V \ U)) \cap DOMAIN P : y \in SearchEdges(reg)
    BY <2>1, EdgeFacts
  <2> QED BY <2>2 DEF Saturated, P
<1>2. \A y \in U : y \in K \/ \E z \in met : y \in AtOrAbove(P, z)
  <2> DEFINE S == {y \in U : y \in K \/ \E z \in met : y \in AtOrAbove(P, z)}
  <2>1. p \in S
    BY Above
  <2>2. ASSUME NEW y \in S \cap DOMAIN P
        PROVE  P[y] \in S
    <3>1. P[y] \in U
      BY Above
    <3>2. CASE \E z \in met : y \in AtOrAbove(P, z)
      BY <3>1, <3>2, Above
    <3>3. CASE y \in K /\ y \in V
      <4>1. y \in met /\ P[y] \in AtOrAbove(P, y)
        BY <2>2, <3>3, Above
      <4> QED BY <3>1, <4>1
    <3>4. CASE y \in K /\ y \notin V
      BY <1>1, <2>2, <3>1, <3>4
    <3> QED BY <2>2, <3>2, <3>3, <3>4
  <2>3. U \subseteq S
    <3> HIDE DEF S, K, met
    <3> QED BY <2>1, <2>2, AboveLeast
  <2> QED BY <2>3
<1>3. PICK x \in U : x \in V
  BY DEF Joined, P
<1>4. \A z \in V : ~Cyclic(P, z)
  <2>1. PICK r \in V : r \notin DOMAIN P
    BY DEF Cyclic, P
  <2> QED BY <2>1, RootAboveAll DEF Cyclic
<1>5. \A y, z \in V : y \in AtOrAbove(P, z) /\ z \in AtOrAbove(P, y) => y = z
  <2> SUFFICES ASSUME NEW y \in V, NEW z \in V, y # z,
                      y \in AtOrAbove(P, z), z \in AtOrAbove(P, y)
               PROVE  FALSE
    OBVIOUS
  <2>1. y \in DOMAIN P
    BY AboveParent
  <2>2. z \in AtOrAbove(P, P[y])
    BY <2>1, AboveParent
  <2>3. y \in AtOrAbove(P, P[y])
    BY <2>2, AboveAbove
  <2>4. ~Cyclic(P, P[y])
    BY <1>4, <2>1, ParentLine
  <2> QED BY <2>1, <2>3, <2>4, ParentNotBelow
<1> SUFFICES ASSUME c \notin K
             PROVE  FALSE
  OBVIOUS
<1>6. c \notin U
  <2> SUFFICES ASSUME c \in U
               PROVE  FALSE
    OBVIOUS
  <2>1. c \in V
    BY Above
  <2>2. PICK z \in met : c \in AtOrAbove(P, z)
    BY <1>2
  <2>3. z \in AtOrAbove(P, c)
    OBVIOUS
  <2>4. c = z
    BY <1>5, <2>1, <2>2, <2>3
  <2> QED BY <2>4
<1> DEFINE S == {y \in V : y \notin K /\ y \notin U}
<1>7. c \in S
  BY <1>6, Above
<1>8. ASSUME NEW y \in S \cap DOMAIN P
      PROVE  P[y] \in S
  <2>1. P[y] \in V /\ P[y] \notin K
    BY <1>1, Above
  <2>2. ASSUME P[y] \in U
        PROVE  FALSE
    <3>1. PICK z \in met : P[y] \in AtOrAbove(P, z)
      BY <1>2, <2>1, <2>2
    <3>2. z \in AtOrAbove(P, y) \/ y \in AtOrAbove(P, z)
      BY AboveLinear
    <3>3. y \notin AtOrAbove(P, z)
      BY AboveAbove
    <3>4. z # y /\ z \in AtOrAbove(P, P[y])
      BY <3>2, <3>3, AboveParent
    <3>5. z = P[y]
      BY <1>5, <2>1, <3>1, <3>4
    <3> QED BY <2>1, <3>5
  <2> QED BY <2>1, <2>2
<1>9. V \subseteq S
  <2> HIDE DEF S, U, K, met
  <2> QED BY <1>7, <1>8, AboveLeast
<1> QED BY <1>3, <1>9

(***************************************************************************)
(* What the search answers for two frames of a sound registry is what      *)
(* Resolves and Resolved say of them.                                      *)
(***************************************************************************)
LEMMA SearchAnswers ==
  ASSUME NEW reg, Sound(reg), NEW p \in Frames, NEW c \in Frames
  PROVE  /\ SearchResolves(reg, p, c) <=> Resolves(reg, p, c)
         /\ Resolves(reg, p, c) /\ p # c => Search(reg, p)[c] = PathEdges(ParentOf(reg), p, c)
<1> DEFINE P == ParentOf(reg)
           seen == Search(reg, p)
<1>1. /\ Saturated(reg, seen)
      /\ ~Cyclic(P, p) => Tree(reg, p, seen)
      /\ Cyclic(P, p) => Ring(reg, p, seen)
  BY SearchLevel, SpentSaturates DEF Level
<1>2. SearchResolves(reg, p, c) <=>
        /\ ~reg.overflow
        /\ c \in DOMAIN seen
        /\ \A e \in seen[c] : Clean(reg, e) /\ ~Cyclic(P, e)
  BY DEF SearchResolves
<1>3. Resolves(reg, p, c) <=>
        /\ ~reg.overflow
        /\ \/ p = c
           \/ /\ ~Cyclic(P, p) /\ ~Cyclic(P, c) /\ Joined(P, p, c)
              /\ \A e \in PathEdges(P, p, c) : Clean(reg, e)
  BY DEF Resolves
<1>4. PathEdges(P, p, p) = {}
  BY PathFacts
<1> HIDE DEF P, seen
<1>5. CASE Cyclic(P, p)
  <2>1. /\ p \in DOMAIN seen /\ seen[p] = {}
        /\ \A f \in DOMAIN seen :
             (\A e \in seen[f] : Cyclic(P, e)) /\ (f # p => seen[f] # {})
    BY <1>1, <1>5 DEF Ring, P
  <2> QED BY <1>2, <1>3, <1>5, <2>1
<1>6. CASE ~Cyclic(P, p)
  <2>1. /\ p \in DOMAIN seen
        /\ \A f \in DOMAIN seen :
             ~Cyclic(P, f) /\ Joined(P, p, f) /\ seen[f] = PathEdges(P, p, f)
    BY <1>1, <1>6 DEF Tree, P
  <2>2. ASSUME ~Cyclic(P, c), NEW e \in PathEdges(P, p, c)
        PROVE  ~Cyclic(P, e)
    <3>1. e \in AtOrAbove(P, p) \/ e \in AtOrAbove(P, c)
      BY DEF PathEdges
    <3>2. PICK r \in AtOrAbove(P, p) : r \notin DOMAIN P
      BY <1>6 DEF Cyclic
    <3>3. PICK q \in AtOrAbove(P, c) : q \notin DOMAIN P
      BY <2>2 DEF Cyclic
    <3>4. r \in AtOrAbove(P, e) \/ q \in AtOrAbove(P, e)
      BY <3>1, <3>2, <3>3, RootAboveAll
    <3> QED BY <3>2, <3>3, <3>4 DEF Cyclic
  <2>3. ASSUME Resolves(reg, p, c), p # c
        PROVE  c \in DOMAIN seen
    BY <1>1, <1>3, <2>1, <2>3, SearchReaches DEF P
  <2>4. ASSUME Resolves(reg, p, c)
        PROVE  SearchResolves(reg, p, c)
    <3>1. CASE p = c
      BY <1>2, <1>3, <1>4, <2>1, <2>4, <3>1
    <3>2. CASE p # c
      <4>1. c \in DOMAIN seen /\ seen[c] = PathEdges(P, p, c)
        BY <2>1, <2>3, <2>4, <3>2
      <4>2. ~reg.overflow /\ ~Cyclic(P, c) /\ \A e \in PathEdges(P, p, c) : Clean(reg, e)
        BY <1>3, <2>4, <3>2
      <4> QED BY <1>2, <2>2, <4>1, <4>2
    <3> QED BY <3>1, <3>2
  <2>5. ASSUME SearchResolves(reg, p, c)
        PROVE  Resolves(reg, p, c)
    BY <1>2, <1>3, <1>6, <2>1, <2>5
  <2>6. Resolves(reg, p, c) /\ p # c => seen[c] = PathEdges(P, p, c)
    BY <2>1, <2>3
  <2> QED BY <2>4, <2>5, <2>6 DEF P, seen
<1>7. Cyclic(P, p) /\ p # c => ~Resolves(reg, p, c)
  BY <1>3
<1> QED BY <1>5, <1>6, <1>7 DEF P, seen

(***************************************************************************)
(* SearchIsExact for any frames, transforms, publishers and capacity: the  *)
(* breadth-first search of StaticTfRegistry::Resolve answers as Resolves   *)
(* and Resolved do, whatever was heard.  The registry is sound because the *)
(* record of an entry was heard of its child, and one that is not valid    *)
(* contests it.                                                            *)
(***************************************************************************)
THEOREM AuditSearchExact == AuditSpec => []SearchIsExact
<1>1. AuditTypeOK /\ AuditInv => Sound(audited)
  <2> SUFFICES ASSUME AuditTypeOK, AuditInv, NEW c \in Known(audited)
               PROVE  /\ audited.entries[c].record.child = c
                      /\ ~Valid(audited.entries[c].record) => audited.entries[c].conflict
    BY DEF AuditTypeOK, Sound
  <2>1. EntryInv(c)
    BY DEF AuditInv
  <2>2. PICK a \in About(c) : a[1] = audited.entries[c].record
    BY <2>1 DEF EntryInv
  <2>3. a \in told /\ a[1].child = c
    BY DEF About
  <2>4. ~Valid(a[1]) => Contested(c)
    BY <2>3 DEF Contested
  <2>5. audited.entries[c].conflict <=> Contested(c)
    BY <2>1 DEF EntryInv
  <2> QED BY <2>2, <2>3, <2>4, <2>5
<1>2. Sound(audited) => SearchIsExact
  BY SearchAnswers DEF SearchIsExact
<1> QED BY <1>1, <1>2, AuditTypeCorrect, AuditInvariant, PTL
=============================================================================
