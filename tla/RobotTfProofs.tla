--------------------------- MODULE RobotTfProofs ----------------------------
(***************************************************************************)
(* tf_mode=robot for every robot, every ROS graph around it, every rate of *)
(* samples and every interleaving of the bridge's threads.                 *)
(***************************************************************************)
EXTENDS RobotTf, StaticTfProofs

(***************************************************************************)
(* What the assumption says of the setup this process has.                 *)
(***************************************************************************)
LEMMA SetupFacts ==
  ASSUME setup \in Setups
  PROVE  /\ Seeds \subseteq {r \in Record : Valid(r)}
         /\ SdkSensors \subseteq {r \in Record : Valid(r)}
         /\ StaticFeed \subseteq Record \X Owners
         /\ setup.dynamic \subseteq Frames
         /\ \A p \in setup.poses : PoseSample(p)
         /\ Mount \in Record /\ Valid(Mount) /\ Mount.child = Device
         /\ Anchor \in Record /\ Valid(Anchor) /\ Anchor.child = World /\ Anchor.parent = Odom
BY RobotTfAssumption DEF Seeds, SdkSensors, StaticFeed

(***************************************************************************)
(* The registry and the history of what was observed.  An entry without a  *)
(* conflict agrees with everything heard of its child.                     *)
(***************************************************************************)
Agrees(e, a) == e.record = a[1] /\ e.owner = a[2] /\ Valid(a[1])

HeardInv ==
  ~registry.overflow =>
    \A a \in heard :
      /\ a[1].child \in Known(registry)
      /\ registry.entries[a[1].child].conflict \/ Agrees(registry.entries[a[1].child], a)

RegistryInv ==
  /\ setup \in Setups
  /\ IsRegistry(registry)
  /\ \A c \in Known(registry) : registry.entries[c].record.child = c
  /\ heard \subseteq Record \X Owners
  /\ announced \subseteq Record
  /\ HeardInv

(***************************************************************************)
(* The registry as seeded by PrepareRobotTfSession.                        *)
(***************************************************************************)
LEMMA RegistryInvInit == Init => RegistryInv
<1> SUFFICES ASSUME Init
             PROVE  RegistryInv
  OBVIOUS
<1> DEFINE first == [c \in SeedChildren |-> FirstEntry(SeedOf(c), Local)]
<1>1. setup \in Setups /\ heard = {} /\ announced \subseteq Record
  BY SetupFacts DEF Init
<1>2. registry = [entries |-> first, dynamic |-> {}, overflow |-> FALSE]
  BY DEF Init, EmptyRegistry
<1>3. \A c \in SeedChildren : SeedOf(c) \in Seeds /\ SeedOf(c).child = c
  BY DEF SeedChildren, SeedOf
<1>4. \A c \in SeedChildren : SeedOf(c) \in Record /\ Valid(SeedOf(c)) /\ c \in Frames
  BY <1>1, <1>3, SetupFacts DEF Record
<1>5. \A c \in SeedChildren : FirstEntry(SeedOf(c), Local) \in Entry
                              /\ FirstEntry(SeedOf(c), Local).record.child = c
  BY <1>3, <1>4 DEF FirstEntry, Entry, Authority
<1>6. first \in [SeedChildren -> Entry] /\ SeedChildren \in SUBSET Frames
  BY <1>4, <1>5
<1>7. Known(registry) = SeedChildren
  BY <1>2 DEF Known
<1>8. IsRegistry(registry)
  BY <1>2, <1>6, <1>7 DEF IsRegistry
<1>9. \A c \in Known(registry) : registry.entries[c].record.child = c
  BY <1>2, <1>5, <1>7
<1> QED BY <1>1, <1>8, <1>9 DEF RegistryInv, HeardInv

(***************************************************************************)
(* The four things a step may do to the registry: nothing, an announcement *)
(* of a publisher, a record of the bridge's own, a dynamic child.          *)
(***************************************************************************)
Nothing == registry' = registry /\ heard' = heard

Announcement ==
  \E r \in Record, owner \in Owners :
    registry' = Observed(registry, r, owner) /\ heard' = heard \cup {<<r, owner>>}

OwnRecord ==
  \E r \in Record : registry' = Observed(registry, r, Local) /\ heard' = heard

DynamicChild ==
  \E c \in Frames : registry' = ObservedDynamic(registry, c) /\ heard' = heard

(***************************************************************************)
(* Every step does one of the four, and leaves the setup alone.            *)
(***************************************************************************)
LEMMA RegistrySteps ==
  ASSUME RegistryInv, [Next]_vars
  PROVE  /\ Nothing \/ Announcement \/ OwnRecord \/ DynamicChild
         /\ setup' = setup /\ announced' \subseteq Record
<1> USE DEF RegistryInv
<1>1. ASSUME NEW a \in Audible, HearStatic(a[1], a[2])
      PROVE  Announcement /\ setup' = setup /\ announced' \subseteq Record
  <2>1. a \in Record \X Owners
    <3>1. Bridge \in Owners
      BY RobotTfAssumption
    <3> QED BY <3>1, SetupFacts DEF Audible
  <2> QED BY <1>1, <2>1 DEF HearStatic, Announcement
<1>2. ASSUME NEW c \in setup.dynamic, HearDynamic(c)
      PROVE  DynamicChild /\ setup' = setup /\ announced' \subseteq Record
  BY <1>2, SetupFacts DEF HearDynamic, DynamicChild
<1>3. CASE Install \/ DiscoveryEnds \/ PollRefresh \/ PollYield
  BY <1>3 DEF Install, DiscoveryEnds, PollRefresh, PollYield, Nothing
<1>4. CASE PollClaim
  BY <1>4, SetupFacts DEF PollClaim, OwnRecord
<1>5. ASSUME NEW p \in setup.poses, TakeSample(p) \/ DropSample(p)
      PROVE  Nothing /\ setup' = setup /\ announced' \subseteq Record
  BY <1>5 DEF TakeSample, DropSample, Nothing, sessionVars, vars
<1>6. CASE ComputePose
  <2>1. CASE PoseAnchors
    BY <1>6, <2>1, SetupFacts DEF ComputePose, PoseAnchors, OwnRecord
  <2>2. CASE \/ PoseRefused \/ PoseFixed \/ PoseRestarted \/ PoseNoAnchor
             \/ PoseAnchored \/ PoseAnchorLost
    BY <1>6, <2>2 DEF ComputePose, PoseRefused, PoseFixed, PoseRestarted, PoseNoAnchor,
                      PoseAnchored, PoseAnchorLost, PoseFails, Nothing
  <2> QED BY <1>6, <2>1, <2>2 DEF ComputePose
<1>7. CASE SendPose \/ UNCHANGED vars
  BY <1>7 DEF SendPose, Nothing, sessionVars, vars
<1> QED BY <1>1, <1>2, <1>3, <1>4, <1>5, <1>6, <1>7 DEF Next, Poll

(***************************************************************************)
(* The registry of a session only learns.                                  *)
(***************************************************************************)
LEMMA RegistryGrows ==
  ASSUME RegistryInv, Nothing \/ Announcement \/ OwnRecord \/ DynamicChild
  PROVE  IsRegistry(registry') /\ Grows(registry, registry')
<1> USE DEF RegistryInv
<1>1. CASE Nothing
  BY <1>1 DEF Nothing, Grows
<1>2. CASE Announcement \/ OwnRecord
  BY <1>2, ObservedGrows DEF Announcement, OwnRecord, Authority
<1>3. CASE DynamicChild
  BY <1>3, ObservedDynamicGrows DEF DynamicChild
<1> QED BY <1>1, <1>2, <1>3

(***************************************************************************)
(* What Observe makes of an entry that agrees with what was heard.         *)
(***************************************************************************)
LEMMA StillAgrees ==
  ASSUME NEW e \in Entry, NEW r \in Record, NEW owner \in Authority,
         NEW a \in Record \X Owners
  PROVE  /\ e.conflict \/ Agrees(e, a)
              => LET n == NextEntry(e, r, owner) IN n.conflict \/ Agrees(n, a)
         /\ a = <<r, owner>>
              => LET n == NextEntry(e, r, owner) IN n.conflict \/ Agrees(n, a)
<1> DEFINE n == NextEntry(e, r, owner)
<1>1. /\ n.record = e.record
      /\ n.owner = IF e.owner = Local THEN owner ELSE e.owner
      /\ e.conflict => n.conflict
      /\ Contradicts(e, r, owner) => n.conflict
  BY DEF NextEntry
<1>2. a[2] # Local
  BY RegistryAssumption
<1> HIDE DEF n
<1>3. e.conflict \/ Agrees(e, a) => n.conflict \/ Agrees(n, a)
  BY <1>1, <1>2 DEF Agrees
<1>4. a = <<r, owner>> => n.conflict \/ Agrees(n, a)
  BY <1>1, <1>2 DEF Agrees, Contradicts
<1> QED BY <1>3, <1>4 DEF n

(***************************************************************************)
(* Observe keeps the entries in agreement with all that was heard, for the *)
(* announcements of others and for the records the bridge seeds itself.    *)
(***************************************************************************)
LEMMA RegistryObserved ==
  ASSUME RegistryInv, NEW r \in Record, NEW owner \in Authority,
         registry' = Observed(registry, r, owner),
         \/ owner \in Owners /\ heard' = heard \cup {<<r, owner>>}
         \/ heard' = heard
  PROVE  /\ \A c \in Known(registry') : registry'.entries[c].record.child = c
         /\ heard' \subseteq Record \X Owners
         /\ HeardInv'
<1> USE DEF RegistryInv
<1>1. heard' \subseteq Record \X Owners
  OBVIOUS
<1>2. CASE r.child \in Known(registry)
  <2> DEFINE e == registry.entries[r.child]
  <2>1. /\ Known(registry') = Known(registry)
        /\ registry'.entries[r.child] = NextEntry(e, r, owner)
        /\ \A c \in Known(registry) \ {r.child} : registry'.entries[c] = registry.entries[c]
        /\ registry'.overflow = registry.overflow
    BY <1>2, ObserveAgain
  <2>2. NextEntry(e, r, owner).record = e.record /\ e \in Entry
    BY <1>2, RegistryFields DEF NextEntry
  <2>3. \A c \in Known(registry') : registry'.entries[c].record.child = c
    BY <1>2, <2>1, <2>2
  <2>4. ASSUME ~registry.overflow, NEW a \in heard'
        PROVE  LET c == a[1].child
               IN  /\ c \in Known(registry')
                   /\ registry'.entries[c].conflict \/ Agrees(registry'.entries[c], a)
    <3>1. a \in Record \X Owners
      BY <1>1
    <3>2. CASE a = <<r, owner>>
      BY <1>2, <2>1, <2>2, <3>1, <3>2, StillAgrees
    <3>3. CASE a \in heard /\ a[1].child = r.child
      <4>1. e.conflict \/ Agrees(e, a)
        BY <2>4, <3>3 DEF HeardInv
      <4>2. NextEntry(e, r, owner).conflict \/ Agrees(NextEntry(e, r, owner), a)
        BY <2>2, <3>1, <4>1, StillAgrees
      <4> QED BY <1>2, <2>1, <3>3, <4>2
    <3>4. CASE a \in heard /\ a[1].child # r.child
      BY <2>1, <2>4, <3>4 DEF HeardInv
    <3> QED BY <2>4, <3>2, <3>3, <3>4
  <2> QED BY <1>1, <2>1, <2>3, <2>4 DEF HeardInv
<1>3. CASE r.child \notin Known(registry) /\ Cardinality(Known(registry)) >= Capacity
  <2>1. registry' = [registry EXCEPT !.overflow = TRUE]
    BY <1>3 DEF Observed
  <2>2. registry'.overflow
    BY <2>1, RegistryFields
  <2>3. Known(registry') = Known(registry) /\ registry'.entries = registry.entries
    BY <1>3, ObserveFull
  <2> QED BY <1>1, <2>2, <2>3 DEF HeardInv
<1>4. CASE r.child \notin Known(registry) /\ ~(Cardinality(Known(registry)) >= Capacity)
  <2>1. /\ Known(registry') = Known(registry) \cup {r.child}
        /\ registry'.entries[r.child] = FirstEntry(r, owner)
        /\ \A c \in Known(registry) : registry'.entries[c] = registry.entries[c]
        /\ registry'.overflow = registry.overflow
    BY <1>4, ObserveFirst
  <2>2. /\ FirstEntry(r, owner).record = r /\ FirstEntry(r, owner).owner = owner
        /\ ~Valid(r) => FirstEntry(r, owner).conflict
    BY DEF FirstEntry
  <2>3. \A c \in Known(registry') : registry'.entries[c].record.child = c
    BY <1>4, <2>1, <2>2
  <2>4. ASSUME ~registry.overflow, NEW a \in heard'
        PROVE  LET c == a[1].child
               IN  /\ c \in Known(registry')
                   /\ registry'.entries[c].conflict \/ Agrees(registry'.entries[c], a)
    <3>1. CASE a = <<r, owner>>
      BY <2>1, <2>2, <3>1 DEF Agrees
    <3>2. CASE a \in heard
      BY <1>4, <2>1, <2>4, <3>2 DEF HeardInv
    <3> QED BY <2>4, <3>1, <3>2
  <2> QED BY <1>1, <2>1, <2>3, <2>4 DEF HeardInv
<1> QED BY <1>2, <1>3, <1>4

(***************************************************************************)
(* Every step keeps the invariant of the registry, which only learns.      *)
(***************************************************************************)
LEMMA RegistryInvStep ==
  RegistryInv /\ [Next]_vars => RegistryInv' /\ Grows(registry, registry')
<1> SUFFICES ASSUME RegistryInv, [Next]_vars
             PROVE  RegistryInv' /\ Grows(registry, registry')
  OBVIOUS
<1>1. /\ Nothing \/ Announcement \/ OwnRecord \/ DynamicChild
      /\ setup' = setup /\ announced' \subseteq Record
  BY RegistrySteps
<1>2. IsRegistry(registry') /\ Grows(registry, registry')
  BY <1>1, RegistryGrows
<1>3. /\ \A c \in Known(registry') : registry'.entries[c].record.child = c
      /\ heard' \subseteq Record \X Owners
      /\ HeardInv'
  <2>1. CASE Nothing
    BY <2>1 DEF RegistryInv, HeardInv, Nothing
  <2>2. CASE Announcement \/ OwnRecord
    BY <2>2, RegistryObserved DEF Announcement, OwnRecord, Authority
  <2>3. CASE DynamicChild
    <3>1. registry'.entries = registry.entries /\ heard' = heard
      BY <2>3, ObservedDynamicGrows DEF DynamicChild, RegistryInv
    <3>2. registry.overflow => registry'.overflow
      BY <1>2 DEF Grows
    <3> QED BY <3>1, <3>2 DEF RegistryInv, HeardInv, Known
  <2> QED BY <1>1, <2>1, <2>2, <2>3
<1> QED BY <1>1, <1>2, <1>3 DEF RegistryInv

-----------------------------------------------------------------------------
(***************************************************************************)
(* Whatever was adopted is what its path still is, unless it hangs in a    *)
(* cycle by now; all of the snapshot was adopted; the anchor is the entry  *)
(* of camera_init.                                                         *)
(***************************************************************************)
SnapshotAdopted ==
  snapshot # None =>
    /\ <<Device, snapshot.device>> \in adopted
    /\ \A c \in DeviceCameras : <<c, snapshot.cameras[c]>> \in adopted
    /\ snapshot.imu # None => <<Imu, snapshot.imu>> \in adopted

AdoptedInv ==
  /\ NeverReloads
  /\ \A a \in adopted : /\ Fixed(registry, Base, a[1], a[2])
                        /\ a[1] = Base => a[2] = {}
  /\ SnapshotAdopted
  /\ odom # None => odom = Anchor
  /\ odom # None /\ ~registry.overflow =>
       /\ World \in Known(registry)
       /\ registry.entries[World].record = Anchor

(***************************************************************************)
(* Nothing is adopted before the first poll.                               *)
(***************************************************************************)
LEMMA AdoptedInvInit == Init => AdoptedInv
BY DEF Init, AdoptedInv, NeverReloads, SnapshotAdopted

(***************************************************************************)
(* Poll adopts only paths that resolve.                                    *)
(***************************************************************************)
NewlyAdopted(a) ==
  Resolves(registry', Base, a[1]) /\ a[2] = Resolved(registry', Base, a[1])

(***************************************************************************)
(* What a poll adopts is what the audit just resolved.                     *)
(***************************************************************************)
LEMMA PollAdopts ==
  ASSUME setup' = setup, snapshot' = Refreshed(registry', buffer'), Adopt
  PROVE  /\ \A a \in adopted' : a \in adopted \/ NewlyAdopted(a)
         /\ adopted \subseteq adopted'
         /\ SnapshotAdopted'
<1> DEFINE s == snapshot'
           imu == IF HasChild(registry', Imu) /\ Query(registry', buffer', Base, Imu)
                    THEN Resolved(registry', Base, Imu) ELSE None
           cameras == [c \in DeviceCameras |-> Resolved(registry', Base, c)]
           full == [device |-> Resolved(registry', Base, Device),
                    cameras |-> cameras, imu |-> imu]
<1>1. \/ s = None
      \/ /\ s = full
         /\ Query(registry', buffer', Base, Device)
         /\ \A c \in DeviceCameras : Query(registry', buffer', Base, c)
  BY DEF Refreshed
<1>2. CASE s = None
  BY <1>2 DEF Adopt, SnapshotAdopted
<1>3. CASE s # None
  <2>1. /\ s.device = Resolved(registry', Base, Device)
        /\ s.cameras = cameras /\ s.imu = imu
    BY <1>1, <1>3
  <2>2. \A c : Query(registry', buffer', Base, c) => Resolves(registry', Base, c)
    BY DEF Query
  <2>3. DeviceCameras' = DeviceCameras
    BY DEF DeviceCameras, SdkSensors
  <2>4. adopted' = adopted \cup {<<Device, s.device>>}
                     \cup {<<c, s.cameras[c]>> : c \in DeviceCameras'}
                     \cup {<<Imu, i>> : i \in {s.imu} \ {None}}
    BY <1>3, <2>3 DEF Adopt
  <2>5. NewlyAdopted(<<Device, s.device>>)
    BY <1>1, <1>3, <2>1, <2>2 DEF NewlyAdopted
  <2>6. \A c \in DeviceCameras : NewlyAdopted(<<c, s.cameras[c]>>)
    BY <1>1, <1>3, <2>1, <2>2 DEF NewlyAdopted
  <2>7. s.imu # None => NewlyAdopted(<<Imu, s.imu>>)
    BY <2>1, <2>2 DEF NewlyAdopted
  <2>8. SnapshotAdopted'
    BY <2>3, <2>4 DEF SnapshotAdopted
  <2> HIDE DEF s
  <2> QED BY <2>3, <2>4, <2>5, <2>6, <2>7, <2>8 DEF s
<1> QED BY <1>2, <1>3

(***************************************************************************)
(* A path that resolves is the one adopted before.                         *)
(***************************************************************************)
LEMMA AdoptionStep ==
  ASSUME AdoptedInv, Grows(registry, registry'),
         \A a \in adopted' : a \in adopted \/ NewlyAdopted(a)
  PROVE  /\ NeverReloads'
         /\ \A a \in adopted' : /\ Fixed(registry', Base, a[1], a[2])
                                /\ a[1] = Base => a[2] = {}
<1>1. ASSUME NEW a \in adopted
      PROVE  Fixed(registry', Base, a[1], a[2]) /\ (a[1] = Base => a[2] = {})
  BY FixedStays DEF AdoptedInv
<1>2. ASSUME NEW a, NewlyAdopted(a)
      PROVE  Fixed(registry', Base, a[1], a[2]) /\ (a[1] = Base => a[2] = {})
  <2>1. Fixed(registry', Base, a[1], a[2])
    BY <1>2, ResolvedIsFixed DEF NewlyAdopted
  <2>2. a[1] = Base => a[2] = {}
    BY <1>2, PathFacts DEF NewlyAdopted, Resolved
  <2> QED BY <2>1, <2>2
<1>3. ASSUME NEW a \in adopted', NEW b \in adopted', a[1] = b[1], NewlyAdopted(b)
      PROVE  a[2] = b[2]
  <2>1. Fixed(registry', Base, a[1], a[2]) /\ (a[1] = Base => a[2] = {})
    BY <1>1, <1>2
  <2>2. a[2] = Resolved(registry', Base, a[1])
    BY <1>3, <2>1, FixedResolves DEF NewlyAdopted
  <2> QED BY <1>3, <2>2 DEF NewlyAdopted
<1>4. ASSUME NEW a \in adopted', NEW b \in adopted', a[1] = b[1]
      PROVE  a[2] = b[2]
  <2>1. CASE NewlyAdopted(b)
    BY <1>3, <1>4, <2>1
  <2>2. CASE NewlyAdopted(a)
    BY <1>3, <1>4, <2>2
  <2>3. CASE a \in adopted /\ b \in adopted
    BY <1>4, <2>3 DEF AdoptedInv, NeverReloads
  <2> QED BY <2>1, <2>2, <2>3
<1> QED BY <1>1, <1>2, <1>4 DEF NeverReloads

(***************************************************************************)
(* The anchor is seeded where camera_init has no entry.                    *)
(***************************************************************************)
LEMMA AnchorEntry ==
  ASSUME RegistryInv, World \notin Known(registry), registry' = Observed(registry, Anchor, Local),
         ~registry'.overflow
  PROVE  World \in Known(registry') /\ registry'.entries[World].record = Anchor
<1>1. IsRegistry(registry) /\ Anchor \in Record /\ Anchor.child = World
  BY SetupFacts DEF RegistryInv
<1>2. CASE Cardinality(Known(registry)) >= Capacity
  <2>1. registry' = [registry EXCEPT !.overflow = TRUE]
    BY <1>1, <1>2 DEF Observed
  <2>2. registry'.overflow
    BY <1>1, <2>1, RegistryFields
  <2> QED BY <2>2
<1>3. CASE ~(Cardinality(Known(registry)) >= Capacity)
  <2>1. /\ Known(registry') = Known(registry) \cup {World}
        /\ registry'.entries[World] = FirstEntry(Anchor, Local)
    BY <1>1, <1>3, ObserveFirst DEF Authority
  <2> QED BY <2>1 DEF FirstEntry
<1> QED BY <1>2, <1>3

(***************************************************************************)
(* A step that is no refresh adopts nothing and keeps or drops the         *)
(* snapshot; only PoseAnchors makes an anchor.                             *)
(***************************************************************************)
LEMMA SessionSteps ==
  ASSUME [Next]_vars
  PROVE  /\ \/ adopted' = adopted /\ snapshot' \in {None, snapshot}
            \/ /\ setup' = setup /\ snapshot' = Refreshed(registry', buffer') /\ Adopt
         /\ \/ odom' = odom
            \/ /\ World \notin Known(registry) /\ odom' = Anchor
               /\ registry' = Observed(registry, Anchor, Local)
<1>1. ASSUME NEW a \in Audible, HearStatic(a[1], a[2])
      PROVE  adopted' = adopted /\ snapshot' \in {None, snapshot} /\ odom' = odom
  BY <1>1 DEF HearStatic, Recheck
<1>2. ASSUME NEW c \in setup.dynamic, HearDynamic(c)
      PROVE  adopted' = adopted /\ snapshot' \in {None, snapshot} /\ odom' = odom
  BY <1>2 DEF HearDynamic, Recheck
<1>3. CASE Install \/ DiscoveryEnds \/ PollYield
  BY <1>3 DEF Install, DiscoveryEnds, PollYield
<1>4. CASE PollRefresh
  BY <1>4 DEF PollRefresh
<1>5. CASE PollClaim
  BY <1>5 DEF PollClaim
<1>6. ASSUME NEW p \in setup.poses, TakeSample(p) \/ DropSample(p)
      PROVE  adopted' = adopted /\ snapshot' = snapshot /\ odom' = odom
  BY <1>6 DEF TakeSample, DropSample, sessionVars, vars
<1>7. CASE ComputePose
  <2>1. adopted' = adopted
    BY <1>7 DEF ComputePose
  <2>2. CASE PoseAnchors
    BY <2>1, <2>2 DEF PoseAnchors, OdomTaken, HasChild
  <2>3. CASE PoseRefused \/ PoseFixed \/ PoseRestarted
    BY <2>1, <2>3 DEF PoseRefused, PoseFixed, PoseRestarted, PoseFails
  <2>4. CASE PoseNoAnchor \/ PoseAnchored \/ PoseAnchorLost
    BY <2>1, <2>4 DEF PoseNoAnchor, PoseAnchored, PoseAnchorLost, PoseFails
  <2> QED BY <1>7, <2>2, <2>3, <2>4 DEF ComputePose
<1>8. CASE SendPose \/ UNCHANGED vars
  BY <1>8 DEF SendPose, sessionVars, vars
<1> QED BY <1>1, <1>2, <1>3, <1>4, <1>5, <1>6, <1>7, <1>8 DEF Next, Poll

(***************************************************************************)
(* A path once adopted resolves to the same pose or not at all.            *)
(***************************************************************************)
LEMMA AdoptedInvStep == RegistryInv /\ AdoptedInv /\ [Next]_vars => AdoptedInv'
<1> SUFFICES ASSUME RegistryInv, AdoptedInv, [Next]_vars
             PROVE  AdoptedInv'
  OBVIOUS
<1>1. Grows(registry, registry')
  BY RegistryInvStep
<1>2. /\ \A a \in adopted' : a \in adopted \/ NewlyAdopted(a)
      /\ SnapshotAdopted'
  <2>1. CASE adopted' = adopted /\ snapshot' \in {None, snapshot}
    <3>1. DeviceCameras' = DeviceCameras
      BY RegistrySteps DEF DeviceCameras, SdkSensors
    <3> QED BY <2>1, <3>1 DEF AdoptedInv, SnapshotAdopted
  <2>2. CASE setup' = setup /\ snapshot' = Refreshed(registry', buffer') /\ Adopt
    BY <2>2, PollAdopts
  <2> QED BY <2>1, <2>2, SessionSteps
<1>3. /\ NeverReloads'
      /\ \A a \in adopted' : /\ Fixed(registry', Base, a[1], a[2])
                             /\ a[1] = Base => a[2] = {}
  BY <1>1, <1>2, AdoptionStep
<1>4. /\ odom' # None => odom' = Anchor
      /\ odom' # None /\ ~registry'.overflow =>
           World \in Known(registry') /\ registry'.entries[World].record = Anchor
  <2>1. CASE odom' = odom
    BY <1>1, <2>1 DEF AdoptedInv, Grows
  <2>2. CASE /\ World \notin Known(registry) /\ odom' = Anchor
             /\ registry' = Observed(registry, Anchor, Local)
    BY <2>2, AnchorEntry
  <2> QED BY <2>1, <2>2, SessionSteps
<1> QED BY <1>2, <1>3, <1>4 DEF AdoptedInv

(***************************************************************************)
(* NeverReloads for every robot and ROS graph: the session adopts one pose *)
(* of the device, of each camera and of the IMU in its life, however often *)
(* it pauses and polls again ("Installation and sensor snapshots never     *)
(* silently hot-reload", robot_tf_session.hpp:18).                         *)
(***************************************************************************)
THEOREM SessionNeverReloads == Spec => []NeverReloads
<1>1. AdoptedInv => NeverReloads
  BY DEF AdoptedInv
<1> QED BY <1>1, RegistryInvInit, RegistryInvStep, AdoptedInvInit, AdoptedInvStep, PTL DEF Spec

-----------------------------------------------------------------------------
(***************************************************************************)
(* An edge nobody has disputed, as the property about poses has it.        *)
(***************************************************************************)
Undisputed(r) ==
  /\ ~Disputed(r.child)
  /\ \A a \in heard : a[1].child = r.child => a[1] = r

(***************************************************************************)
(* An entry without conflict is one that nobody contradicted.              *)
(***************************************************************************)
LEMMA CleanIsUndisputed ==
  ASSUME RegistryInv, ~registry.overflow, NEW c \in Known(registry), Clean(registry, c)
  PROVE  Undisputed(registry.entries[c].record)
<1> DEFINE e == registry.entries[c]
<1>1. e.record.child = c /\ c \notin registry.dynamic /\ ~e.conflict
  BY DEF RegistryInv, Clean
<1>2. \A a \in heard : a[1].child = c => Agrees(e, a)
  BY <1>1 DEF RegistryInv, HeardInv
<1>3. \A a \in heard : a = <<a[1], a[2]>>
  BY DEF RegistryInv
<1> HIDE DEF e
<1>4. \A a, b \in heard : a[1].child = c /\ b[1].child = c => a = b /\ Valid(a[1])
  BY <1>2, <1>3 DEF Agrees
<1>5. Undisputed(e.record)
  BY <1>1, <1>2, <1>4 DEF Undisputed, Disputed, Agrees
<1> QED BY <1>5 DEF e

(***************************************************************************)
(* The IMU correction of a snapshot that passes the audit.                 *)
(***************************************************************************)
LEMMA ImuUndisputed ==
  ASSUME RegistryInv, AdoptedInv, Convertible
  PROVE  ~registry.overflow /\ \A r \in snapshot.imu : Undisputed(r)
<1>1. /\ snapshot # None /\ snapshot.imu # None
      /\ Resolves(registry, Base, Imu)
  BY DEF Convertible, HasImu, AuditSnapshot, Query
<1>2. ~registry.overflow
  BY <1>1 DEF Resolves
<1>3. snapshot.imu = Resolved(registry, Base, Imu)
  <2>1. <<Imu, snapshot.imu>> \in adopted
    BY <1>1 DEF AdoptedInv, SnapshotAdopted
  <2>2. /\ Fixed(registry, Base, Imu, snapshot.imu)
        /\ Imu = Base => snapshot.imu = {}
    BY <2>1 DEF AdoptedInv
  <2> QED BY <1>1, <2>2, FixedResolves
<1>4. ASSUME NEW e \in PathEdges(ParentOf(registry), Base, Imu)
      PROVE  e \in Known(registry) /\ Clean(registry, e)
  <2>1. e \in Known(registry)
    BY PathFacts
  <2>2. Base # Imu
    BY PathFacts
  <2> QED BY <1>1, <2>1, <2>2 DEF Resolves
<1> QED BY <1>2, <1>3, <1>4, CleanIsUndisputed DEF Resolved

(***************************************************************************)
(* The edge of the anchor, when it is made and when it is used again.      *)
(***************************************************************************)
LEMMA NewAnchorUndisputed ==
  ASSUME RegistryInv, ~registry.overflow, ~OdomTaken
  PROVE  Undisputed(Anchor)
<1>1. Anchor.child = World /\ World \notin Known(registry) /\ World \notin registry.dynamic
  BY SetupFacts DEF RegistryInv, OdomTaken, HasChild
<1>2. \A a \in heard : a[1].child # World
  BY <1>1 DEF RegistryInv, HeardInv
<1> QED BY <1>1, <1>2 DEF Undisputed, Disputed

(***************************************************************************)
(* The odom anchor that Pose looks up again is undisputed while its path   *)
(* still resolves.                                                         *)
(***************************************************************************)
LEMMA OldAnchorUndisputed ==
  ASSUME RegistryInv, AdoptedInv, odom # None, Resolves(registry, Odom, World)
  PROVE  odom = Anchor /\ Undisputed(Anchor)
<1> DEFINE P == ParentOf(registry)
<1>1. Anchor.parent = Odom /\ Anchor.child = World /\ Odom # World
  BY SetupFacts DEF RegistryInv, Valid
<1>2. ~registry.overflow /\ ~Cyclic(P, Odom)
  BY <1>1 DEF Resolves
<1>3. odom = Anchor /\ World \in Known(registry) /\ registry.entries[World].record = Anchor
  BY <1>2 DEF AdoptedInv
<1>4. World \in DOMAIN P /\ P[World] = Odom
  BY <1>1, <1>3 DEF ParentOf
<1>5. World \notin AtOrAbove(P, Odom)
  BY <1>2, <1>4, ParentNotBelow
<1>6. World \in PathEdges(P, Odom, World)
  BY <1>4, <1>5, Above DEF PathEdges
<1>7. Clean(registry, World)
  BY <1>1, <1>6 DEF Resolves
<1> QED BY <1>2, <1>3, <1>7, CleanIsUndisputed

(***************************************************************************)
(* DisputedNeverUsed for every robot, ROS graph and interleaving: a pose   *)
(* is computed only over edges nobody has disputed so far, and over what   *)
(* their publisher says, although it is computed from the snapshot that an *)
(* earlier Poll stored.                                                    *)
(***************************************************************************)
LEMMA PoseUndisputed ==
  ASSUME RegistryInv, AdoptedInv, [Next]_vars, vio.at = "pose", vio'.at = "send"
  PROVE  \A r \in vio'.path : Undisputed(r)
<1>1. ComputePose
  <2>1. ASSUME NEW a \in Audible, HearStatic(a[1], a[2])
        PROVE  FALSE
    BY <2>1 DEF HearStatic
  <2>2. ASSUME NEW c \in setup.dynamic, HearDynamic(c)
        PROVE  FALSE
    BY <2>2 DEF HearDynamic
  <2>3. ~(Install \/ DiscoveryEnds \/ Poll)
    BY DEF Install, DiscoveryEnds, Poll, PollRefresh, PollClaim, PollYield
  <2>4. ASSUME NEW p \in setup.poses, TakeSample(p) \/ DropSample(p)
        PROVE  FALSE
    BY <2>4 DEF TakeSample, DropSample
  <2>5. ~SendPose /\ ~UNCHANGED vars
    BY DEF SendPose, vars
  <2> QED BY <2>1, <2>2, <2>3, <2>4, <2>5 DEF Next
<1>2. ~PoseFails
  BY DEF PoseFails
<1>3. PoseFixed \/ PoseAnchors \/ PoseAnchored
  BY <1>1, <1>2 DEF ComputePose, PoseRefused, PoseRestarted, PoseNoAnchor, PoseAnchorLost
<1>4. ~registry.overflow /\ \A r \in snapshot.imu : Undisputed(r)
  BY <1>3, ImuUndisputed DEF PoseFixed, PoseAnchors, PoseAnchored
<1>5. CASE PoseFixed
  <2>1. vio'.path = snapshot.imu
    BY <1>5 DEF PoseFixed, Computed
  <2> QED BY <1>4, <2>1
<1>6. CASE PoseAnchors
  <2>1. vio'.path = snapshot.imu \cup {Anchor} /\ ~OdomTaken
    BY <1>6 DEF PoseAnchors, Computed
  <2> QED BY <1>4, <2>1, NewAnchorUndisputed
<1>7. CASE PoseAnchored
  <2>1. /\ vio'.path = snapshot.imu \cup {odom} /\ odom # None
        /\ Resolves(registry, Odom, World)
    BY <1>7 DEF PoseAnchored, Computed, Query
  <2> QED BY <1>4, <2>1, OldAnchorUndisputed
<1> QED BY <1>3, <1>5, <1>6, <1>7

(***************************************************************************)
(* DisputedNeverUsed for every robot and ROS graph: no edge that Pose      *)
(* composes into a broadcast was contradicted by anything heard until then *)
(* (RobotTfSession::Pose, robot_tf_session.hpp).                           *)
(***************************************************************************)
THEOREM PosesUndisputed == Spec => DisputedNeverUsed
<1>1. RegistryInv /\ AdoptedInv /\ [Next]_vars =>
        [vio.at = "pose" /\ vio'.at = "send" =>
           \A r \in vio'.path :
             /\ ~Disputed(r.child)
             /\ \A a \in heard : a[1].child = r.child => a[1] = r]_vars
  BY PoseUndisputed DEF Undisputed
<1> QED BY <1>1, RegistryInvInit, RegistryInvStep, AdoptedInvInit, AdoptedInvStep,
           PTL DEF Spec, DisputedNeverUsed

-----------------------------------------------------------------------------
(***************************************************************************)
(* The frames a snapshot speaks of, and the one way their paths can stop   *)
(* resolving behind its back: PoseAnchors seeds the anchor without a new   *)
(* audit, and the anchor finds the table full or closes a cycle over Base. *)
(***************************************************************************)
SnapshotFrames(snap) ==
  {Device} \cup DeviceCameras \cup {c \in {Imu} : snap.imu # None}

AnchorUnaudited ==
  odom # None /\ (registry.overflow \/ Cyclic(ParentOf(registry), Base))

SnapshotInv ==
  snapshot # None /\ ~AnchorUnaudited =>
    \A c \in SnapshotFrames(snapshot) : Resolves(registry, Base, c)

(***************************************************************************)
(* What a step does to the snapshot: it leaves the registry alone and at   *)
(* most drops the snapshot, or audits it after the registry changed, or    *)
(* makes it anew, or seeds the anchor.                                     *)
(***************************************************************************)
KeptOrDropped == snapshot' \in {None, snapshot} /\ registry' = registry /\ odom' = odom

Rechecked == snapshot' = Recheck(registry', buffer, snapshot) /\ odom' = odom

Renewed == snapshot' = Refreshed(registry', buffer') /\ odom' = odom

Anchored ==
  /\ snapshot' = snapshot /\ snapshot # None
  /\ AuditSnapshot(registry, buffer, snapshot)
  /\ World \notin Known(registry)
  /\ registry' = Observed(registry, Anchor, Local)
  /\ odom' # None

(***************************************************************************)
(* Every step does one of the four.                                        *)
(***************************************************************************)
LEMMA SnapshotSteps ==
  ASSUME RegistryInv, [Next]_vars
  PROVE  KeptOrDropped \/ Rechecked \/ Renewed \/ Anchored
<1>1. ASSUME NEW a \in Audible, HearStatic(a[1], a[2])
      PROVE  Rechecked
  BY <1>1 DEF HearStatic, Rechecked
<1>2. ASSUME NEW c \in setup.dynamic, HearDynamic(c)
      PROVE  Rechecked
  BY <1>2 DEF HearDynamic, Rechecked
<1>3. CASE Install \/ DiscoveryEnds \/ PollYield
  BY <1>3 DEF Install, DiscoveryEnds, PollYield, KeptOrDropped
<1>4. CASE PollRefresh \/ PollClaim
  BY <1>4 DEF PollRefresh, PollClaim, Renewed
<1>5. ASSUME NEW p \in setup.poses, TakeSample(p) \/ DropSample(p)
      PROVE  KeptOrDropped
  BY <1>5 DEF TakeSample, DropSample, sessionVars, vars, KeptOrDropped
<1>6. CASE ComputePose
  <2>1. CASE PoseAnchors
    <3>1. Anchor # None
      BY RobotTfAssumption
    <3> QED BY <2>1, <3>1 DEF PoseAnchors, Convertible, HasImu, OdomTaken, HasChild, Anchored
  <2>2. CASE PoseRefused \/ PoseFixed \/ PoseRestarted
    BY <2>2 DEF PoseRefused, PoseFixed, PoseRestarted, PoseFails, KeptOrDropped
  <2>3. CASE PoseNoAnchor \/ PoseAnchored \/ PoseAnchorLost
    BY <2>3 DEF PoseNoAnchor, PoseAnchored, PoseAnchorLost, PoseFails, KeptOrDropped
  <2> QED BY <1>6, <2>1, <2>2, <2>3 DEF ComputePose
<1>7. CASE SendPose \/ UNCHANGED vars
  BY <1>7 DEF SendPose, sessionVars, vars, KeptOrDropped
<1> QED BY <1>1, <1>2, <1>3, <1>4, <1>5, <1>6, <1>7 DEF Next, Poll

(***************************************************************************)
(* What the audit of a snapshot, and a fresh one, say of its frames.       *)
(***************************************************************************)
LEMMA AuditResolves ==
  /\ \A reg, buf, snap : AuditSnapshot(reg, buf, snap) =>
       \A c \in SnapshotFrames(snap) : Resolves(reg, Base, c)
  /\ \A reg, buf : Refreshed(reg, buf) # None =>
       \A c \in SnapshotFrames(Refreshed(reg, buf)) : Resolves(reg, Base, c)
<1>1. ASSUME NEW reg, NEW buf, NEW snap, AuditSnapshot(reg, buf, snap)
      PROVE  \A c \in SnapshotFrames(snap) : Resolves(reg, Base, c)
  BY <1>1 DEF AuditSnapshot, Query, SnapshotFrames
<1>2. ASSUME NEW reg, NEW buf, Refreshed(reg, buf) # None
      PROVE  \A c \in SnapshotFrames(Refreshed(reg, buf)) : Resolves(reg, Base, c)
  <2> DEFINE s == Refreshed(reg, buf)
  <2>1. /\ Query(reg, buf, Base, Device)
        /\ \A c \in DeviceCameras : Query(reg, buf, Base, c)
        /\ s.imu # None => Query(reg, buf, Base, Imu)
    BY <1>2 DEF Refreshed
  <2> HIDE DEF s
  <2>2. \A c \in SnapshotFrames(s) : Query(reg, buf, Base, c)
    BY <2>1 DEF SnapshotFrames
  <2> QED BY <2>2 DEF Query, s
<1> QED BY <1>1, <1>2

(***************************************************************************)
(* The anchor contests no edge: a path that resolved before it was seeded  *)
(* resolves after, unless it overflowed the table or closed a cycle.       *)
(***************************************************************************)
LEMMA AnchorKeepsPaths ==
  ASSUME RegistryInv, World \notin Known(registry), registry' = Observed(registry, Anchor, Local),
         ~registry'.overflow, ~Cyclic(ParentOf(registry'), Base),
         NEW c, Resolves(registry, Base, c)
  PROVE  Resolves(registry', Base, c)
<1> DEFINE P == ParentOf(registry)
           Q == ParentOf(registry')
<1>1. IsRegistry(registry) /\ Anchor \in Record /\ Anchor.child = World
  BY SetupFacts DEF RegistryInv
<1>2. Grows(registry, registry')
  BY <1>1, ObservedGrows DEF Authority
<1>3. CASE c = Base
  BY <1>3 DEF Resolves
<1>4. CASE c # Base
  <2>1. /\ ~Cyclic(P, Base) /\ ~Cyclic(P, c) /\ Joined(P, Base, c)
        /\ \A e \in PathEdges(P, Base, c) : Clean(registry, e)
    BY <1>4 DEF Resolves
  <2>2. Extends(Q, P)
    BY <1>2, GrowsExtends
  <2>3. ~Cyclic(Q, c)
    <3>1. PICK r \in AtOrAbove(Q, Base) : r \notin DOMAIN Q
      BY DEF Cyclic
    <3>2. PICK x \in AtOrAbove(P, Base) : x \in AtOrAbove(P, c)
      BY <2>1 DEF Joined
    <3>3. x \in AtOrAbove(Q, Base) /\ x \in AtOrAbove(Q, c)
      BY <2>2, <3>2, AboveGrows
    <3>4. r \in AtOrAbove(Q, x)
      BY <3>1, <3>3, RootAboveAll
    <3>5. r \in AtOrAbove(Q, c)
      BY <3>3, <3>4, AboveAbove
    <3> QED BY <3>1, <3>5 DEF Cyclic
  <2>4. Joined(Q, Base, c) /\ PathEdges(Q, Base, c) = PathEdges(P, Base, c)
    BY <2>1, <2>2, <2>3, PathStays
  <2>5. ~(Cardinality(Known(registry)) >= Capacity)
    <3>1. SUFFICES ASSUME Cardinality(Known(registry)) >= Capacity
                   PROVE  registry'.overflow
      OBVIOUS
    <3>2. registry' = [registry EXCEPT !.overflow = TRUE]
      BY <1>1, <3>1 DEF Observed
    <3> QED BY <1>1, <3>2, RegistryFields
  <2>6. /\ \A e \in Known(registry) : registry'.entries[e] = registry.entries[e]
        /\ registry'.dynamic = registry.dynamic
    BY <1>1, <2>5, ObserveFirst DEF Authority
  <2>7. \A e \in PathEdges(P, Base, c) : Clean(registry', e)
    BY <2>1, <2>6, PathFacts DEF Clean
  <2> QED BY <2>3, <2>4, <2>7 DEF Resolves
<1> QED BY <1>3, <1>4

(***************************************************************************)
(* Every step keeps the paths of the snapshot resolving, as far as the     *)
(* anchor lets it.                                                         *)
(***************************************************************************)
LEMMA SnapshotInvStep == RegistryInv /\ SnapshotInv /\ [Next]_vars => SnapshotInv'
<1> SUFFICES ASSUME RegistryInv, SnapshotInv, [Next]_vars, snapshot' # None, ~AnchorUnaudited'
             PROVE  SnapshotInv'
  BY DEF SnapshotInv
<1>1. SnapshotInv' <=> \A c \in SnapshotFrames(snapshot') : Resolves(registry', Base, c)
  <2>1. DeviceCameras' = DeviceCameras
    BY RegistrySteps DEF DeviceCameras, SdkSensors
  <2>2. SnapshotFrames(snapshot)' = SnapshotFrames(snapshot')
    BY <2>1 DEF SnapshotFrames
  <2>3. \A c : Resolves(registry, Base, c)' <=> Resolves(registry', Base, c)
    BY DEF Resolves
  <2> QED BY <2>2, <2>3 DEF SnapshotInv
<1>2. CASE KeptOrDropped
  BY <1>1, <1>2 DEF KeptOrDropped, SnapshotInv, AnchorUnaudited
<1>3. CASE Rechecked
  <2>1. snapshot' = snapshot /\ AuditSnapshot(registry', buffer, snapshot)
    BY <1>3 DEF Rechecked, Recheck
  <2> QED BY <1>1, <2>1, AuditResolves
<1>4. CASE Renewed
  BY <1>1, <1>4, AuditResolves DEF Renewed
<1>5. CASE Anchored
  <2>1. \A c \in SnapshotFrames(snapshot) : Resolves(registry, Base, c)
    BY <1>5, AuditResolves DEF Anchored
  <2>2. ~registry'.overflow /\ ~Cyclic(ParentOf(registry'), Base)
    BY <1>5 DEF Anchored, AnchorUnaudited
  <2> QED BY <1>1, <1>5, <2>1, <2>2, AnchorKeepsPaths DEF Anchored
<1> QED BY <1>2, <1>3, <1>4, <1>5, SnapshotSteps

(***************************************************************************)
(* SnapshotIsAudited for every robot and ROS graph.  Whatever Snapshot()   *)
(* returns resolves as it stands and is what its path is, without a look   *)
(* at the registry, because Observe audits it under the same mutex.  The   *)
(* single exception is the anchor that Pose seeds without a new audit      *)
(* (robot_tf_session.hpp:108), once it overflows the table or closes a     *)
(* cycle over base.                                                        *)
(***************************************************************************)
THEOREM SnapshotAudited == Spec => [](~AnchorUnaudited => SnapshotIsAudited)
<1>1. Init => SnapshotInv
  BY DEF Init, SnapshotInv
<1>2. ASSUME AdoptedInv, SnapshotInv, ~AnchorUnaudited, snapshot # None
      PROVE  SnapshotIsAudited
  <2>1. \A a \in adopted : Resolves(registry, Base, a[1]) =>
          a[2] = Resolved(registry, Base, a[1])
    BY <1>2, FixedResolves DEF AdoptedInv
  <2>2. \A c \in SnapshotFrames(snapshot) : Resolves(registry, Base, c)
    BY <1>2 DEF SnapshotInv
  <2>3. \A c, path : <<c, path>> \in adopted /\ c \in SnapshotFrames(snapshot) =>
          Resolves(registry, Base, c) /\ path = Resolved(registry, Base, c)
    <3> SUFFICES ASSUME NEW c, NEW path, <<c, path>> \in adopted,
                        c \in SnapshotFrames(snapshot)
                 PROVE  Resolves(registry, Base, c) /\ path = Resolved(registry, Base, c)
      OBVIOUS
    <3>1. <<c, path>>[1] = c /\ <<c, path>>[2] = path
      OBVIOUS
    <3> QED BY <2>1, <2>2, <3>1
  <2>4. SnapshotAdopted
    BY <1>2 DEF AdoptedInv
  <2>5. /\ Device \in SnapshotFrames(snapshot)
        /\ \A c \in DeviceCameras : c \in SnapshotFrames(snapshot)
        /\ snapshot.imu # None => Imu \in SnapshotFrames(snapshot)
    BY DEF SnapshotFrames
  <2> QED BY <1>2, <2>3, <2>4, <2>5 DEF SnapshotIsAudited, SnapshotAdopted
<1>3. AdoptedInv /\ SnapshotInv => (~AnchorUnaudited => SnapshotIsAudited)
  BY <1>2 DEF SnapshotIsAudited
<1> QED BY <1>1, <1>3, SnapshotInvStep, RegistryInvInit, RegistryInvStep, AdoptedInvInit,
           AdoptedInvStep, PTL DEF Spec

-----------------------------------------------------------------------------
(***************************************************************************)
(* A restart that Pose gets to see: the sample with which the gate reports *)
(* it is not refused by one of the returns in front of the check.          *)
(***************************************************************************)
RestartSeen == ComputePose /\ Restarted /\ ~blocked => Convertible

(***************************************************************************)
(* A session that has its anchor and is not blocked is in the life of the  *)
(* producer the anchor was made in, or computes with the sample that       *)
(* reported the change.  The gate has accepted that sample, and before it  *)
(* the one of the anchor, so it tells a change from a beginning.           *)
(***************************************************************************)
Reported == vio.at = "pose" /\ vio.changed

RestartInv ==
  /\ odom # None => PublishOdom
  /\ odom # None \/ vio.at = "pose" => timestamp # 0
  /\ odom # None /\ ~blocked => epoch = anchorWorld \/ Reported
  /\ AnchorWorld

(***************************************************************************)
(* The session starts without anchor and without a sample.                 *)
(***************************************************************************)
LEMMA RestartInvInit == Init => RestartInv
BY DEF Init, RestartInv, AnchorWorld

(***************************************************************************)
(* A sample that moves the epoch of an anchored session is reported.       *)
(***************************************************************************)
LEMMA TakeKeepsWorld ==
  ASSUME RestartInv, NEW p \in setup.poses, TakeSample(p)
  PROVE  RestartInv'
<1>1. /\ vio.at = "idle" /\ vio'.at = "pose" /\ vio'.changed = ReportsChange(p)
      /\ odom' = odom /\ blocked' = blocked /\ anchorWorld' = anchorWorld
      /\ setup' = setup
  BY DEF TakeSample, sessionVars
<1>2. /\ timestamp' = p.stamp /\ p.stamp # 0
      /\ epoch' # epoch => OpensEpoch(p)
  BY DEF TakeSample, Accept, Accepts
<1>3. odom # None /\ OpensEpoch(p) => ReportsChange(p)
  BY DEF RestartInv, ReportsChange
<1>4. odom # None /\ ~blocked => epoch = anchorWorld
  BY <1>1 DEF RestartInv, Reported
<1>5. odom # None /\ epoch' # epoch => Reported'
  BY <1>1, <1>2, <1>3, Zenon DEF Reported
<1>6. odom' # None /\ ~blocked' => epoch' = anchorWorld' \/ Reported'
  BY <1>1, <1>4, <1>5
<1>7. odom' # None => PublishOdom'
  BY <1>1 DEF RestartInv, PublishOdom
<1> QED BY <1>1, <1>2, <1>6, <1>7 DEF RestartInv, AnchorWorld

(***************************************************************************)
(* The anchor is made in the present life; it is used again only without a *)
(* change in between; a change that is seen blocks the session.            *)
(***************************************************************************)
LEMMA ComputeKeepsWorld ==
  ASSUME RestartInv, ComputePose, RestartSeen
  PROVE  RestartInv'
<1>1. vio.at = "pose" /\ timestamp' = timestamp /\ epoch' = epoch /\ setup' = setup
  BY DEF ComputePose, gateVars
<1>2. PublishOdom' = PublishOdom
  BY <1>1 DEF PublishOdom
<1>3. CASE PoseFails /\ blocked' = TRUE
  BY <1>1, <1>2, <1>3 DEF RestartInv, AnchorWorld, PoseFails
<1>4. CASE PoseRefused
  <2>1. odom # None /\ ~blocked => ~Reported
    BY <1>4, Zenon DEF RestartInv, PoseRefused, RestartSeen, Restarted, Reported
  <2> QED BY <1>1, <1>2, <1>4, <2>1 DEF RestartInv, AnchorWorld, PoseRefused, PoseFails
<1>5. CASE PoseFixed
  BY <1>1, <1>2, <1>5 DEF RestartInv, AnchorWorld, PoseFixed, Computed
<1>6. CASE PoseNoAnchor
  BY <1>1, <1>2, <1>6 DEF RestartInv, AnchorWorld, PoseNoAnchor, PoseFails
<1>7. CASE PoseAnchors
  <2>1. vio'.at = "send" /\ vio'.world = epoch /\ anchorWorld' = epoch
    BY <1>7 DEF PoseAnchors, Computed
  <2>2. PublishOdom
    BY <1>7 DEF PoseAnchors
  <2> QED BY <1>1, <1>2, <2>1, <2>2 DEF RestartInv, AnchorWorld
<1>8. CASE PoseAnchored
  <2>1. epoch = anchorWorld
    <3>1. odom # None /\ PublishOdom /\ ~blocked /\ ~vio.changed
      BY <1>8, Zenon DEF PoseAnchored, Restarted, Convertible
    <3>2. ~Reported
      BY <3>1, Zenon DEF Reported
    <3> QED BY <3>1, <3>2 DEF RestartInv
  <2>2. vio'.at = "send" /\ vio'.world = epoch
    BY <1>8 DEF PoseAnchored, Computed
  <2>3. odom' = odom /\ anchorWorld' = anchorWorld /\ blocked' = blocked
    BY <1>8 DEF PoseAnchored
  <2> QED BY <1>1, <1>2, <2>1, <2>2, <2>3 DEF RestartInv, AnchorWorld
<1> QED BY <1>3, <1>4, <1>5, <1>6, <1>7, <1>8
        DEF ComputePose, PoseRestarted, PoseAnchorLost

(***************************************************************************)
(* Every step keeps the anchor in its life of the producer, as long as     *)
(* restarts are seen.                                                      *)
(***************************************************************************)
LEMMA RestartInvStep == RestartInv /\ [Next]_vars /\ [RestartSeen]_vars => RestartInv'
<1> SUFFICES ASSUME RestartInv, [Next]_vars, [RestartSeen]_vars
             PROVE  RestartInv'
  OBVIOUS
<1> DEFINE Same == UNCHANGED <<setup, odom, timestamp, epoch, anchorWorld, vio>>
<1>1. ASSUME Same, blocked' = blocked \/ blocked' = TRUE
      PROVE  RestartInv'
  BY <1>1 DEF RestartInv, AnchorWorld, PublishOdom, Reported
<1>2. ASSUME NEW a \in Audible, HearStatic(a[1], a[2])
      PROVE  RestartInv'
  BY <1>1, <1>2 DEF HearStatic, gateVars
<1>3. ASSUME NEW c \in setup.dynamic, HearDynamic(c)
      PROVE  RestartInv'
  BY <1>1, <1>3 DEF HearDynamic, gateVars
<1>4. CASE Install \/ DiscoveryEnds
  BY <1>1, <1>4 DEF Install, DiscoveryEnds, gateVars
<1>5. CASE PollRefresh \/ PollClaim \/ PollYield
  BY <1>1, <1>5 DEF PollRefresh, PollClaim, PollYield, gateVars
<1>6. ASSUME NEW p \in setup.poses, TakeSample(p) \/ DropSample(p)
      PROVE  RestartInv'
  BY <1>1, <1>6, TakeKeepsWorld DEF DropSample, vars, sessionVars, gateVars
<1>7. CASE ComputePose
  <2>1. vars' # vars => RestartSeen
    OBVIOUS
  <2>2. vars' # vars
    <3>1. vio'.at # "pose" /\ vio.at = "pose"
      BY <1>7 DEF ComputePose, PoseRefused, PoseFixed, PoseRestarted, PoseNoAnchor,
                  PoseAnchors, PoseAnchored, PoseAnchorLost, PoseFails, Computed
    <3> QED BY <3>1 DEF vars
  <2> QED BY <1>7, <2>1, <2>2, ComputeKeepsWorld
<1>8. CASE SendPose
  <2>1. UNCHANGED <<setup, odom, blocked, timestamp, epoch, anchorWorld>>
    BY <1>8 DEF SendPose, sessionVars, gateVars
  <2>2. vio.at = "send" /\ vio'.at = "idle"
    BY <1>8 DEF SendPose
  <2>3. ~Reported
    BY <2>2 DEF Reported
  <2>4. PublishOdom' = PublishOdom
    BY <2>1 DEF PublishOdom
  <2> QED BY <2>1, <2>2, <2>3, <2>4 DEF RestartInv, AnchorWorld
<1>9. CASE UNCHANGED vars
  BY <1>1, <1>9 DEF vars, sessionVars, gateVars
<1> QED BY <1>2, <1>3, <1>4, <1>5, <1>6, <1>7, <1>8, <1>9 DEF Next, Poll

(***************************************************************************)
(* AnchorWorld for every robot and ROS graph, up to the one way it fails.  *)
(* A pose leaves the bridge only in the life of the producer its anchor    *)
(* was made in ("the old static anchor must not be reused across changed   *)
(* algorithm worlds", docs/TF.md), provided no sample that reports a       *)
(* restart is refused before Pose looks at the report: that report is made *)
(* once and kept nowhere (robot_tf_session.hpp).                           *)
(***************************************************************************)
THEOREM SeenRestartsPause == Spec /\ [][RestartSeen]_vars => []AnchorWorld
<1>1. RestartInv => AnchorWorld
  BY DEF RestartInv
<1> QED BY <1>1, RestartInvInit, RestartInvStep, PTL DEF Spec

-----------------------------------------------------------------------------
(***************************************************************************)
(* Type correctness.  The gate takes samples whose types are right.        *)
(***************************************************************************)
LEMMA SampleTypes ==
  ASSUME NEW p, PoseSample(p)
  PROVE  /\ p.stamp \in Stamps /\ p.number \in Numbers
         /\ p.epoch \in Epochs \cup {NoEpoch}
<1> DEFINE D == DOMAIN p \ {"native", "level"}
           s == [f \in D |-> p[f]]
<1>1. s \in Sample
  BY DEF PoseSample
<1>2. /\ s.stamp \in Stamps /\ s.number \in Numbers /\ s.epoch \in Epochs \cup {NoEpoch}
      /\ DOMAIN s = {"stamp", "fit", "epoch", "numbered", "number"}
  BY <1>1 DEF Sample
<1>3. DOMAIN s = D
  OBVIOUS
<1>4. /\ "stamp" \in D /\ "number" \in D /\ "epoch" \in D
  BY <1>2, <1>3
<1>5. p["stamp"] = s["stamp"] /\ p["number"] = s["number"] /\ p["epoch"] = s["epoch"]
  BY <1>4
<1> HIDE DEF s, D
<1> QED BY <1>2, <1>5

(***************************************************************************)
(* The gate as part of the session keeps its types.                        *)
(***************************************************************************)
LEMMA GateTypes ==
  ASSUME GateTypeOK, NEW p, PoseSample(p), Accept(p)
  PROVE  GateTypeOK'
<1>1. p.stamp \in Stamps /\ p.number \in Numbers /\ p.epoch \in Epochs \cup {NoEpoch}
  BY SampleTypes
<1>2. timestamp' \in Stamps \cup {0} /\ sequence' \in Numbers \cup {0}
      /\ epoch' \in Epochs \cup {NoEpoch}
  BY <1>1 DEF Accept, GateTypeOK
<1>3. Retire \in Seq(Epochs) /\ Len(Retire) <= Retain
  <2>1. retired \in Seq(Epochs) /\ Len(retired) \in Nat /\ Len(retired) <= Retain
    BY DEF GateTypeOK
  <2>2. CASE epoch = NoEpoch
    BY <2>1, <2>2 DEF Retire
  <2>3. CASE epoch # NoEpoch /\ Len(retired) = Retain
    <3>1. retired # << >> /\ epoch \in Epochs
      BY <2>1, <2>3, GateAssumption DEF GateTypeOK
    <3>2. Tail(retired) \in Seq(Epochs) /\ Len(Tail(retired)) = Len(retired) - 1
      BY <2>1, <3>1
    <3>3. Retire = Append(Tail(retired), epoch)
      BY <2>3 DEF Retire
    <3> QED BY <2>1, <3>1, <3>2, <3>3
  <2>4. CASE epoch # NoEpoch /\ Len(retired) # Retain
    <3>1. epoch \in Epochs /\ Retire = Append(retired, epoch)
      BY <2>4 DEF Retire, GateTypeOK
    <3> QED BY <2>1, <2>4, <3>1, GateAssumption
  <2> QED BY <2>2, <2>3, <2>4
<1>4. retired' \in Seq(Epochs) /\ Len(retired') <= Retain
  BY <1>3 DEF Accept, GateTypeOK
<1> QED BY <1>2, <1>4 DEF GateTypeOK

(***************************************************************************)
(* The buffer takes only records that the audit takes (Installable), and   *)
(* the bridge's own.                                                       *)
(***************************************************************************)
BufferOK(buf) ==
  /\ DOMAIN buf \subseteq Frames
  /\ Range(buf) \subseteq {None} \cup {r \in Record : Valid(r)}

SpinOK(r) == r \in {None} \cup {q \in Record : Valid(q)}

SnapshotOK(s) ==
  s # None => /\ s.device \subseteq Record
              /\ DOMAIN s.cameras = DeviceCameras
              /\ s.imu # None => s.imu \subseteq Record

SessionTypeOK ==
  /\ GateTypeOK
  /\ BufferOK(buffer) /\ SpinOK(spin) /\ SnapshotOK(snapshot)
  /\ {blocked, installed, discovered} \subseteq BOOLEAN
  /\ odom \in {None, Anchor}
  /\ vio.at \in {"idle", "pose", "send"}
  /\ anchorWorld \in Epochs \cup {NoEpoch, None}

(***************************************************************************)
(* setTransform keeps the buffer a table of well-formed records.           *)
(***************************************************************************)
LEMMA StoreOK ==
  ASSUME NEW buf, BufferOK(buf), NEW r \in Record, Valid(r)
  PROVE  BufferOK(Store(buf, r))
BY DEF BufferOK, Store, Range, Record

(***************************************************************************)
(* A snapshot holds paths of registered records.                           *)
(***************************************************************************)
LEMMA RefreshedOK ==
  ASSUME NEW reg, IsRegistry(reg), NEW buf
  PROVE  SnapshotOK(Refreshed(reg, buf))
<1>1. \A c : Resolved(reg, Base, c) \subseteq Record
  BY PathFacts, RegistryFields DEF Resolved, Entry
<1> DEFINE imu == IF HasChild(reg, Imu) /\ Query(reg, buf, Base, Imu)
                    THEN Resolved(reg, Base, Imu) ELSE None
           cameras == [c \in DeviceCameras |-> Resolved(reg, Base, c)]
           s == [device |-> Resolved(reg, Base, Device), cameras |-> cameras, imu |-> imu]
<1>2. Refreshed(reg, buf) \in {None, s}
  BY DEF Refreshed
<1>3. imu # None => imu \subseteq Record
  BY <1>1
<1>4. DOMAIN cameras = DeviceCameras
  OBVIOUS
<1>5. s.device = Resolved(reg, Base, Device) /\ s.cameras = cameras /\ s.imu = imu
  OBVIOUS
<1> HIDE DEF s, imu, cameras
<1> QED BY <1>1, <1>2, <1>3, <1>4, <1>5 DEF SnapshotOK

(***************************************************************************)
(* The session before its first poll is well-typed.                        *)
(***************************************************************************)
LEMMA SessionTypeInit == Init => SessionTypeOK
<1> SUFFICES ASSUME Init
             PROVE  SessionTypeOK
  OBVIOUS
<1>1. GateTypeOK
  BY GateAssumption DEF Init, GateInit, GateTypeOK
<1>2. \A c \in SeedChildren : SeedOf(c) \in Seeds /\ SeedOf(c).child = c
  BY DEF SeedChildren, SeedOf
<1>3. \A c \in SeedChildren : SeedOf(c) \in Record /\ Valid(SeedOf(c)) /\ c \in Frames
  BY <1>2, SetupFacts DEF Init, Record
<1>4. BufferOK(buffer)
  BY <1>3 DEF Init, BufferOK, Range
<1> QED BY <1>1, <1>4 DEF Init, SessionTypeOK, SpinOK, SnapshotOK

(***************************************************************************)
(* Every hold of the session mutex, and every step between two of them,    *)
(* keeps the types.                                                        *)
(***************************************************************************)
LEMMA SessionTypeStep ==
  RegistryInv /\ SessionTypeOK /\ [Next]_vars => SessionTypeOK'
<1> SUFFICES ASSUME RegistryInv, SessionTypeOK, [Next]_vars
             PROVE  SessionTypeOK'
  OBVIOUS
<1>0. setup' = setup /\ IsRegistry(registry') /\ DeviceCameras' = DeviceCameras
  BY RegistryInvStep, RegistrySteps DEF RegistryInv, DeviceCameras, SdkSensors
<1> DEFINE Kept == snapshot' \in {None, snapshot}
<1>1. Kept \/ snapshot' = Refreshed(registry', buffer')
  BY SessionSteps
<1>2. SnapshotOK(snapshot)'
  <2>1. CASE Kept
    BY <1>0, <2>1 DEF SessionTypeOK, SnapshotOK
  <2>2. CASE snapshot' = Refreshed(registry', buffer')
    <3>1. Refreshed(registry', buffer') = None
          \/ SnapshotOK(Refreshed(registry', buffer'))
      BY <1>0, RefreshedOK
    <3> QED BY <1>0, <2>2, <3>1 DEF SnapshotOK
  <2> QED BY <1>1, <2>1, <2>2
<1>3. UNCHANGED gateVars => GateTypeOK'
  BY DEF SessionTypeOK, GateTypeOK, gateVars
<1>4. odom' \in {None, Anchor}
  BY SessionSteps DEF SessionTypeOK
<1>5. ASSUME GateTypeOK', buffer' = buffer, SpinOK(spin'), vio' = vio,
             anchorWorld' = anchorWorld, {blocked', installed', discovered'} \subseteq BOOLEAN
      PROVE  SessionTypeOK'
  BY <1>2, <1>4, <1>5 DEF SessionTypeOK, BufferOK, SpinOK
<1>6. ASSUME NEW a \in Audible, HearStatic(a[1], a[2])
      PROVE  SessionTypeOK'
  <2>1. a[1] \in Record
    BY SetupFacts DEF RegistryInv, Audible
  <2>2. SpinOK(spin')
    BY <1>6, <2>1 DEF HearStatic, Installable, SpinOK
  <2> QED BY <1>3, <1>5, <1>6, <2>2 DEF HearStatic, SessionTypeOK
<1>7. ASSUME NEW c \in setup.dynamic, HearDynamic(c)
      PROVE  SessionTypeOK'
  BY <1>3, <1>5, <1>7 DEF HearDynamic, SessionTypeOK
<1>8. CASE Install
  <2>1. spin \in Record /\ Valid(spin)
    BY <1>8 DEF Install, SessionTypeOK, SpinOK
  <2>2. BufferOK(buffer')
    BY <1>8, <2>1, StoreOK DEF Install, SessionTypeOK
  <2> QED BY <1>2, <1>3, <1>4, <1>8, <2>2 DEF Install, SessionTypeOK, SpinOK, BufferOK
<1>9. CASE DiscoveryEnds \/ PollRefresh \/ PollYield
  BY <1>3, <1>5, <1>9 DEF DiscoveryEnds, PollRefresh, PollYield, SessionTypeOK
<1>10. CASE PollClaim
  <2>1. BufferOK(buffer')
    BY <1>10, StoreOK, SetupFacts DEF PollClaim, SessionTypeOK, RegistryInv
  <2> QED BY <1>2, <1>3, <1>4, <1>10, <2>1 DEF PollClaim, SessionTypeOK, SpinOK, BufferOK
<1>11. ASSUME NEW p \in setup.poses, TakeSample(p)
       PROVE  SessionTypeOK'
  <2>1. GateTypeOK'
    BY <1>11, GateTypes, SetupFacts DEF TakeSample, SessionTypeOK, RegistryInv
  <2>2. UNCHANGED <<sessionVars, anchorWorld>> /\ vio'.at = "pose"
    BY <1>11 DEF TakeSample
  <2> QED BY <1>2, <2>1, <2>2 DEF SessionTypeOK, SpinOK, BufferOK, sessionVars
<1>12. CASE UNCHANGED vars
  BY <1>2, <1>3, <1>12 DEF SessionTypeOK, SpinOK, BufferOK, vars, sessionVars
<1>13. CASE ComputePose
  <2>1. UNCHANGED gateVars /\ UNCHANGED <<installed, discovered, spin>>
    BY <1>13 DEF ComputePose
  <2>2. epoch \in Epochs \cup {NoEpoch}
    BY DEF SessionTypeOK, GateTypeOK
  <2>3. BufferOK(buffer')
    <3>1. CASE PoseAnchors
      BY <3>1, StoreOK, SetupFacts DEF PoseAnchors, SessionTypeOK, RegistryInv
    <3>2. CASE ~PoseAnchors
      BY <1>13, <3>2 DEF ComputePose, PoseRefused, PoseFixed, PoseRestarted, PoseNoAnchor,
                         PoseAnchored, PoseAnchorLost, PoseFails, SessionTypeOK
    <3> QED BY <3>1, <3>2
  <2>4. vio'.at \in {"idle", "send"} /\ blocked' \in BOOLEAN
        /\ anchorWorld' \in Epochs \cup {NoEpoch, None}
    <3>1. CASE PoseAnchors
      BY <2>2, <3>1 DEF PoseAnchors, Computed, SessionTypeOK
    <3>2. CASE PoseFixed \/ PoseAnchored
      BY <3>2 DEF PoseFixed, PoseAnchored, Computed, SessionTypeOK
    <3>3. CASE PoseNoAnchor
      <4>1. vio'.at = "idle" /\ anchorWorld' = anchorWorld
        BY <3>3, SMT DEF PoseNoAnchor, PoseFails
      <4>2. blocked' = (OdomTaken \/ OdomInside)
        BY <3>3, Zenon DEF PoseNoAnchor
      <4>3. blocked' \in BOOLEAN
        BY <4>2, Zenon
      <4> QED BY <4>1, <4>3 DEF SessionTypeOK
    <3>4. CASE PoseRefused \/ PoseRestarted \/ PoseAnchorLost
      <4>1. vio'.at = "idle" /\ anchorWorld' = anchorWorld
        BY <3>4, SMT DEF PoseRefused, PoseRestarted, PoseAnchorLost, PoseFails
      <4>2. blocked' = blocked \/ blocked' = TRUE
        BY <3>4, Zenon DEF PoseRefused, PoseRestarted, PoseAnchorLost
      <4>3. blocked \in BOOLEAN
        BY DEF SessionTypeOK
      <4>4. blocked' \in BOOLEAN
        BY <4>2, <4>3, Zenon
      <4> QED BY <4>1, <4>4 DEF SessionTypeOK
    <3> QED BY <1>13, <3>1, <3>2, <3>3, <3>4 DEF ComputePose
  <2> QED BY <1>2, <1>3, <1>4, <2>1, <2>3, <2>4 DEF SessionTypeOK, SpinOK, BufferOK
<1>14. CASE SendPose
  <2>1. UNCHANGED <<sessionVars, anchorWorld, gateVars>> /\ vio'.at = "idle"
    BY <1>14 DEF SendPose
  <2> QED BY <1>2, <1>3, <2>1 DEF SessionTypeOK, SpinOK, BufferOK, sessionVars
<1>15. ASSUME NEW p \in setup.poses, DropSample(p)
       PROVE  SessionTypeOK'
  BY <1>12, <1>15 DEF DropSample
<1> QED BY <1>6, <1>7, <1>8, <1>9, <1>10, <1>11, <1>12, <1>13, <1>14, <1>15 DEF Next, Poll

(***************************************************************************)
(* TypeOK for every robot and ROS graph; in particular no malformed        *)
(* transform reaches the tf2 buffer, whoever announces it.                 *)
(***************************************************************************)
THEOREM SessionTypeCorrect == Spec => []TypeOK
<1>1. RegistryInv /\ SessionTypeOK => TypeOK
  BY DEF RegistryInv, SessionTypeOK, TypeOK, BufferOK, SpinOK, SnapshotOK
<1> QED BY <1>1, RegistryInvInit, RegistryInvStep, SessionTypeInit, SessionTypeStep, PTL DEF Spec
=============================================================================
