------------------------- MODULE FrameDeliveryProofs ------------------------
(***************************************************************************)
(* What holds of PublishDelivery for every configuration, every delivery   *)
(* and every depth of the image cache.                                     *)
(***************************************************************************)
EXTENDS FrameDelivery, FiniteSetTheorems, SequenceTheorems,
        WellFoundedInduction, TLAPS

(***************************************************************************)
(* The images that deliveries of the rectified stream carry.               *)
(***************************************************************************)
RectifiedImages ==
  UNION {{Given(d)[i] : i \in DOMAIN Given(d)} : d \in RectifiedDeliveries}

(***************************************************************************)
(* The inductive invariant: the cache of a pair holds left images of that  *)
(* pair, and a callback or the worker keeps what it was given; in robot    *)
(* mode the BEV callback has the transforms of the installation.           *)
(***************************************************************************)
CacheInv ==
  /\ cache \in [Pairs -> Seq(RectifiedImages)]
  /\ \A p \in Pairs : /\ Len(cache[p]) <= CacheDepth
                      /\ \A i \in 1 .. Len(cache[p]) : cache[p][i].id = LeftFrame(p)

RectifiedInv ==
  rectified # None =>
    /\ rectified \in [of : RectifiedDeliveries, left : SUBSET Nat]
    /\ rectified.left \subseteq LeftImages(rectified.of)

WorkerInv == slot \in DisparityFrames \cup {None} /\ frame \in DisparityFrames \cup {None}

BevInv ==
  /\ session \in {None, setup.installation}
  /\ bev # None =>
       /\ bev.of \in BevDeliveries /\ setup.ipm = "board"
       /\ setup.plane # None => bev.tf = setup.installation /\ setup.installation # None

DeliveryInv == setup \in Setups /\ CacheInv /\ RectifiedInv /\ WorkerInv /\ BevInv

(***************************************************************************)
(* An image to cache has the time stamp that deliveries give it.           *)
(***************************************************************************)
LEMMA GivenImages ==
  ASSUME NEW d \in RectifiedDeliveries
  PROVE  /\ DOMAIN Given(d) \subseteq Nat
         /\ \A i \in DOMAIN Given(d) : /\ Given(d)[i] \in RectifiedImages
                                       /\ Given(d)[i].stamp \in Nat
<1>1. \A i \in DOMAIN Given(d) : Given(d)[i] \in RectifiedImages
  BY DEF RectifiedImages
<1> DEFINE S == {d.images[i] : i \in DOMAIN d.images}
<1>2. d.images \in Seq(S) /\ \A i \in DOMAIN d.images : d.images[i].stamp \in Nat
  BY RectifiedAssumption
<1>3. DOMAIN d.images = 1 .. Len(d.images) /\ Len(d.images) \in Nat
  BY <1>2
<1>4. CASE d.image = None
  BY <1>1, <1>2, <1>3, <1>4 DEF Given
<1>5. CASE d.image # None
  <2>1. d.image.stamp \in Nat
    BY <1>5, RectifiedAssumption
  <2>2. Given(d) = Append(d.images, d.image)
    BY <1>5 DEF Given
  <2>3. /\ DOMAIN Given(d) = 1 .. Len(d.images) + 1
        /\ \A i \in 1 .. Len(d.images) : Given(d)[i] = d.images[i]
        /\ Given(d)[Len(d.images) + 1] = d.image
    <3> DEFINE R == S \cup {d.image}
    <3>1. d.images \in Seq(R) /\ d.image \in R
      BY <1>2
    <3> HIDE DEF S, R
    <3> QED BY <2>2, <3>1, AppendProperties
  <2> HIDE DEF S
  <2>4. ASSUME NEW i \in DOMAIN Given(d)
        PROVE  Given(d)[i].stamp \in Nat
    <3>1. i \in 1 .. Len(d.images) \/ i = Len(d.images) + 1
      BY <1>3, <2>3
    <3> QED BY <1>2, <1>3, <2>1, <2>3, <3>1
  <2> QED BY <1>1, <1>3, <2>3, <2>4
<1> QED BY <1>4, <1>5

(***************************************************************************)
(* Caching one image keeps the cache of every pair.                        *)
(***************************************************************************)
LEMMA CacheKept ==
  ASSUME NEW image \in RectifiedImages, CacheInv,
         image.id \in {LeftFrame(p) : p \in Pairs},
         cache' = [cache EXCEPT ![PairOf(image)] = Latest(Append(@, image))]
  PROVE  CacheInv'
<1> DEFINE q == PairOf(image)
           s == Append(cache[q], image)
<1>1. q \in Pairs /\ LeftFrame(q) = image.id
  BY DEF PairOf
<1>2. CacheDepth \in Nat \ {0}
  BY DepthAssumption
<1>3. /\ cache[q] \in Seq(RectifiedImages) /\ Len(cache[q]) <= CacheDepth
      /\ \A i \in 1 .. Len(cache[q]) : cache[q][i].id = image.id
  BY <1>1 DEF CacheInv
<1> HIDE DEF q
<1>4. /\ s \in Seq(RectifiedImages) /\ Len(s) = Len(cache[q]) + 1
      /\ \A i \in 1 .. Len(s) : s[i].id = image.id
  <2>1. /\ s \in Seq(RectifiedImages) /\ Len(s) = Len(cache[q]) + 1
        /\ \A i \in 1 .. Len(cache[q]) : s[i] = cache[q][i]
        /\ s[Len(cache[q]) + 1] = image
    BY <1>3, AppendProperties
  <2> HIDE DEF s
  <2>2. Len(cache[q]) \in Nat
    BY <1>3
  <2>3. ASSUME NEW i \in 1 .. Len(s)
        PROVE  s[i].id = image.id
    <3>1. i \in 1 .. Len(cache[q]) \/ i = Len(cache[q]) + 1
      BY <2>1, <2>2
    <3> QED BY <1>3, <2>1, <3>1
  <2> QED BY <2>1, <2>3
<1> HIDE DEF s
<1>5. /\ Latest(s) \in Seq(RectifiedImages) /\ Len(Latest(s)) <= CacheDepth
      /\ \A i \in 1 .. Len(Latest(s)) : Latest(s)[i].id = image.id
  <2>1. CASE Len(s) > CacheDepth
    <3>1. s # << >>
      BY <1>2, <2>1
    <3>2. /\ Tail(s) \in Seq(RectifiedImages) /\ Len(Tail(s)) = Len(s) - 1
          /\ \A i \in 1 .. Len(Tail(s)) : Tail(s)[i] = s[i + 1]
      BY <1>4, <3>1, HeadTailProperties
    <3>3. Len(s) \in Nat /\ Len(cache[q]) \in Nat
      BY <1>3, <1>4
    <3>4. \A i \in 1 .. Len(Tail(s)) : i + 1 \in 1 .. Len(s)
      BY <3>2, <3>3
    <3>5. Len(Tail(s)) <= CacheDepth
      BY <1>2, <1>3, <1>4, <3>2, <3>3
    <3> QED BY <1>4, <2>1, <3>2, <3>4, <3>5 DEF Latest
  <2>2. CASE ~ (Len(s) > CacheDepth)
    <3>1. Len(s) \in Nat
      BY <1>4
    <3> QED BY <1>2, <1>4, <2>2, <3>1 DEF Latest
  <2> QED BY <2>1, <2>2
<1>6. cache' = [cache EXCEPT ![q] = Latest(s)]
  BY DEF q, s
<1> QED BY <1>1, <1>5, <1>6 DEF CacheInv

(***************************************************************************)
(* The invariant holds at the start and is kept by every step.             *)
(***************************************************************************)
LEMMA DeliveryInvInit == Init => DeliveryInv
<1> SUFFICES ASSUME Init
             PROVE  DeliveryInv
  OBVIOUS
<1>1. << >> \in Seq(RectifiedImages) /\ Len(<< >>) = 0
  BY EmptySeq
<1>2. CacheInv
  BY <1>1, DepthAssumption DEF Init, CacheInv
<1> QED BY <1>2 DEF Init, DeliveryInv, RectifiedInv, WorkerInv, BevInv

\* Every step keeps the invariant.
LEMMA DeliveryInvStep == DeliveryInv /\ [Next]_vars => DeliveryInv'
<1> SUFFICES ASSUME DeliveryInv, [Next]_vars
             PROVE  DeliveryInv'
  OBVIOUS
<1> USE DEF DeliveryInv
<1>1. UNCHANGED setup
  BY DEF Next, vars, Raw, ReceiveRectified, CacheOne, PublishRectified, PublishDisparity, Take,
         PublishDerived, SessionChanges, ReceiveBev, PublishBev, PublishPanorama,
         PublishSensor, Time
<1>2. CASE ReceiveRectified
  <2>1. PICK d \in RectifiedDeliveries : rectified' = [of |-> d, left |-> LeftImages(d)]
    BY <1>2 DEF ReceiveRectified
  <2>2. LeftImages(d) \in SUBSET Nat
    BY GivenImages DEF LeftImages
  <2>3. RectifiedInv'
    BY <1>1, <2>1, <2>2 DEF RectifiedInv, LeftImages
  <2> QED BY <1>2, <2>3 DEF ReceiveRectified, CacheInv, WorkerInv, BevInv
<1>3. CASE CacheOne
  <2>1. PICK i \in rectified.left :
          LET image == Given(rectified.of)[i]
          IN  /\ cache' = [cache EXCEPT ![PairOf(image)] = Latest(Append(@, image))]
              /\ rectified' = [rectified EXCEPT !.left = @ \ {i}]
    BY <1>3 DEF CacheOne
  <2>2. /\ rectified \in [of : RectifiedDeliveries, left : SUBSET Nat]
        /\ rectified.left \subseteq LeftImages(rectified.of)
    BY <1>3 DEF CacheOne, RectifiedInv
  <2> DEFINE image == Given(rectified.of)[i]
  <2>3. image \in RectifiedImages /\ Cacheable(image)
    BY <2>2, GivenImages DEF LeftImages
  <2>4. image.id \in {LeftFrame(p) : p \in Pairs}
    BY <2>3 DEF Cacheable
  <2> HIDE DEF image
  <2>5. cache' = [cache EXCEPT ![PairOf(image)] = Latest(Append(@, image))]
    BY <2>1 DEF image
  <2>6. CacheInv'
    BY <2>3, <2>4, <2>5, CacheKept
  <2>7. /\ rectified' \in [of : RectifiedDeliveries, left : SUBSET Nat]
        /\ rectified'.of = rectified.of /\ rectified'.left \subseteq rectified.left
    BY <2>1, <2>2
  <2>8. RectifiedInv'
    BY <1>1, <2>2, <2>7 DEF RectifiedInv, LeftImages
  <2> QED BY <1>3, <2>6, <2>8 DEF CacheOne, WorkerInv, BevInv
<1>4. ASSUME UNCHANGED rectified
      PROVE  RectifiedInv'
  BY <1>1, <1>4 DEF RectifiedInv, LeftImages
<1>5. ASSUME UNCHANGED cache
      PROVE  CacheInv'
  BY <1>5 DEF CacheInv
<1>6. ASSUME UNCHANGED <<session, bev>>
      PROVE  BevInv'
  BY <1>1, <1>6 DEF BevInv
<1>7. CASE PublishRectified
  BY <1>1, <1>5, <1>6, <1>7 DEF PublishRectified, RectifiedInv, WorkerInv
<1>8. CASE PublishDisparity
  <2>1. UNCHANGED <<rectified, cache, session, bev, frame>>
    BY <1>8 DEF PublishDisparity
  <2>2. slot' \in DisparityFrames \cup {None}
    BY <1>8 DEF PublishDisparity, WithDepth, WithoutDepth, WorkerInv
  <2> QED BY <1>1, <1>4, <1>5, <1>6, <2>1, <2>2 DEF WorkerInv
<1>9. CASE Take
  BY <1>1, <1>4, <1>5, <1>6, <1>9 DEF Take, WorkerInv
<1>10. CASE PublishDerived
  <2>1. UNCHANGED <<rectified, cache, session, bev, slot>> /\ frame' = None
    BY <1>10 DEF PublishDerived
  <2> QED BY <1>1, <1>4, <1>5, <1>6, <2>1 DEF WorkerInv
<1>11. CASE SessionChanges
  <2>1. UNCHANGED <<rectified, cache, slot, frame>>
    BY <1>11 DEF SessionChanges
  <2>2. BevInv'
    BY <1>1, <1>11 DEF SessionChanges, BevInv
  <2> QED BY <1>1, <1>4, <1>5, <2>1, <2>2 DEF WorkerInv
<1>12. CASE ReceiveBev
  <2>1. UNCHANGED <<rectified, cache, slot, frame>>
    BY <1>12 DEF ReceiveBev
  <2>2. BevInv'
    BY <1>1, <1>12 DEF ReceiveBev, BevInv
  <2> QED BY <1>1, <1>4, <1>5, <2>1, <2>2 DEF WorkerInv
<1>13. CASE PublishBev
  <2>1. UNCHANGED <<rectified, cache, slot, frame, session>> /\ bev' = None
    BY <1>13 DEF PublishBev
  <2>2. BevInv'
    BY <1>1, <2>1 DEF BevInv
  <2> QED BY <1>1, <1>4, <1>5, <2>1, <2>2 DEF WorkerInv
<1>14. ASSUME UNCHANGED <<cache, rectified, slot, frame, session, bev>>
       PROVE  DeliveryInv'
  BY <1>1, <1>4, <1>5, <1>6, <1>14 DEF WorkerInv
<1>15. CASE Raw
  BY <1>14, <1>15 DEF Raw
<1>16. CASE PublishPanorama \/ PublishSensor \/ Time \/ UNCHANGED vars
  BY <1>14, <1>16 DEF PublishPanorama, PublishSensor, Time, vars
<1> QED BY <1>2, <1>3, <1>7, <1>8, <1>9, <1>10, <1>11, <1>12, <1>13, <1>15, <1>16 DEF Next

-----------------------------------------------------------------------------
(***************************************************************************)
(* Every set of numbers has a least one.                                   *)
(***************************************************************************)
LEMMA LeastNumber ==
  ASSUME NEW T \in SUBSET Nat, T # {}
  PROVE  \E x \in T : \A y \in T : x <= y
<1> DEFINE less == {ss \in Nat \X Nat : ss[1] < ss[2]}
<1>1. IsWellFoundedOn(less, Nat)
  BY NatLessThanWellFounded DEF OpToRel
<1>2. \A x, y \in Nat : y < x => <<y, x>> \in less
  OBVIOUS
<1> HIDE DEF less
<1>3. PICK x \in T : \A y \in T : ~ (<<y, x>> \in less)
  BY <1>1, WFMin
<1>4. ASSUME NEW y \in T
      PROVE  x <= y
  <2>1. x \in Nat /\ y \in Nat /\ ~ (y < x)
    BY <1>2, <1>3
  <2> QED BY <2>1
<1> QED BY <1>4

\* A distance in time between stamps is a number.
LEMMA DeltaNatural ==
  ASSUME NEW image, image.stamp \in Nat, NEW stamp \in Nat
  PROVE  Delta(image, stamp) \in Nat
BY DEF Delta

(***************************************************************************)
(* The search of the nearest image finds one of the list, none of the list *)
(* is nearer, and none that is older as near.                              *)
(***************************************************************************)
LEMMA NearestIsNearest ==
  ASSUME NEW S, NEW images \in Seq(S), images # << >>,
         \A i \in 1 .. Len(images) : images[i].stamp \in Nat,
         NEW stamp \in Nat
  PROVE  \E k \in 1 .. Len(images) :
           /\ Nearest(images, stamp) = images[k]
           /\ NoneNearer(images, k, stamp)
<1> DEFINE D == DOMAIN images
           d(i) == Delta(images[i], stamp)
<1>1. D = 1 .. Len(images) /\ Len(images) \in Nat /\ Len(images) # 0
  BY EmptySeq
<1>2. ASSUME NEW i \in D
      PROVE  i \in Nat /\ d(i) \in Nat
  <2>1. i \in 1 .. Len(images) /\ images[i].stamp \in Nat
    BY <1>1
  <2> QED BY <2>1, DeltaNatural
<1> DEFINE c == CHOOSE i \in D : FirstNearest(images, stamp, i)
<1>6. Nearest(images, stamp) = images[c]
  BY DEF Nearest
<1>9. \A i : FirstNearest(images, stamp, i)
               <=> \A j \in D : d(i) < d(j) \/ (d(i) = d(j) /\ i <= j)
  BY DEF FirstNearest
<1> HIDE DEF d
<1>3. PICK least \in {d(i) : i \in D} : \A x \in {d(i) : i \in D} : least <= x
  <2>1. D # {}
    BY <1>1
  <2> HIDE DEF D
  <2>2. {d(i) : i \in D} \in SUBSET Nat /\ {d(i) : i \in D} # {}
    BY <1>2, <2>1
  <2> QED BY <2>2, LeastNumber
<1>4. PICK k \in {i \in D : d(i) = least} : \A j \in {i \in D : d(i) = least} : k <= j
  <2>1. {i \in D : d(i) = least} \in SUBSET Nat /\ {i \in D : d(i) = least} # {}
    BY <1>2, <1>3
  <2> HIDE DEF D
  <2> QED BY <2>1, LeastNumber
<1>5. k \in D /\ \A j \in D : d(k) < d(j) \/ (d(k) = d(j) /\ k <= j)
  <2> HIDE DEF D
  <2>1. k \in D /\ d(k) = least /\ k \in Nat
    BY <1>2, <1>4
  <2>2. ASSUME NEW j \in D
        PROVE  d(k) < d(j) \/ (d(k) = d(j) /\ k <= j)
    <3>1. j \in Nat /\ d(j) \in Nat /\ least \in Nat /\ least <= d(j)
      BY <1>2, <1>3, <2>1
    <3>2. d(j) = least => k <= j
      BY <1>4
    <3> QED BY <2>1, <3>1, <3>2
  <2> QED BY <2>1, <2>2
<1>7. c \in D /\ \A j \in D : d(c) < d(j) \/ (d(c) = d(j) /\ c <= j)
  <2> HIDE DEF D
  <2>1. k \in D /\ FirstNearest(images, stamp, k)
    BY <1>5, <1>9
  <2>2. c \in D /\ FirstNearest(images, stamp, c)
    BY <2>1
  <2> QED BY <1>9, <2>2
<1> HIDE DEF c, D
<1>8. c \in D /\ \A j \in D : IF j < c THEN d(c) < d(j) ELSE d(c) <= d(j)
  BY <1>2, <1>7
<1>10. NoneNearer(images, c, stamp)
  BY <1>8 DEF NoneNearer, D, d
<1> QED BY <1>1, <1>6, <1>8, <1>10 DEF c

(***************************************************************************)
(* Colours for all tiles: as many pairs as there are tiles are near only   *)
(* if all of the tiles' pairs are.                                         *)
(***************************************************************************)
LEMMA EveryTileNear ==
  ASSUME NEW n \in Nat, NEW near, near \subseteq {p \in Pairs : p < n}, Cardinality(near) >= n
  PROVE  n <= 4 /\ near = 0 .. n - 1
<1>1. IsFiniteSet(Pairs) /\ Cardinality(Pairs) = 4
  <2>1. Pairs = 0 .. 3 /\ 0 \in Int /\ 3 \in Int /\ ~ (0 > 3) /\ 3 - 0 + 1 = 4
    BY DEF Pairs
  <2> QED BY <2>1, FS_Interval
<1>2. Cardinality(near) <= 4 /\ Cardinality(near) \in Nat
  <2>1. near \subseteq Pairs
    OBVIOUS
  <2> QED BY <1>1, <2>1, FS_Subset, FS_CardinalityType
<1>3. n <= 4
  BY <1>2
<1>4. near \subseteq 0 .. n - 1
  BY <1>3 DEF Pairs
<1>5. IsFiniteSet(0 .. n - 1) /\ Cardinality(0 .. n - 1) = n
  BY FS_Interval
<1>6. near = 0 .. n - 1
  <2>1. Cardinality(near) <= n /\ (n = Cardinality(near) => 0 .. n - 1 = near)
    BY <1>4, <1>5, FS_Subset
  <2> QED BY <1>2, <2>1
<1> QED BY <1>3, <1>6

-----------------------------------------------------------------------------
(***************************************************************************)
(* The topics of what each callback publishes, by their first part.        *)
(***************************************************************************)
Heads(messages) == {m.topic[1] : m \in messages}

\* A message has the topic it was made for and shows what it was given.
LEMMA MessageFields ==
  \A topic, id, stamp, shows :
    /\ Message(topic, id, stamp, shows).topic = topic
    /\ Message(topic, id, stamp, shows).shows = shows
BY DEF Message

\* The topic of a frame that is one picture.
LEMMA SingleTopics ==
  ASSUME NEW f, NEW m \in SingleCompressed(f)
  PROVE  \/ m.topic = <<"raw", "compressed">>
         \/ m.topic = RawTopic(f.camera, "compressed")
         \/ m.topic = RectifiedTopic(f.identity, "compressed")
<1> DEFINE whole == Bytes(0, f.payload)
<1>1. \/ m = Message(<<"raw", "compressed">>, f.id, f.stamp, whole)
      \/ m = Message(RawTopic(f.camera, "compressed"), OpticalFrame(f.camera, f.id), f.stamp, whole)
      \/ m = Message(RectifiedTopic(f.identity, "compressed"),
                     RectifiedFrameId(f.identity), f.stamp, whole)
  BY DEF SingleCompressed
<1> QED BY <1>1, MessageFields

\* Compressed pictures go to topics of cameras and views.
LEMMA CompressedHeads ==
  ASSUME NEW f, IsBundle(f)
  PROVE  Heads(MakeCompressedImageMessages(f)) \subseteq {"raw", "rectified"}
<1>1. /\ \A camera, leaf : RawTopic(camera, leaf)[1] = "raw"
      /\ \A identity, leaf : RectifiedTopic(identity, leaf)[1] = "rectified"
  BY DEF RawTopic, RectifiedTopic
<1>2. \A m \in SingleCompressed(f) : m.topic[1] \in {"raw", "rectified"}
  <2>1. <<"raw", "compressed">>[1] = "raw"
    OBVIOUS
  <2> QED BY <1>1, <2>1, SingleTopics
<1>3. \A i : RawEntry(f, i).topic[1] = "raw" /\ RectifiedEntry(f, i).topic[1] = "rectified"
  BY <1>1 DEF RawEntry, RectifiedEntry, Message
<1>4. CASE f.bundle = "none"
  BY <1>2, <1>4 DEF MakeCompressedImageMessages, Heads
<1>5. CASE f.bundle # "none" /\ f.entries = None
  BY <1>5 DEF MakeCompressedImageMessages, Heads
<1>6. CASE f.bundle = "RAW" /\ f.entries # None
  BY <1>3, <1>6 DEF MakeCompressedImageMessages, Heads
<1>7. CASE f.bundle = "RECTIFIED" /\ f.entries # None
  BY <1>3, <1>7 DEF MakeCompressedImageMessages, Heads
<1> QED BY <1>4, <1>5, <1>6, <1>7 DEF IsBundle

(***************************************************************************)
(* The decoded images are messages of single images of the delivery.       *)
(***************************************************************************)
LEMMA DecodedImages ==
  ASSUME NEW d, NEW cameras, NEW m \in MakeDecodedImageMessages(d, cameras)
  PROVE  \/ \E i \in DOMAIN d.images :
              m = Decoded(d, d.images[i], i) /\ Wanted(d, d.images[i], i, cameras)
         \/ /\ d.image # None
            /\ m = Decoded(d, d.image, 1) /\ Wanted(d, d.image, 1, cameras)
<1>1. DOMAIN <<d.image>> = {1} /\ <<d.image>>[1] = d.image
  OBVIOUS
<1> QED BY <1>1 DEF MakeDecodedImageMessages

\* And so do decoded ones.
LEMMA DecodedHeads ==
  ASSUME NEW d, NEW cameras
  PROVE  Heads(MakeDecodedImageMessages(d, cameras)) \subseteq {"raw", "rectified"}
<1>1. \A image, i : Decoded(d, image, i).topic[1] \in {"raw", "rectified"}
  BY MessageFields DEF Decoded, RawTopic, RectifiedTopic
<1> QED BY <1>1, DecodedImages DEF Heads

\* And so does all that PublishImages sends of a bundle.
LEMMA ImagesHeads ==
  ASSUME NEW d, IsBundle(d.frame)
  PROVE  Heads(Images(d)) \subseteq {"raw", "rectified"}
BY CompressedHeads, DecodedHeads DEF Images, Heads

(***************************************************************************)
(* The rows of a tile go to the topic of the pair that the tile is of.     *)
(***************************************************************************)
Tiled(calibration) ==
  \A i \in DOMAIN calibration.tiles : calibration.tiles[i].index \in Nat

OnTile(m, calibration, leaf) ==
  \E p \in Pairs : /\ m.topic = <<PairDirections[p + 1], leaf>>
                   /\ m.shows[2] = p * calibration.tile_height

\* SplitVerticalTileImage sends nothing else.
LEMMA TileMessages ==
  ASSUME NEW raster, NEW calibration, Tiled(calibration), NEW leaf,
         NEW m \in SplitVerticalTileImage(raster, calibration, leaf)
  PROVE  OnTile(m, calibration, leaf)
<1>1. PICK i \in DOMAIN calibration.tiles :
        LET t == calibration.tiles[i]
        IN  /\ RectifiedPairDirection(t.index) # ""
            /\ m = Message(<<RectifiedPairDirection(t.index), leaf>>,
                           "orbvi/" \o RectifiedPairDirection(t.index) \o "/" \o leaf,
                           raster.stamp, <<"rows", FirstRow(calibration, t), t.height, t.width>>)
  BY DEF SplitVerticalTileImage
<1> DEFINE t == calibration.tiles[i]
<1>2. t.index \in Nat
  BY DEF Tiled
<1>3. /\ m.topic = <<RectifiedPairDirection(t.index), leaf>>
      /\ m.shows[2] = t.index * calibration.tile_height
  <2> DEFINE row == FirstRow(calibration, t)
  <2>1. row = t.index * calibration.tile_height
    BY DEF FirstRow
  <2> HIDE DEF row
  <2>2. /\ m.topic = <<RectifiedPairDirection(t.index), leaf>>
        /\ m.shows = <<"rows", row, t.height, t.width>>
    BY <1>1 DEF row, Message
  <2>3. m.shows[2] = row
    BY <2>2
  <2> QED BY <2>1, <2>2, <2>3
<1> HIDE DEF t
<1>4. t.index + 1 \in DOMAIN PairDirections
  BY <1>1 DEF RectifiedPairDirection, t
<1>5. DOMAIN PairDirections = 1 .. 4
  BY DEF PairDirections
<1>6. t.index \in Pairs
  BY <1>2, <1>4, <1>5 DEF Pairs
<1> QED BY <1>3, <1>4, <1>6 DEF RectifiedPairDirection, OnTile

\* The four pairs have four directions.
LEMMA Directions4 ==
  /\ \A p \in Pairs : PairDirections[p + 1] \in {"front", "right", "rear", "left"}
  /\ \A p, q \in Pairs : PairDirections[p + 1] = PairDirections[q + 1] => p = q
<1>1. \A p \in Pairs : p = 0 \/ p = 1 \/ p = 2 \/ p = 3
  BY DEF Pairs
<1>2. /\ PairDirections[0 + 1] = "front" /\ PairDirections[1 + 1] = "right"
      /\ PairDirections[2 + 1] = "rear" /\ PairDirections[3 + 1] = "left"
  BY DEF PairDirections
<1> QED BY <1>1, <1>2

Around == {"front", "right", "rear", "left"}

\* Disparity goes out whole without a calibration and in tiles with one.
LEMMA DisparityMessages ==
  ASSUME NEW f, setup \in Setups, NEW m \in Disparity(f)
  PROVE  \/ m.topic = <<"disparity">>
         \/ OnTile(m, setup.calibration, "disparity")
<1>1. CASE setup.calibration # None
  <2>1. Tiled(setup.calibration)
    BY <1>1, SetupAssumption DEF Tiled
  <2>2. PICK image : m \in SplitVerticalTileImage(image, setup.calibration, "disparity")
    BY <1>1 DEF Disparity, MakeSplitDisparityImages
  <2> QED BY <2>1, <2>2, TileMessages
<1>2. CASE setup.calibration = None
  BY <1>2, MessageFields DEF Disparity
<1> QED BY <1>1, <1>2

\* Depth and its picture go out in tiles.
LEMMA DepthMessages ==
  ASSUME NEW f, NEW depth, setup \in Setups, setup.calibration # None, NEW m \in Depth(f, depth)
  PROVE  \E leaf \in {"depth", "depth/viz"} : OnTile(m, setup.calibration, leaf)
<1>1. Tiled(setup.calibration)
  BY SetupAssumption DEF Tiled
<1>2. CASE m \in MakeSplitDepthImages(depth, setup.calibration)
  <2>1. PICK image : m \in SplitVerticalTileImage(image, setup.calibration, "depth")
    BY <1>2 DEF MakeSplitDepthImages
  <2> QED BY <1>1, <2>1, TileMessages
<1>3. CASE m \in MakeSplitDepthVisualizationImages(depth, f, setup.calibration)
  <2>1. PICK image : m \in SplitVerticalTileImage(image, setup.calibration, "depth/viz")
    BY <1>3 DEF MakeSplitDepthVisualizationImages
  <2> QED BY <1>1, <2>1, TileMessages
<1> QED BY <1>2, <1>3 DEF Depth

(***************************************************************************)
(* What PublishDisparity sends: tiles, or the whole disparity.             *)
(***************************************************************************)
LEMMA DisparitySent ==
  ASSUME setup \in Setups, PublishDisparity, NEW m \in sent'.messages
  PROVE  \/ m.topic = <<"disparity">>
         \/ \E leaf \in {"disparity", "depth", "depth/viz"} : OnTile(m, setup.calibration, leaf)
<1>1. PICK f \in DisparityFrames : WithoutDepth(f) \/ WithDepth(f)
  BY DEF PublishDisparity
<1>2. CASE m \in Disparity(f)
  BY <1>2, DisparityMessages
<1>3. CASE \E depth : setup.calibration # None /\ m \in Depth(f, depth)
  BY <1>3, DepthMessages
<1>4. sent' \in [of : {f}, messages : {Disparity(f)}] \/ WithDepth(f)
  BY <1>1 DEF WithoutDepth, Sends
<1>5. WithDepth(f) =>
        \E depth : setup.calibration # None /\ sent'.messages = Disparity(f) \cup Depth(f, depth)
  BY DEF WithDepth, Sends
<1> QED BY <1>2, <1>3, <1>4, <1>5

(***************************************************************************)
(* What the worker makes: the panorama of depth and one cloud, coloured    *)
(* only with colours for all tiles.                                        *)
(***************************************************************************)
LEMMA DerivedSent ==
  ASSUME PublishDerived, NEW m \in sent'.messages
  PROVE  /\ m.topic[1] = "depth"
         /\ m.topic = <<"depth", "points">> =>
              \/ m.shows = None
              \/ LET colours == SnapshotRectifiedLeftImages(frame.stamp)
                 IN  /\ m.shows = colours /\ setup.calibration # None
                     /\ Cardinality(DOMAIN colours) >= setup.calibration.tile_count
<1>1. PICK panorama \in (IF setup.calibration = None THEN {{}} ELSE DepthPanorama(frame)),
           cloud \in (IF setup.cloud /\ setup.calibration # None THEN Clouds(frame) ELSE {{}}) :
        sent' = [of |-> frame, messages |-> cloud \cup panorama]
  BY DEF PublishDerived, Sends
<1>2. CASE m \in panorama
  <2>1. PICK depth : m \in MakeDepthPanoramaMessages(depth)
    BY <1>1, <1>2 DEF DepthPanorama
  <2>2. m.topic = <<"depth", "panorama">> \/ m.topic = <<"depth", "panorama/viz">>
    BY <2>1, MessageFields DEF MakeDepthPanoramaMessages
  <2> QED BY <2>2
<1>3. CASE m \in cloud
  <2> DEFINE colours == SnapshotRectifiedLeftImages(frame.stamp)
  <2>1. /\ setup.calibration # None
        /\ \/ m = Cloud(frame, None)
           \/ /\ m = Cloud(frame, colours)
              /\ Cardinality(DOMAIN colours) >= setup.calibration.tile_count
    BY <1>1, <1>3 DEF Clouds
  <2> HIDE DEF colours
  <2>2. m.topic = <<"depth", "points">>
    BY <2>1, MessageFields DEF Cloud
  <2>3. m = Cloud(frame, None) => m.shows = None
    BY MessageFields DEF Cloud
  <2>4. m = Cloud(frame, colours) => m.shows = colours
    BY MessageFields DEF Cloud
  <2> QED BY <2>1, <2>2, <2>3, <2>4 DEF colours
<1> QED BY <1>1, <1>2, <1>3

(***************************************************************************)
(* What each of the other callbacks sends.                                 *)
(***************************************************************************)
LEMMA RawSent ==
  ASSUME Raw
  PROVE  \E d \in RawDeliveries :
           /\ sent'.of = d
           /\ \/ sent'.messages = Images(d)
              \/ \E ground : /\ setup.ipm = "host" /\ ground.topic = <<"ipm", "image">>
                             /\ sent'.messages = Images(d) \cup {ground}
<1>1. PICK d \in RawDeliveries : Publish(d)
  BY DEF Raw
<1>2. CASE Sends(d, Images(d))
  BY <1>2 DEF Sends
<1>3. CASE IpmDue /\ Publish(d) /\ ~ Sends(d, Images(d))
  <2> DEFINE ground == Message(<<"ipm", "image">>, setup.fallback, d.frame.stamp, <<"ground">>)
  <2>1. sent' = [of |-> d, messages |-> Images(d) \cup {ground}]
    BY <1>3 DEF Publish, Sends
  <2>2. ground.topic = <<"ipm", "image">>
    BY MessageFields
  <2>3. setup.ipm = "host"
    BY <1>3 DEF IpmDue
  <2> HIDE DEF ground
  <2> QED BY <2>1, <2>2, <2>3
<1> QED BY <1>1, <1>2, <1>3 DEF Publish

\* A board IPM is the display image of the delivery.
LEMMA BevMessages ==
  ASSUME NEW d, NEW fallback, NEW m \in MakeBoardDisplayImageMessage(d, fallback)
  PROVE  /\ m = Message(<<"ipm", "image">>, Either(DisplayImage(d).id, fallback, ""),
                        DisplayImage(d).stamp, DisplayImage(d).shows)
         /\ m.topic = <<"ipm", "image">>
<1> DEFINE image == DisplayImage(d)
<1>1. m = Message(<<"ipm", "image">>, Either(image.id, fallback, ""), image.stamp, image.shows)
  BY DEF MakeBoardDisplayImageMessage
<1> HIDE DEF image
<1>2. m.topic = <<"ipm", "image">>
  BY <1>1 DEF Message
<1> QED BY <1>1, <1>2 DEF image

\* Panoramas and sensors have topics of their own.
LEMMA OthersSent ==
  ASSUME PublishPanorama \/ PublishSensor
  PROVE  /\ sent'.of \in PanoramaImages \cup SensorFrames
         /\ Heads(sent'.messages) \subseteq {"pano", "lidar", "imu"}
<1>1. <<"pano", "image">>[1] = "pano" /\ <<"lidar", "imu">>[1] = "lidar" /\ <<"imu">>[1] = "imu"
      /\ \A leaf : <<"lidar", leaf>>[1] = "lidar"
  OBVIOUS
<1>2. \A image : Heads(MakePanoramaImageMessage(image)) \subseteq {"pano"}
  <2> SUFFICES ASSUME NEW image, NEW m \in MakePanoramaImageMessage(image)
               PROVE  m.topic[1] = "pano"
    BY DEF Heads
  <2>1. m = Message(<<"pano", "image">>, Either(image.id, "orbvi/panorama/equirectangular", ""),
                    image.stamp, image.shows)
    BY DEF MakePanoramaImageMessage
  <2>2. m.topic = <<"pano", "image">>
    BY <2>1 DEF Message
  <2> QED BY <1>1, <2>2
<1>3. \A f : Heads(MakeImuMessage(f)) \subseteq {"lidar", "imu"}
  BY <1>1, MessageFields DEF MakeImuMessage, Heads
<1>4. \A f, pcl : Heads(MakeLivoxMessages(f, pcl)) \subseteq {"lidar"}
  BY <1>1, MessageFields DEF MakeLivoxMessages, Heads
<1>5. CASE PublishPanorama
  BY <1>2, <1>5 DEF PublishPanorama, Sends
<1>6. CASE PublishSensor
  BY <1>3, <1>4, <1>6 DEF PublishSensor, Sends
<1> QED BY <1>5, <1>6

-----------------------------------------------------------------------------
(***************************************************************************)
(* What the worker takes for the colours of a frame is the nearest image   *)
(* of every tile, if there is one near enough for each.                    *)
(***************************************************************************)
LEMMA SnapshotIsNearest ==
  ASSUME DeliveryInv, NEW stamp \in Nat, setup.calibration # None,
         Cardinality(DOMAIN SnapshotRectifiedLeftImages(stamp)) >= setup.calibration.tile_count
  PROVE  \A p \in 0 .. setup.calibration.tile_count - 1 :
           LET colours == SnapshotRectifiedLeftImages(stamp)
           IN  /\ p \in DOMAIN colours
               /\ colours[p].id = LeftFrame(p)
               /\ Delta(colours[p], stamp) <= setup.delta
               /\ \E k \in DOMAIN cache[p] :
                    colours[p] = cache[p][k] /\ NoneNearer(cache[p], k, stamp)
<1> DEFINE n == setup.calibration.tile_count
           near == {p \in {q \in Pairs : q < n /\ cache[q] # << >>} :
                      Delta(Nearest(cache[p], stamp), stamp) <= setup.delta}
           colours == SnapshotRectifiedLeftImages(stamp)
<1>1. n \in Nat
  BY SetupAssumption DEF DeliveryInv
<1>2. colours = [p \in near |-> Nearest(cache[p], stamp)]
  BY DEF SnapshotRectifiedLeftImages
<1>3. n <= 4 /\ near = 0 .. n - 1
  <2>1. near \subseteq {p \in Pairs : p < n}
    OBVIOUS
  <2>2. Cardinality(near) >= n
    BY <1>2
  <2> HIDE DEF near, n
  <2> QED BY <1>1, <2>1, <2>2, EveryTileNear
<1>4. ASSUME NEW p \in near
      PROVE  /\ p \in DOMAIN colours
             /\ colours[p].id = LeftFrame(p)
             /\ Delta(colours[p], stamp) <= setup.delta
             /\ \E k \in DOMAIN cache[p] :
                  colours[p] = cache[p][k] /\ NoneNearer(cache[p], k, stamp)
  <2>1. p \in Pairs /\ cache[p] # << >> /\ Delta(Nearest(cache[p], stamp), stamp) <= setup.delta
    OBVIOUS
  <2> HIDE DEF colours
  <2>2. p \in DOMAIN colours /\ colours[p] = Nearest(cache[p], stamp)
    BY <1>2
  <2> HIDE DEF near
  <2>3. /\ cache[p] \in Seq(RectifiedImages)
        /\ \A i \in 1 .. Len(cache[p]) : cache[p][i].id = LeftFrame(p)
    BY <2>1 DEF DeliveryInv, CacheInv
  <2>4. \A i \in 1 .. Len(cache[p]) : cache[p][i].stamp \in Nat
    <3>1. \A image \in RectifiedImages : image.stamp \in Nat
      BY GivenImages DEF RectifiedImages
    <3> QED BY <2>3, <3>1
  <2>5. PICK k \in 1 .. Len(cache[p]) :
          /\ Nearest(cache[p], stamp) = cache[p][k]
          /\ NoneNearer(cache[p], k, stamp)
    BY <2>1, <2>3, <2>4, NearestIsNearest
  <2>6. DOMAIN cache[p] = 1 .. Len(cache[p])
    BY <2>3
  <2> QED BY <2>1, <2>2, <2>3, <2>5, <2>6
<1> HIDE DEF near, colours, n
<1>5. \A p \in 0 .. n - 1 : p \in near
  BY <1>3
<1> QED BY <1>4, <1>5 DEF colours, n

(***************************************************************************)
(* A step that sends no cloud, or one without colours, does no harm.       *)
(***************************************************************************)
LEMMA NoColours ==
  ASSUME \A m \in sent'.messages : m.topic = <<"depth", "points">> => m.shows = None
  PROVE  ColoursAreNearest'
BY DEF ColoursAreNearest, Published

\* No cloud goes out under another first part.
LEMMA OtherHeads ==
  ASSUME NEW messages, "depth" \notin Heads(messages), NEW m \in messages
  PROVE  m.topic # <<"depth", "points">>
<1>1. <<"depth", "points">>[1] = "depth"
  OBVIOUS
<1> QED BY <1>1 DEF Heads

\* Every step sends nearest colours, if any: only the worker sends clouds.
LEMMA ColoursStep ==
  ASSUME DeliveryInv, Next
  PROVE  ColoursAreNearest'
<1>1. CASE Raw
  <2>1. PICK d \in RawDeliveries :
          \/ sent'.messages = Images(d)
          \/ \E ground : /\ ground.topic = <<"ipm", "image">>
                         /\ sent'.messages = Images(d) \cup {ground}
    BY <1>1, RawSent
  <2>2. \A m \in Images(d) : m.topic # <<"depth", "points">>
    BY RawAssumption, ImagesHeads, OtherHeads
  <2>3. <<"ipm", "image">> # <<"depth", "points">>
    OBVIOUS
  <2> QED BY <2>1, <2>2, <2>3, NoColours
<1>2. CASE PublishRectified
  <2>1. rectified.of \in RectifiedDeliveries /\ sent'.messages = Images(rectified.of)
    BY <1>2 DEF PublishRectified, Sends, DeliveryInv, RectifiedInv
  <2>2. \A m \in sent'.messages : m.topic # <<"depth", "points">>
    BY <2>1, RectifiedAssumption, ImagesHeads, OtherHeads
  <2> QED BY <2>2, NoColours
<1>3. CASE PublishDisparity
  <2>1. ASSUME NEW m \in sent'.messages
        PROVE  m.topic # <<"depth", "points">>
    <3>1. CASE m.topic = <<"disparity">>
      BY <3>1
    <3>2. CASE \E leaf : OnTile(m, setup.calibration, leaf)
      <4>1. m.topic[1] \in Around
        BY <3>2, Directions4 DEF OnTile, Around
      <4> QED BY <4>1 DEF Around
    <3> QED BY <1>3, <3>1, <3>2, DisparitySent DEF DeliveryInv
  <2> QED BY <2>1, NoColours
<1>4. CASE PublishDerived
  <2>1. frame \in DisparityFrames /\ sent'.of = frame /\ frame.stamp \in Nat
    BY <1>4, DisparityAssumption DEF PublishDerived, Sends, DeliveryInv, WorkerInv
  <2>2. UNCHANGED <<setup, cache>>
    BY <1>4 DEF PublishDerived
  <2> DEFINE colours == SnapshotRectifiedLeftImages(frame.stamp)
             Good(shows) ==
               \A p \in 0 .. setup.calibration.tile_count - 1 :
                 /\ p \in DOMAIN shows
                 /\ shows[p].id = LeftFrame(p)
                 /\ Delta(shows[p], frame.stamp) <= setup.delta
                 /\ \E k \in DOMAIN cache[p] :
                      shows[p] = cache[p][k] /\ NoneNearer(cache[p], k, frame.stamp)
  <2>3. ASSUME NEW m \in sent'.messages, m.topic = <<"depth", "points">>, m.shows # None
        PROVE  Good(m.shows)
    <3>1. /\ m.shows = colours /\ setup.calibration # None
          /\ Cardinality(DOMAIN colours) >= setup.calibration.tile_count
      BY <1>4, <2>3, DerivedSent
    <3>2. Good(colours)
      BY <2>1, <3>1, SnapshotIsNearest
    <3> QED BY <3>1, <3>2
  <2> QED BY <2>1, <2>2, <2>3 DEF ColoursAreNearest, Published
<1>5. CASE PublishBev
  <2>1. \A m \in sent'.messages : m.topic = <<"ipm", "image">>
    BY <1>5, BevMessages DEF PublishBev, Sends
  <2>2. <<"ipm", "image">> # <<"depth", "points">>
    OBVIOUS
  <2> QED BY <2>1, <2>2, NoColours
<1>6. CASE PublishPanorama \/ PublishSensor
  BY <1>6, OthersSent, OtherHeads, NoColours
<1>7. CASE ReceiveRectified \/ CacheOne \/ Take \/ SessionChanges \/ ReceiveBev \/ Time
  <2>1. sent'.messages = {}
    BY <1>7 DEF ReceiveRectified, CacheOne, Take, SessionChanges, ReceiveBev, Time, Silent, Sends
  <2> QED BY <2>1, NoColours
<1> QED BY <1>1, <1>2, <1>3, <1>4, <1>5, <1>6, <1>7 DEF Next

(***************************************************************************)
(* A coloured cloud has for every tile the nearest image of that pair, for *)
(* any number of tiles, any depth of the cache, any stamps, and however    *)
(* the images of a rectified frame reach the cache while the worker works  *)
(* (SnapshotRectifiedLeftImages, CacheRectifiedLeftImages).                *)
(***************************************************************************)
THEOREM ColoursNearest == Spec => []ColoursAreNearest
<1>1. Init => ColoursAreNearest
  BY DEF Init, ColoursAreNearest, Published
<1>2. ColoursAreNearest /\ DeliveryInv /\ [Next]_vars => ColoursAreNearest'
  <2>1. ASSUME ColoursAreNearest, UNCHANGED vars
        PROVE  ColoursAreNearest'
    BY <2>1 DEF vars, ColoursAreNearest, Published
  <2> QED BY <2>1, ColoursStep
<1> QED BY <1>1, <1>2, DeliveryInvInit, DeliveryInvStep, PTL DEF Spec

-----------------------------------------------------------------------------
(***************************************************************************)
(* A step sends the pictures of a delivery, a ground beside them or not,   *)
(* or no pictures of cameras and views at all.                             *)
(***************************************************************************)
SendsPictures(d) ==
  /\ d \in RawDeliveries \cup RectifiedDeliveries
  /\ sent'.of = d
  /\ Images(d) \subseteq sent'.messages
  /\ \A m \in sent'.messages : m \in Images(d) \/ m.topic = <<"ipm", "image">>

\* Only the callbacks of the raw and the rectified stream send pictures.
LEMMA PictureStep ==
  ASSUME DeliveryInv, Next
  PROVE  \/ \E d : SendsPictures(d)
         \/ /\ sent'.of \notin RawDeliveries
            /\ \A m \in sent'.messages : m.topic[1] \notin {"raw", "rectified"}
<1>1. CASE Raw
  <2>1. PICK d \in RawDeliveries :
          /\ sent'.of = d
          /\ \/ sent'.messages = Images(d)
             \/ \E ground : /\ ground.topic = <<"ipm", "image">>
                            /\ sent'.messages = Images(d) \cup {ground}
    BY <1>1, RawSent
  <2>2. SendsPictures(d)
    BY <2>1 DEF SendsPictures
  <2> QED BY <2>2
<1>2. CASE PublishRectified
  <2>1. rectified.of \in RectifiedDeliveries
        /\ sent'.messages = Images(rectified.of) /\ sent'.of = rectified.of
    BY <1>2 DEF PublishRectified, Sends, DeliveryInv, RectifiedInv
  <2>2. SendsPictures(rectified.of)
    BY <2>1 DEF SendsPictures
  <2> QED BY <2>2
<1>3. CASE PublishDisparity
  <2>1. ASSUME NEW m \in sent'.messages
        PROVE  m.topic[1] \notin {"raw", "rectified"}
    <3>1. CASE m.topic = <<"disparity">>
      BY <3>1
    <3>2. CASE \E leaf : OnTile(m, setup.calibration, leaf)
      <4>1. m.topic[1] \in Around
        BY <3>2, Directions4 DEF OnTile, Around
      <4> QED BY <4>1 DEF Around
    <3> QED BY <1>3, <3>1, <3>2, DisparitySent DEF DeliveryInv
  <2>2. sent'.of \in DisparityFrames
    <3>1. PICK f \in DisparityFrames : WithoutDepth(f) \/ WithDepth(f)
      BY <1>3 DEF PublishDisparity
    <3>2. \E messages : sent' = [of |-> f, messages |-> messages]
      BY <3>1 DEF WithDepth, WithoutDepth, Sends
    <3> QED BY <3>2
  <2> QED BY <2>1, <2>2, RawAssumption
<1>4. CASE PublishDerived
  <2>1. sent'.of \in DisparityFrames
    BY <1>4 DEF PublishDerived, Sends, DeliveryInv, WorkerInv
  <2>2. \A m \in sent'.messages : m.topic[1] = "depth"
    BY <1>4, DerivedSent
  <2> QED BY <2>1, <2>2, RawAssumption
<1>5. CASE PublishBev
  <2>1. \A m \in sent'.messages : m.topic = <<"ipm", "image">>
    BY <1>5, BevMessages DEF PublishBev, Sends
  <2>2. <<"ipm", "image">>[1] = "ipm"
    OBVIOUS
  <2>3. sent'.of \in BevDeliveries
    BY <1>5 DEF PublishBev, Sends, DeliveryInv, BevInv
  <2>4. sent'.of.frame.stream = "BevDisplay"
    BY <2>3, BevAssumption
  <2>5. sent'.of \notin RawDeliveries
    BY <2>4, RawAssumption
  <2> QED BY <2>1, <2>2, <2>5
<1>6. CASE PublishPanorama \/ PublishSensor
  <2>1. sent'.of \notin RawDeliveries
    BY <1>6, OthersSent, RawAssumption
  <2> QED BY <1>6, <2>1, OthersSent DEF Heads
<1>7. CASE ReceiveRectified \/ CacheOne \/ Take \/ SessionChanges \/ ReceiveBev \/ Time
  <2>1. sent'.messages = {} /\ sent'.of = None
    BY <1>7 DEF ReceiveRectified, CacheOne, Take, SessionChanges, ReceiveBev, Time, Silent, Sends
  <2> QED BY <2>1, RawAssumption
<1> QED BY <1>1, <1>2, <1>3, <1>4, <1>5, <1>6, <1>7 DEF Next

(***************************************************************************)
(* Topics of cameras and views tell what they are made of.                 *)
(***************************************************************************)
LEMMA TopicsDiffer ==
  /\ \A c, k, d, l : RawTopic(c, k) = RawTopic(d, l) => c = d /\ k = l
  /\ \A v, k, w, l : RectifiedTopic(v, k) = RectifiedTopic(w, l) => v[1] = w[1] /\ v[2] = w[2] /\ k = l
  /\ \A c, k, v, l : RawTopic(c, k) # RectifiedTopic(v, l)
  /\ \A c, k : RawTopic(c, k)[1] = "raw" /\ RawTopic(c, k) # <<"raw", "compressed">>
  /\ \A v, k : RectifiedTopic(v, k)[1] = "rectified" /\ RectifiedTopic(v, k) # <<"raw", "compressed">>
  /\ <<"ipm", "image">>[1] = "ipm" /\ "ipm" # "raw" /\ "ipm" # "rectified"
BY DEF RawTopic, RectifiedTopic

(***************************************************************************)
(* An item goes out under a camera's topic exactly if it names the camera, *)
(* by its ID or, having none, by its place.                                *)
(***************************************************************************)
LEMMA NamesTopic ==
  ASSUME NEW item, NEW i, NEW camera \in RawCameras
  PROVE  Names(item, i, camera) <=> Token(item.camera, i) = camera
<1>1. camera # ""
  BY DEF RawCameras
<1> QED BY <1>1 DEF Names, PassesFor, Token

(***************************************************************************)
(* What a compressed image under the topic of a camera is.                 *)
(***************************************************************************)
LEMMA CompressedOfCamera ==
  ASSUME NEW d, IsBundle(d.frame), NEW camera \in RawCameras,
         NEW m \in Images(d), m.topic = RawTopic(camera, "compressed")
  PROVE  LET f == d.frame
         IN  \/ f.bundle = "none" /\ f.camera = camera
             \/ /\ f.bundle = "RAW" /\ f.entries # None
                /\ \E i \in Sliced(f) : Names(f.entries[i], i, camera) /\ m = RawEntry(f, i)
<1> DEFINE f == d.frame
<1>1. m \in MakeCompressedImageMessages(f)
  <2>1. ASSUME m \in MakeDecodedImageMessages(d, setup.cameras)
        PROVE  FALSE
    <3>1. PICK image, i : m = Decoded(d, image, i)
      BY <2>1, DecodedImages
    <3>2. \/ m.topic = RawTopic(Token(image.camera, i), "image")
          \/ m.topic = RectifiedTopic(ViewAt(d, i), "image")
      BY <3>1 DEF Decoded, Message
    <3> QED BY <3>2, TopicsDiffer
  <2> QED BY <2>1 DEF Images
<1>2. CASE f.bundle = "none"
  <2>1. m \in SingleCompressed(f)
    BY <1>1, <1>2 DEF MakeCompressedImageMessages
  <2>2. \/ m.topic = <<"raw", "compressed">>
        \/ m.topic = RawTopic(f.camera, "compressed")
        \/ m.topic = RectifiedTopic(f.identity, "compressed")
    BY <2>1, SingleTopics
  <2> QED BY <1>2, <2>2, TopicsDiffer
<1>3. CASE f.bundle # "none" /\ f.entries = None
  BY <1>1, <1>3 DEF MakeCompressedImageMessages
<1>4. CASE f.bundle = "RAW" /\ f.entries # None
  <2>1. PICK i \in Sliced(f) : m = RawEntry(f, i)
    BY <1>1, <1>4 DEF MakeCompressedImageMessages
  <2>2. m.topic = RawTopic(Token(f.entries[i].camera, i), "compressed")
    BY <2>1 DEF RawEntry, Message
  <2>3. Token(f.entries[i].camera, i) = camera
    BY <2>2, TopicsDiffer
  <2>4. Names(f.entries[i], i, camera)
    BY <2>3, NamesTopic
  <2> QED BY <1>4, <2>1, <2>4
<1>5. CASE f.bundle = "RECTIFIED" /\ f.entries # None
  <2>1. PICK i : m = RectifiedEntry(f, i)
    BY <1>1, <1>5 DEF MakeCompressedImageMessages
  <2>2. m.topic = RectifiedTopic(f.entries[i].identity, "compressed")
    BY <2>1 DEF RectifiedEntry, Message
  <2> QED BY <2>2, TopicsDiffer
<1> QED BY <1>2, <1>3, <1>4, <1>5 DEF IsBundle

(***************************************************************************)
(* The parts of ShownAsItIs about the pictures of cameras and views.       *)
(***************************************************************************)
LEMMA PicturesAre ==
  ASSUME NEW d, SendsPictures(d)
  PROVE  /\ sent'.of = d /\ IsBundle(d.frame)
         /\ \A m \in sent'.messages : m.topic[1] \in {"raw", "rectified"} => m \in Images(d)
<1>1. IsBundle(d.frame)
  BY RawAssumption, RectifiedAssumption DEF SendsPictures
<1>2. <<"ipm", "image">>[1] = "ipm"
  OBVIOUS
<1> QED BY <1>1, <1>2 DEF SendsPictures

\* A compressed picture under a camera's topic is that camera's entry.
LEMMA OwnCameraStep ==
  ASSUME DeliveryInv, Next
  PROVE  OwnCamera'
<1> SUFFICES ASSUME NEW camera \in RawCameras, NEW m \in sent'.messages,
                    m.topic = RawTopic(camera, "compressed")
             PROVE  LET f == sent'.of.frame
                    IN  \/ f.bundle = "none" /\ f.camera = camera
                        \/ /\ m.frame = "orbvi/camera/" \o camera
                           /\ \E i \in DOMAIN f.entries :
                                /\ Names(f.entries[i], i, camera)
                                /\ m.shows = Bytes(f.entries[i].at, f.entries[i].size)
  BY DEF OwnCamera, Published
<1>1. m.topic[1] = "raw"
  BY TopicsDiffer
<1>2. PICK d : SendsPictures(d)
  BY <1>1, PictureStep
<1>3. m \in Images(d) /\ sent'.of = d /\ IsBundle(d.frame)
  BY <1>1, <1>2, PicturesAre
<1> DEFINE f == d.frame
<1>4. CASE f.bundle = "none" /\ f.camera = camera
  BY <1>3, <1>4
<1>5. CASE \E i \in Sliced(f) : Names(f.entries[i], i, camera) /\ m = RawEntry(f, i)
  <2>1. PICK i \in Sliced(f) : Names(f.entries[i], i, camera) /\ m = RawEntry(f, i)
    BY <1>5
  <2>2. Token(f.entries[i].camera, i) = camera
    BY <2>1, NamesTopic
  <2>3. \A otherwise : OpticalFrame(camera, otherwise) = "orbvi/camera/" \o camera
    BY DEF OpticalFrame
  <2>4. m.frame = "orbvi/camera/" \o camera
    BY <2>1, <2>2, <2>3, NameAssumption DEF RawEntry, Message
  <2>5. m.shows = Bytes(f.entries[i].at, f.entries[i].size)
    BY <2>1 DEF RawEntry, Message
  <2>6. i \in DOMAIN f.entries
    BY DEF Sliced
  <2> QED BY <1>3, <2>1, <2>4, <2>5, <2>6
<1> QED BY <1>3, <1>4, <1>5, CompressedOfCamera

\* An entry is cut from the payload exactly if it is complete, however large its numbers are.
LEMMA CompleteIsSliced ==
  ASSUME NEW f, IsBundle(f), f.entries # None, NEW i \in DOMAIN f.entries
  PROVE  Complete(f, f.entries[i]) <=> i \in Sliced(f)
<1>1. /\ f.payload \in Number
      /\ f.entries[i].at \in Number /\ f.entries[i].size \in Number
  BY DEF IsBundle
<1> QED BY <1>1 DEF Complete, Sliced, SlicePayload, Number

\* A camera's entry goes out whatever the others of its bundle are.
LEMMA UnharmedStep ==
  ASSUME DeliveryInv, Next
  PROVE  Unharmed'
<1>1. UNCHANGED setup
  BY DEF Next, Raw, ReceiveRectified, CacheOne, PublishRectified, PublishDisparity, Take,
         PublishDerived, SessionChanges, ReceiveBev, PublishBev, PublishPanorama,
         PublishSensor, Time
<1> DEFINE d == sent'.of
           f == d.frame
<1> SUFFICES ASSUME d \in RawDeliveries, setup.compressed, f.bundle = "RAW", f.entries # None,
                    NEW i \in DOMAIN f.entries, NEW camera \in RawCameras,
                    Names(f.entries[i], i, camera)
             PROVE  Complete(f, f.entries[i])
                      <=> \E m \in sent'.messages :
                            /\ m.topic = RawTopic(camera, "compressed")
                            /\ m.shows = Bytes(f.entries[i].at, f.entries[i].size)
  BY <1>1 DEF Unharmed, Published
<1>2. SendsPictures(d)
  BY PictureStep DEF SendsPictures
<1>3. IsBundle(f)
  BY <1>2, PicturesAre
<1> HIDE DEF d
<1>4. ASSUME NEW m \in sent'.messages, m.topic = RawTopic(camera, "compressed"),
             m.shows = Bytes(f.entries[i].at, f.entries[i].size)
      PROVE  Complete(f, f.entries[i])
  <2>1. m \in Images(d)
    BY <1>2, <1>4, PicturesAre, TopicsDiffer
  <2>2. PICK j \in Sliced(f) : m = RawEntry(f, j)
    BY <1>3, <1>4, <2>1, CompressedOfCamera
  <2>3. m.shows = Bytes(f.entries[j].at, f.entries[j].size)
    BY <2>2 DEF RawEntry, Message
  <2>4. f.entries[i].at = f.entries[j].at /\ f.entries[i].size = f.entries[j].size
    BY <1>4, <2>3 DEF Bytes
  <2>5. j \in DOMAIN f.entries
    BY DEF Sliced
  <2> QED BY <1>3, <2>4, <2>5, CompleteIsSliced DEF Complete
<1>5. ASSUME Complete(f, f.entries[i])
      PROVE  \E m \in sent'.messages : /\ m.topic = RawTopic(camera, "compressed")
                                       /\ m.shows = Bytes(f.entries[i].at, f.entries[i].size)
  <2>1. i \in Sliced(f)
    BY <1>3, <1>5, CompleteIsSliced
  <2>2. RawEntry(f, i) \in MakeCompressedImageMessages(f)
    BY <2>1 DEF MakeCompressedImageMessages
  <2>3. RawEntry(f, i) \in sent'.messages
    BY <1>2, <2>2 DEF SendsPictures, Images
  <2>4. Token(f.entries[i].camera, i) = camera
    BY NamesTopic
  <2>5. /\ RawEntry(f, i).topic = RawTopic(camera, "compressed")
        /\ RawEntry(f, i).shows = Bytes(f.entries[i].at, f.entries[i].size)
    BY <2>4 DEF RawEntry, Message
  <2> QED BY <2>3, <2>5
<1> QED BY <1>4, <1>5

(***************************************************************************)
(* What a decoded image under the topic of a camera or a view is.          *)
(***************************************************************************)
LEMMA NotCompressed ==
  ASSUME NEW f, IsBundle(f), NEW m \in MakeCompressedImageMessages(f)
  PROVE  \A c, v : m.topic # RawTopic(c, "image") /\ m.topic # RectifiedTopic(v, "image")
<1>1. \/ m.topic = <<"raw", "compressed">>
      \/ \E c : m.topic = RawTopic(c, "compressed")
      \/ \E v : m.topic = RectifiedTopic(v, "compressed")
  <2>1. CASE f.bundle = "none"
    BY <2>1, SingleTopics DEF MakeCompressedImageMessages
  <2>2. CASE f.bundle # "none" /\ f.entries = None
    BY <2>2 DEF MakeCompressedImageMessages
  <2>3. CASE f.bundle = "RAW" /\ f.entries # None
    <3>1. PICK i : m = RawEntry(f, i)
      BY <2>3 DEF MakeCompressedImageMessages
    <3> QED BY <3>1 DEF RawEntry, Message
  <2>4. CASE f.bundle = "RECTIFIED" /\ f.entries # None
    <3>1. PICK i : m = RectifiedEntry(f, i)
      BY <2>4 DEF MakeCompressedImageMessages
    <3> QED BY <3>1 DEF RectifiedEntry, Message
  <2> QED BY <2>1, <2>2, <2>3, <2>4 DEF IsBundle
<1>2. CASE m.topic = <<"raw", "compressed">>
  BY <1>2, TopicsDiffer
<1>3. CASE \E c : m.topic = RawTopic(c, "compressed")
  BY <1>3, TopicsDiffer
<1>4. CASE \E v : m.topic = RectifiedTopic(v, "compressed")
  BY <1>4, TopicsDiffer
<1> QED BY <1>1, <1>2, <1>3, <1>4

\* Topic and picture of a decoded image.
LEMMA DecodedFields ==
  ASSUME NEW d, NEW image, NEW i
  PROVE  LET m == Decoded(d, image, i)
         IN  /\ m.shows = image.shows
             /\ IF d.frame.stream = "RawFisheye"
                  THEN m.topic = RawTopic(Token(image.camera, i), "image")
                  ELSE m.topic = RectifiedTopic(ViewAt(d, i), "image")
BY DEF Decoded, Message

\* A decoded image under the topic of a camera or view is its picture.
LEMMA OwnViewStep ==
  ASSUME DeliveryInv, Next
  PROVE  OwnView'
<1> DEFINE Shows(d, image, i) ==
      \/ /\ d.frame.stream = "RawFisheye" /\ image.shows = <<"camera", image.camera>>
         /\ \/ i \in DOMAIN d.images /\ image = d.images[i]
            \/ d.image # None /\ i = 1 /\ image = d.image
      \/ LET v == ViewAt(d, i)
         IN  d.frame.stream = "RectifiedFisheye" /\ (v # None => image.shows = <<"view", v[1], v[2]>>)
<1>1. ASSUME NEW m \in sent'.messages,
             \/ \E c : m.topic = RawTopic(c, "image")
             \/ \E v : m.topic = RectifiedTopic(v, "image")
      PROVE  \E image, i : LET d == sent'.of
                           IN  /\ m = Decoded(d, image, i)
                               /\ Wanted(d, image, i, setup.cameras) /\ Shows(d, image, i)
  <2>1. m.topic[1] \in {"raw", "rectified"}
    BY <1>1, TopicsDiffer
  <2>2. PICK d : SendsPictures(d)
    BY <2>1, PictureStep
  <2>3. m \in Images(d) /\ IsBundle(d.frame) /\ d = sent'.of
    BY <2>1, <2>2, PicturesAre
  <2>4. m \in MakeDecodedImageMessages(d, setup.cameras)
    BY <1>1, <2>3, NotCompressed DEF Images
  <2>5. ASSUME NEW i \in DOMAIN d.images
        PROVE  Shows(d, d.images[i], i)
    BY <2>2, <2>3, RawAssumption, RectifiedAssumption DEF SendsPictures
  <2>6. d.image # None => Shows(d, d.image, 1)
    BY <2>2, <2>3, RawAssumption, RectifiedAssumption DEF SendsPictures
  <2> HIDE DEF Shows
  <2> QED BY <2>3, <2>4, <2>5, <2>6, DecodedImages
<1>2. ASSUME NEW camera \in RawCameras, NEW m \in sent'.messages,
             m.topic = RawTopic(camera, "image")
      PROVE  OwnPicture(m, camera)'
  <2> DEFINE d == sent'.of
  <2>1. PICK image, i : m = Decoded(d, image, i) /\ Shows(d, image, i)
    BY <1>1, <1>2
  <2>2. d.frame.stream = "RawFisheye" /\ Token(image.camera, i) = camera
    <3>1. m.topic # RectifiedTopic(ViewAt(d, i), "image")
      BY <1>2, TopicsDiffer
    <3>2. d.frame.stream = "RawFisheye" /\ m.topic = RawTopic(Token(image.camera, i), "image")
      BY <2>1, <3>1, DecodedFields
    <3> QED BY <1>2, <3>2, TopicsDiffer
  <2>3. m.shows = <<"camera", image.camera>>
    BY <2>1, <2>2, DecodedFields
  <2>4. CASE image.camera = camera
    BY <2>3, <2>4 DEF OwnPicture
  <2>5. CASE PassesFor(image, i, camera)
    BY <2>1, <2>2, <2>3, <2>5 DEF OwnPicture, PassesFor
  <2> QED BY <2>2, <2>4, <2>5, NamesTopic DEF Names
<1>3. ASSUME NEW view, NEW m \in sent'.messages, m.topic = RectifiedTopic(view, "image")
      PROVE  m.shows = <<"view", view[1], view[2]>>
  <2> DEFINE d == sent'.of
  <2>1. PICK image, i : /\ m = Decoded(d, image, i)
                        /\ Wanted(d, image, i, setup.cameras) /\ Shows(d, image, i)
    BY <1>1, <1>3
  <2>2. d.frame.stream # "RawFisheye"
    <3>1. m.topic # RawTopic(Token(image.camera, i), "image")
      BY <1>3, TopicsDiffer
    <3> QED BY <2>1, <3>1, DecodedFields
  <2>3. ViewAt(d, i) # None /\ m.topic = RectifiedTopic(ViewAt(d, i), "image")
        /\ m.shows = image.shows
    BY <2>1, <2>2, DecodedFields DEF Wanted
  <2>4. ViewAt(d, i)[1] = view[1] /\ ViewAt(d, i)[2] = view[2]
    BY <1>3, <2>3, TopicsDiffer
  <2> QED BY <2>1, <2>2, <2>3, <2>4
<1> HIDE DEF Shows
<1>4. ASSUME NEW p \in Pairs, NEW side \in {"left", "right"}, NEW m \in sent'.messages,
             m.topic = RectifiedTopic(<<PairDirections[p + 1], side>>, "image")
      PROVE  m.shows = <<"view", PairDirections[p + 1], side>>
  <2> DEFINE direction == PairDirections[p + 1]
  <2> HIDE DEF direction
  <2>1. <<direction, side>>[1] = direction /\ <<direction, side>>[2] = side
    OBVIOUS
  <2>2. m.shows = <<"view", <<direction, side>>[1], <<direction, side>>[2]>>
    BY <1>3, <1>4 DEF direction
  <2> QED BY <2>1, <2>2 DEF direction
<1> QED BY <1>2, <1>4 DEF OwnView, Published

(***************************************************************************)
(* Which step sends a tile or a ground.                                    *)
(***************************************************************************)
LEMMA HeadsStep ==
  ASSUME DeliveryInv, Next, NEW m \in sent'.messages
  PROVE  \/ m.topic[1] \in {"raw", "rectified", "depth", "pano", "lidar", "imu"}
         \/ m.topic = <<"disparity">>
         \/ \E leaf \in {"disparity", "depth", "depth/viz"} : OnTile(m, setup.calibration, leaf)
         \/ m.topic = <<"ipm", "image">> /\ setup.ipm = "host"
         \/ m.topic = <<"ipm", "image">> /\ PublishBev
<1>1. CASE Raw
  <2>1. PICK d \in RawDeliveries :
          /\ sent'.of = d
          /\ \/ sent'.messages = Images(d)
             \/ \E ground : /\ setup.ipm = "host" /\ ground.topic = <<"ipm", "image">>
                            /\ sent'.messages = Images(d) \cup {ground}
    BY <1>1, RawSent
  <2>2. Heads(Images(d)) \subseteq {"raw", "rectified"}
    BY RawAssumption, ImagesHeads
  <2> QED BY <2>1, <2>2 DEF Heads
<1>2. CASE PublishRectified
  <2>1. rectified.of \in RectifiedDeliveries /\ sent'.messages = Images(rectified.of)
    BY <1>2 DEF PublishRectified, Sends, DeliveryInv, RectifiedInv
  <2>2. Heads(Images(rectified.of)) \subseteq {"raw", "rectified"}
    BY <2>1, RectifiedAssumption, ImagesHeads
  <2> QED BY <2>1, <2>2 DEF Heads
<1>3. CASE PublishDisparity
  BY <1>3, DisparitySent DEF DeliveryInv
<1>4. CASE PublishDerived
  BY <1>4, DerivedSent
<1>5. CASE PublishBev
  BY <1>5, BevMessages DEF PublishBev, Sends
<1>6. CASE PublishPanorama \/ PublishSensor
  BY <1>6, OthersSent DEF Heads
<1>7. CASE ReceiveRectified \/ CacheOne \/ Take \/ SessionChanges \/ ReceiveBev \/ Time
  <2>1. sent'.messages = {}
    BY <1>7 DEF ReceiveRectified, CacheOne, Take, SessionChanges, ReceiveBev, Time, Silent, Sends
  <2> QED BY <2>1
<1> QED BY <1>1, <1>2, <1>3, <1>4, <1>5, <1>6, <1>7 DEF Next

\* The configuration never changes.
LEMMA SetupStays == Next => UNCHANGED setup
BY DEF Next, Raw, ReceiveRectified, CacheOne, PublishRectified, PublishDisparity, Take,
       PublishDerived, SessionChanges, ReceiveBev, PublishBev, PublishPanorama,
       PublishSensor, Time

\* A tile's topic has the rows of that tile.
LEMMA OwnTileStep ==
  ASSUME DeliveryInv, Next
  PROVE  OwnTile'
<1> SUFFICES ASSUME NEW p \in Pairs, NEW leaf, NEW m \in sent'.messages,
                    m.topic = <<PairDirections[p + 1], leaf>>
             PROVE  m.shows[2] = p * setup.calibration.tile_height
  BY SetupStays DEF OwnTile, Published
<1>1. m.topic[1] \in Around
  BY Directions4 DEF Around
<1>2. m.topic # <<"disparity">>
  BY <1>1 DEF Around
<1>3. m.topic # <<"ipm", "image">>
  BY <1>1 DEF Around
<1>4. PICK l : OnTile(m, setup.calibration, l)
  BY <1>1, <1>2, <1>3, HeadsStep DEF Around
<1>5. PICK q \in Pairs : /\ m.topic = <<PairDirections[q + 1], l>>
                         /\ m.shows[2] = q * setup.calibration.tile_height
  BY <1>4 DEF OnTile
<1>6. PairDirections[p + 1] = PairDirections[q + 1]
  BY <1>5
<1> QED BY <1>5, <1>6, Directions4

-----------------------------------------------------------------------------
(***************************************************************************)
(* Two quaternions that CheckBoardRobotIpm takes for the same rotation     *)
(* rotate every vector to the same place, whatever their lengths and signs *)
(* are: they are parallel (Lagrange's identity).                           *)
(***************************************************************************)

\* A square is zero only of zero.
LEMMA SquareIsNatural ==
  ASSUME NEW x \in Int
  PROVE  x * x \in Nat /\ (x * x = 0 => x = 0)
OBVIOUS

\* Numbers that sum to zero are zero.
LEMMA NaturalsSumToZero ==
  ASSUME NEW a \in Nat, NEW b \in Nat, NEW c \in Nat,
         NEW d \in Nat, NEW e \in Nat, NEW f \in Nat, a + b + c + d + e + f = 0
  PROVE  a = 0 /\ b = 0 /\ c = 0 /\ d = 0 /\ e = 0 /\ f = 0
OBVIOUS

\* Lagrange's identity for vectors of four components.
LEMMA Lagrange ==
  ASSUME NEW a \in Int, NEW b \in Int, NEW c \in Int, NEW d \in Int,
         NEW w \in Int, NEW x \in Int, NEW y \in Int, NEW z \in Int
  PROVE  (a*a + b*b + c*c + d*d) * (w*w + x*x + y*y + z*z)
           = (a*w + b*x + c*y + d*z) * (a*w + b*x + c*y + d*z)
               + (a*x - b*w) * (a*x - b*w) + (a*y - c*w) * (a*y - c*w)
               + (a*z - d*w) * (a*z - d*w) + (b*y - c*x) * (b*y - c*x)
               + (b*z - d*x) * (b*z - d*x) + (c*z - d*y) * (c*z - d*y)
OBVIOUS

\* Quaternions of the same rotation are parallel.
LEMMA Parallel ==
  ASSUME NEW p \in [1 .. 4 -> Int], NEW q \in [1 .. 4 -> Int], SameRotation(p, q)
  PROVE  \A i, j \in 1 .. 4 : p[i] * q[j] = p[j] * q[i]
<1> DEFINE a == p[1] b == p[2] c == p[3] d == p[4]
           w == q[1] x == q[2] y == q[3] z == q[4]
<1>1. /\ a \in Int /\ b \in Int /\ c \in Int /\ d \in Int
      /\ w \in Int /\ x \in Int /\ y \in Int /\ z \in Int
  OBVIOUS
<1>2. (a*w + b*x + c*y + d*z) * (a*w + b*x + c*y + d*z)
        = (a*a + b*b + c*c + d*d) * (w*w + x*x + y*y + z*z)
  BY DEF SameRotation, Squared
<1> DEFINE A == a*x - b*w   B == a*y - c*w   C == a*z - d*w
           D == b*y - c*x   E == b*z - d*x   F == c*z - d*y
<1> HIDE DEF a, b, c, d, w, x, y, z
<1>3. A \in Int /\ B \in Int /\ C \in Int /\ D \in Int /\ E \in Int /\ F \in Int
  BY <1>1
<1>4. A*A + B*B + C*C + D*D + E*E + F*F = 0
  <2>1. (a*a + b*b + c*c + d*d) * (w*w + x*x + y*y + z*z)
          = (a*w + b*x + c*y + d*z) * (a*w + b*x + c*y + d*z)
              + A*A + B*B + C*C + D*D + E*E + F*F
    BY <1>1, Lagrange
  <2> DEFINE G == (a*a + b*b + c*c + d*d) * (w*w + x*x + y*y + z*z)
  <2>2. G \in Int
    BY <1>1
  <2> HIDE DEF A, B, C, D, E, F
  <2>3. A*A \in Int /\ B*B \in Int /\ C*C \in Int /\ D*D \in Int /\ E*E \in Int /\ F*F \in Int
    BY <1>3
  <2>4. G = G + A*A + B*B + C*C + D*D + E*E + F*F
    BY <1>2, <2>1
  <2> HIDE DEF G
  <2> QED BY <2>2, <2>3, <2>4
<1> HIDE DEF A, B, C, D, E, F
<1>5. A = 0 /\ B = 0 /\ C = 0 /\ D = 0 /\ E = 0 /\ F = 0
  <2>1. A*A \in Nat /\ B*B \in Nat /\ C*C \in Nat /\ D*D \in Nat /\ E*E \in Nat /\ F*F \in Nat
    BY <1>3, SquareIsNatural
  <2>2. A*A = 0 /\ B*B = 0 /\ C*C = 0 /\ D*D = 0 /\ E*E = 0 /\ F*F = 0
    BY <1>4, <2>1, NaturalsSumToZero
  <2> QED BY <1>3, <2>2, SquareIsNatural
<1>6. /\ a*x = b*w /\ a*y = c*w /\ a*z = d*w /\ b*y = c*x /\ b*z = d*x /\ c*z = d*y
  BY <1>1, <1>5 DEF A, B, C, D, E, F
<1>7. \A i \in 1 .. 4 : i = 1 \/ i = 2 \/ i = 3 \/ i = 4
  OBVIOUS
<1> QED BY <1>6, <1>7 DEF a, b, c, d, w, x, y, z

(***************************************************************************)
(* Equal fractions have equal quotients.                                   *)
(***************************************************************************)
LEMMA QuotientIs ==
  ASSUME NEW x \in Int, NEW m \in Nat \ {0}, NEW d \in Int, NEW r \in 0 .. m - 1, x = d * m + r
  PROVE  x \div m = d
<1> DEFINE e == x \div m
           u == x % m
<1>1. e \in Int /\ u \in 0 .. m - 1 /\ x = e * m + u
  OBVIOUS
<1> HIDE DEF e, u
<1>2. (e - d) * m = r - u /\ r - u < m /\ u - r < m
  BY <1>1
<1>3. e - d \in Int /\ m \in Int /\ 0 < m
  BY <1>1
<1>4. e - d >= 1 => (e - d) * m >= m
  BY <1>3
<1>5. e - d <= -1 => (d - e) * m >= m
  BY <1>1, <1>3
<1>6. (d - e) * m = u - r
  BY <1>1, <1>2
<1>7. e = d
  BY <1>1, <1>2, <1>3, <1>4, <1>5, <1>6
<1> QED BY <1>7 DEF e

\* So x / m = y / n rounds to the same whole number.
LEMMA SameQuotient ==
  ASSUME NEW x \in Int, NEW y \in Int, NEW m \in Nat \ {0}, NEW n \in Nat \ {0}, x * n = y * m
  PROVE  x \div m = y \div n
<1>1. PICK d \in Int, r \in 0 .. m - 1 : x = d * m + r
  <2>1. x \div m \in Int /\ x % m \in 0 .. m - 1 /\ x = (x \div m) * m + (x % m)
    OBVIOUS
  <2> QED BY <2>1
<1>2. r \in Int /\ m \in Int /\ n \in Int /\ 0 <= r /\ r < m /\ 0 < n /\ 0 < m
  OBVIOUS
<1> DEFINE s == y - d * n
<1>3. s \in Int /\ d * n \in Int
  BY <1>2
<1>4. s * m = r * n
  <2>1. s * m = y * m - (d * n) * m
    BY <1>2
  <2>2. x * n = (d * m) * n + r * n
    BY <1>1, <1>2
  <2>3. (d * m) * n = (d * n) * m
    BY <1>2
  <2> QED BY <2>1, <2>2, <2>3, <1>2
<1> HIDE DEF s
<1>5. 0 <= s
  <2>1. 0 <= r * n
    BY <1>2
  <2>2. s < 0 => s * m < 0
    BY <1>2, <1>3
  <2> QED BY <1>3, <1>4, <2>1, <2>2
<1>6. s < n
  <2>1. r * n < m * n
    BY <1>2
  <2>2. s >= n => s * m >= n * m
    BY <1>2, <1>3
  <2>3. n * m = m * n
    BY <1>2
  <2> QED BY <1>2, <1>3, <1>4, <2>1, <2>2, <2>3
<1>7. y = d * n + s
  BY <1>2, <1>3 DEF s
<1>8. y \div n = d
  BY <1>3, <1>5, <1>6, <1>7, QuotientIs
<1>9. x \div m = d
  BY <1>1, QuotientIs
<1> QED BY <1>8, <1>9

(***************************************************************************)
(* The products of the components of parallel quaternions are to each      *)
(* other as the squares of the lengths.                                    *)
(***************************************************************************)
LEMMA Products ==
  ASSUME NEW p \in [1 .. 4 -> Int], NEW q \in [1 .. 4 -> Int], SameRotation(p, q),
         NEW i \in 1 .. 4, NEW j \in 1 .. 4
  PROVE  (p[i] * p[j]) * Norm(q) = (q[i] * q[j]) * Norm(p)
<1> DEFINE a == p[i] * p[j]   b == q[i] * q[j]
<1>1. ASSUME NEW k \in 1 .. 4
      PROVE  p[k] \in Int /\ q[k] \in Int /\ a * (q[k] * q[k]) = b * (p[k] * p[k])
  <2>1. /\ p[i] \in Int /\ p[j] \in Int /\ p[k] \in Int
        /\ q[i] \in Int /\ q[j] \in Int /\ q[k] \in Int
    OBVIOUS
  <2>2. p[i] * q[k] = p[k] * q[i] /\ p[j] * q[k] = p[k] * q[j]
    BY Parallel
  <2> DEFINE u == p[i]  v == p[j]  s == p[k]  w == q[i]  z == q[j]  t == q[k]
  <2>3. u \in Int /\ v \in Int /\ s \in Int /\ w \in Int /\ z \in Int /\ t \in Int
    BY <2>1
  <2>4. u * t = s * w /\ v * t = s * z
    BY <2>2
  <2> HIDE DEF u, v, s, w, z, t
  <2>5. (u * v) * (t * t) = (u * t) * (v * t)
    BY <2>3
  <2>6. (w * z) * (s * s) = (s * w) * (s * z)
    BY <2>3
  <2>7. (u * v) * (t * t) = (w * z) * (s * s)
    BY <2>4, <2>5, <2>6
  <2> QED BY <2>1, <2>7 DEF u, v, s, w, z, t
<1>2. a \in Int /\ b \in Int
  OBVIOUS
<1> HIDE DEF a, b
<1>3. \A w, x, y, z \in Int : \A c \in Int : c * (w + x + y + z) = c * w + c * x + c * y + c * z
  OBVIOUS
<1>4. 1 \in 1 .. 4 /\ 2 \in 1 .. 4 /\ 3 \in 1 .. 4 /\ 4 \in 1 .. 4
  OBVIOUS
<1>5. a * Norm(q)
        = a * (q[1] * q[1]) + a * (q[2] * q[2]) + a * (q[3] * q[3]) + a * (q[4] * q[4])
  BY <1>1, <1>2, <1>3, <1>4 DEF Norm
<1>6. b * Norm(p)
        = b * (p[1] * p[1]) + b * (p[2] * p[2]) + b * (p[3] * p[3]) + b * (p[4] * p[4])
  BY <1>1, <1>2, <1>3, <1>4 DEF Norm
<1> QED BY <1>1, <1>4, <1>5, <1>6 DEF a, b

\* A quaternion other than zero has a length.
LEMMA NormPositive ==
  ASSUME NEW q, IsRotationOf(q)
  PROVE  Norm(q) \in Nat \ {0}
<1>1. q \in [1 .. 4 -> Int]
  BY DEF IsRotationOf
<1>2. \A k \in 1 .. 4 : q[k] \in Int
  BY <1>1
<1>3. q[1] # 0 \/ q[2] # 0 \/ q[3] # 0 \/ q[4] # 0
  <2>1. \A k \in 1 .. 4 : k = 1 \/ k = 2 \/ k = 3 \/ k = 4
    OBVIOUS
  <2>2. ASSUME q[1] = 0, q[2] = 0, q[3] = 0, q[4] = 0
        PROVE  q = <<0, 0, 0, 0>>
    BY <1>1, <2>1, <2>2
  <2> QED BY <2>2 DEF IsRotationOf
<1> DEFINE a == q[1] b == q[2] c == q[3] d == q[4]
<1>4. a \in Int /\ b \in Int /\ c \in Int /\ d \in Int
  BY <1>2
<1> HIDE DEF a, b, c, d
<1>5. a*a \in Nat /\ b*b \in Nat /\ c*c \in Nat /\ d*d \in Nat
  BY <1>4, SquareIsNatural
<1>6. a*a # 0 \/ b*b # 0 \/ c*c # 0 \/ d*d # 0
  BY <1>3, <1>4, SquareIsNatural DEF a, b, c, d
<1>7. \A w, x, y, z \in Nat : (w # 0 \/ x # 0 \/ y # 0 \/ z # 0) => w + x + y + z \in Nat \ {0}
  OBVIOUS
<1>8. a*a + b*b + c*c + d*d \in Nat \ {0}
  BY <1>5, <1>6, <1>7
<1> QED BY <1>8 DEF Norm, a, b, c, d

(***************************************************************************)
(* What Rotate computes, in products of components: coordinate i, where    *)
(* i, j and k follow one another around.                                   *)
(***************************************************************************)
Turned3(q, v, i, j, k) ==
  Norm(q) * v[i]
    + 2 * ((q[4] * q[j]) * v[k] + (q[4] * q[k]) * (-v[j]) + (q[j] * q[i]) * v[j]
             + (q[j] * q[j]) * (-v[i]) + (q[k] * q[k]) * (-v[i]) + (q[k] * q[i]) * v[k])

\* Rotate, coordinate by coordinate.
LEMMA RotateIs ==
  ASSUME NEW q \in [1 .. 4 -> Int], NEW v, \A i \in 1 .. 3 : v[i] \in Int
  PROVE  Rotate(q, v) = [i \in 1 .. 3 |->
           (IF i = 1 THEN Turned3(q, v, 1, 2, 3)
            ELSE IF i = 2 THEN Turned3(q, v, 2, 3, 1) ELSE Turned3(q, v, 3, 1, 2)) \div Norm(q)]
<1> DEFINE a == q[1] b == q[2] c == q[3] d == q[4]  x == v[1] y == v[2] z == v[3]
           n == Norm(q)
           cross == Cross(q, v)
           second == Cross(q, cross)
           N(i) == n * v[i] + 2 * (d * cross[i] + second[i])
<1>1. /\ a \in Int /\ b \in Int /\ c \in Int /\ d \in Int /\ x \in Int /\ y \in Int /\ z \in Int
      /\ n \in Int
  BY DEF Norm
<1>2. Rotate(q, v) = [i \in 1 .. 3 |-> N(i) \div n]
  BY DEF Rotate, Norm
<1>3. cross = <<b*z - c*y, c*x - a*z, a*y - b*x>>
  BY DEF Cross
<1>4. cross[1] = b*z - c*y /\ cross[2] = c*x - a*z /\ cross[3] = a*y - b*x
  BY <1>3
<1>5. second = <<b*cross[3] - c*cross[2], c*cross[1] - a*cross[3], a*cross[2] - b*cross[1]>>
  BY DEF Cross
<1> HIDE DEF second
<1>6. /\ second[1] = b*cross[3] - c*cross[2] /\ second[2] = c*cross[1] - a*cross[3]
      /\ second[3] = a*cross[2] - b*cross[1]
  BY <1>5
<1> HIDE DEF cross, n, a, b, c, d, x, y, z
<1>7. N(1) = Turned3(q, v, 1, 2, 3)
  <2>1. N(1) = n*x + 2*(d*(b*z - c*y) + (b*(a*y - b*x) - c*(c*x - a*z)))
    BY <1>4, <1>6 DEF x
  <2>2. Turned3(q, v, 1, 2, 3)
          = n*x + 2*((d*b)*z + (d*c)*(-y) + (b*a)*y + (b*b)*(-x) + (c*c)*(-x) + (c*a)*z)
    BY DEF Turned3, n, a, b, c, d, x, y, z
  <2> QED BY <1>1, <2>1, <2>2
<1>8. N(2) = Turned3(q, v, 2, 3, 1)
  <2>1. N(2) = n*y + 2*(d*(c*x - a*z) + (c*(b*z - c*y) - a*(a*y - b*x)))
    BY <1>4, <1>6 DEF y
  <2>2. Turned3(q, v, 2, 3, 1)
          = n*y + 2*((d*c)*x + (d*a)*(-z) + (c*b)*z + (c*c)*(-y) + (a*a)*(-y) + (a*b)*x)
    BY DEF Turned3, n, a, b, c, d, x, y, z
  <2> QED BY <1>1, <2>1, <2>2
<1>9. N(3) = Turned3(q, v, 3, 1, 2)
  <2>1. N(3) = n*z + 2*(d*(a*y - b*x) + (a*(c*x - a*z) - b*(b*z - c*y)))
    BY <1>4, <1>6 DEF z
  <2>2. Turned3(q, v, 3, 1, 2)
          = n*z + 2*((d*a)*y + (d*b)*(-x) + (a*c)*x + (a*a)*(-z) + (b*b)*(-z) + (b*c)*y)
    BY DEF Turned3, n, a, b, c, d, x, y, z
  <2> QED BY <1>1, <2>1, <2>2
<1>10. \A i \in 1 .. 3 : i = 1 \/ i = 2 \/ i = 3
  OBVIOUS
<1> HIDE DEF N
<1> QED BY <1>2, <1>7, <1>8, <1>9, <1>10 DEF n

(***************************************************************************)
(* Sums of proportional terms are proportional.                            *)
(***************************************************************************)
LEMMA Proportional ==
  ASSUME NEW m \in Int, NEW n \in Int, NEW u \in Int,
         NEW a \in [1 .. 6 -> Int], NEW b \in [1 .. 6 -> Int], NEW x \in [1 .. 6 -> Int],
         \A i \in 1 .. 6 : a[i] * m = b[i] * n
  PROVE  (n*u + 2 * (a[1]*x[1] + a[2]*x[2] + a[3]*x[3] + a[4]*x[4] + a[5]*x[5] + a[6]*x[6])) * m
           = (m*u + 2 * (b[1]*x[1] + b[2]*x[2] + b[3]*x[3] + b[4]*x[4] + b[5]*x[5] + b[6]*x[6])) * n
<1> DEFINE A(i) == a[i] * x[i]   B(i) == b[i] * x[i]
<1>1. ASSUME NEW i \in 1 .. 6
      PROVE  A(i) \in Int /\ B(i) \in Int /\ A(i) * m = B(i) * n
  <2> DEFINE s == a[i] t == b[i] y == x[i]
  <2>1. s \in Int /\ t \in Int /\ y \in Int /\ s * m = t * n
    OBVIOUS
  <2> HIDE DEF s, t, y
  <2>2. (s * y) * m = (s * m) * y /\ (t * y) * n = (t * n) * y /\ s * y \in Int /\ t * y \in Int
    BY <2>1
  <2> QED BY <2>1, <2>2 DEF s, t, y
<1>2. 1 \in 1 .. 6 /\ 2 \in 1 .. 6 /\ 3 \in 1 .. 6 /\ 4 \in 1 .. 6 /\ 5 \in 1 .. 6 /\ 6 \in 1 .. 6
  OBVIOUS
<1> HIDE DEF A, B
<1>3. (n*u + 2 * (A(1) + A(2) + A(3) + A(4) + A(5) + A(6))) * m
        = (m*u + 2 * (B(1) + B(2) + B(3) + B(4) + B(5) + B(6))) * n
  <2>1. (n*u + 2 * (A(1) + A(2) + A(3) + A(4) + A(5) + A(6))) * m
          = (n*u)*m + 2 * (A(1)*m + A(2)*m + A(3)*m + A(4)*m + A(5)*m + A(6)*m)
    BY <1>1, <1>2
  <2>2. (m*u + 2 * (B(1) + B(2) + B(3) + B(4) + B(5) + B(6))) * n
          = (m*u)*n + 2 * (B(1)*n + B(2)*n + B(3)*n + B(4)*n + B(5)*n + B(6)*n)
    BY <1>1, <1>2
  <2>3. (n*u)*m = (m*u)*n
    OBVIOUS
  <2> QED BY <1>1, <1>2, <2>1, <2>2, <2>3
<1> QED BY <1>3 DEF A, B

\* The coordinates, before the division by the length, are in its ratio.
LEMMA SameTurned ==
  ASSUME NEW p \in [1 .. 4 -> Int], NEW q \in [1 .. 4 -> Int], SameRotation(p, q),
         NEW v, \A l \in 1 .. 3 : v[l] \in Int,
         NEW i \in 1 .. 3, NEW j \in 1 .. 3, NEW k \in 1 .. 3
  PROVE  /\ Turned3(p, v, i, j, k) \in Int /\ Turned3(q, v, i, j, k) \in Int
         /\ Turned3(p, v, i, j, k) * Norm(q) = Turned3(q, v, i, j, k) * Norm(p)
<1> DEFINE a == <<p[4] * p[j], p[4] * p[k], p[j] * p[i], p[j] * p[j], p[k] * p[k], p[k] * p[i]>>
           b == <<q[4] * q[j], q[4] * q[k], q[j] * q[i], q[j] * q[j], q[k] * q[k], q[k] * q[i]>>
           x == <<v[k], -v[j], v[j], -v[i], -v[i], v[k]>>
           m == Norm(q)
           n == Norm(p)
           u == v[i]
<1>1. /\ \A l \in 1 .. 4 : p[l] \in Int /\ q[l] \in Int
      /\ v[i] \in Int /\ v[j] \in Int /\ v[k] \in Int
      /\ i \in 1 .. 4 /\ j \in 1 .. 4 /\ k \in 1 .. 4 /\ 4 \in 1 .. 4
  OBVIOUS
<1>2. m \in Int /\ n \in Int /\ u \in Int
  BY <1>1 DEF Norm
<1>3. a \in [1 .. 6 -> Int] /\ b \in [1 .. 6 -> Int] /\ x \in [1 .. 6 -> Int]
  <2>1. \A c, d \in Int : c * d \in Int /\ -c \in Int
    OBVIOUS
  <2>2. \A c, d, e, f, g, h \in Int : <<c, d, e, f, g, h>> \in [1 .. 6 -> Int]
    OBVIOUS
  <2> QED BY <1>1, <2>1, <2>2
<1>4. /\ a[1] * m = b[1] * n /\ a[2] * m = b[2] * n /\ a[3] * m = b[3] * n
      /\ a[4] * m = b[4] * n /\ a[5] * m = b[5] * n /\ a[6] * m = b[6] * n
  <2>1. \A c, d \in 1 .. 4 : (p[c] * p[d]) * m = (q[c] * q[d]) * n
    BY Products
  <2> HIDE DEF m, n
  <2> QED BY <1>1, <2>1
<1>5. \A l \in 1 .. 6 : l = 1 \/ l = 2 \/ l = 3 \/ l = 4 \/ l = 5 \/ l = 6
  OBVIOUS
<1>6. Turned3(p, v, i, j, k)
        = n*u + 2 * (a[1]*x[1] + a[2]*x[2] + a[3]*x[3] + a[4]*x[4] + a[5]*x[5] + a[6]*x[6])
  BY DEF Turned3
<1>7. Turned3(q, v, i, j, k)
        = m*u + 2 * (b[1]*x[1] + b[2]*x[2] + b[3]*x[3] + b[4]*x[4] + b[5]*x[5] + b[6]*x[6])
  BY DEF Turned3
<1> HIDE DEF a, b, x, m, n, u
<1>8. \A l \in 1 .. 6 : a[l] * m = b[l] * n
  BY <1>4, <1>5
<1>9. (n*u + 2 * (a[1]*x[1] + a[2]*x[2] + a[3]*x[3] + a[4]*x[4] + a[5]*x[5] + a[6]*x[6])) * m
        = (m*u + 2 * (b[1]*x[1] + b[2]*x[2] + b[3]*x[3] + b[4]*x[4] + b[5]*x[5] + b[6]*x[6])) * n
  BY <1>2, <1>3, <1>8, Proportional
<1>10. Turned3(p, v, i, j, k) \in Int /\ Turned3(q, v, i, j, k) \in Int
  <2>1. \A l \in 1 .. 6 : a[l] * x[l] \in Int /\ b[l] * x[l] \in Int
    BY <1>3
  <2>2. 1 \in 1 .. 6 /\ 2 \in 1 .. 6 /\ 3 \in 1 .. 6 /\ 4 \in 1 .. 6 /\ 5 \in 1 .. 6 /\ 6 \in 1 .. 6
    OBVIOUS
  <2> QED BY <1>2, <1>6, <1>7, <2>1, <2>2
<1> QED BY <1>6, <1>7, <1>9, <1>10 DEF m, n

\* Hence every vector is rotated to the same place.
LEMMA SameRotated ==
  ASSUME NEW p, NEW q, IsRotationOf(p), IsRotationOf(q), SameRotation(p, q),
         NEW v, \A i \in 1 .. 3 : v[i] \in Int
  PROVE  Rotate(p, v) = Rotate(q, v)
<1>1. p \in [1 .. 4 -> Int] /\ q \in [1 .. 4 -> Int]
  BY DEF IsRotationOf
<1>2. Norm(p) \in Nat \ {0} /\ Norm(q) \in Nat \ {0}
  BY NormPositive
<1>3. 1 \in 1 .. 3 /\ 2 \in 1 .. 3 /\ 3 \in 1 .. 3
  OBVIOUS
<1>4. ASSUME NEW i \in 1 .. 3, NEW j \in 1 .. 3, NEW k \in 1 .. 3
      PROVE  Turned3(p, v, i, j, k) \div Norm(p) = Turned3(q, v, i, j, k) \div Norm(q)
  <2> DEFINE x == Turned3(p, v, i, j, k)  y == Turned3(q, v, i, j, k)
             m == Norm(p)  n == Norm(q)
  <2>1. x \in Int /\ y \in Int /\ x * n = y * m
    BY <1>1, SameTurned
  <2> HIDE DEF x, y, m, n
  <2>2. m \in Nat \ {0} /\ n \in Nat \ {0}
    BY <1>2 DEF m, n
  <2>3. x \div m = y \div n
    BY <2>1, <2>2, SameQuotient
  <2> QED BY <2>3 DEF x, y, m, n
<1>5. /\ Turned3(p, v, 1, 2, 3) \div Norm(p) = Turned3(q, v, 1, 2, 3) \div Norm(q)
      /\ Turned3(p, v, 2, 3, 1) \div Norm(p) = Turned3(q, v, 2, 3, 1) \div Norm(q)
      /\ Turned3(p, v, 3, 1, 2) \div Norm(p) = Turned3(q, v, 3, 1, 2) \div Norm(q)
  BY <1>3, <1>4
<1> QED BY <1>1, <1>5, RotateIs

(***************************************************************************)
(* The same planes, whatever the lengths and signs of their normals, are   *)
(* the same ground.                                                        *)
(***************************************************************************)
OnPlane(plane, v) == plane[1][1] * v[1] + plane[1][2] * v[2] + plane[1][3] * v[3] + plane[2] = 0

\* Turning the normal of a plane round leaves its points.
LEMMA UpwardSamePoints ==
  ASSUME NEW plane, IsPlane(plane), NEW v, v[1] \in Int /\ v[2] \in Int /\ v[3] \in Int
  PROVE  IsPlane(Upward(plane)) /\ (OnPlane(Upward(plane), v) <=> OnPlane(plane, v))
<1>1. CASE ~ (plane[1][3] < 0)
  BY <1>1 DEF Upward
<1>2. CASE plane[1][3] < 0
  <2>1. /\ plane[1] \in [1 .. 3 -> Int] /\ plane[2] \in Int
        /\ plane[1][1] \in Int /\ plane[1][2] \in Int /\ plane[1][3] \in Int
    BY DEF IsPlane
  <2> DEFINE u == Upward(plane)
             a == plane[1][1] b == plane[1][2] c == plane[1][3] d == plane[2]
             x == v[1] y == v[2] z == v[3]
  <2>2. u = <<Minus(plane[1]), -d>>
    BY <1>2 DEF Upward
  <2>3. u[1] = [i \in 1 .. 3 |-> - plane[1][i]] /\ u[2] = -d
    BY <2>2 DEF Minus
  <2>4. u[1][1] = -a /\ u[1][2] = -b /\ u[1][3] = -c
    BY <2>3
  <2>5. IsPlane(u)
    BY <2>1, <2>2 DEF IsPlane, Minus
  <2>6. OnPlane(u, v) <=> (-a)*x + (-b)*y + (-c)*z + (-d) = 0
    BY <2>3, <2>4 DEF OnPlane
  <2>7. OnPlane(plane, v) <=> a*x + b*y + c*z + d = 0
    BY DEF OnPlane
  <2> HIDE DEF u, a, b, c, d, x, y, z
  <2>8. a \in Int /\ b \in Int /\ c \in Int /\ d \in Int /\ x \in Int /\ y \in Int /\ z \in Int
    BY <2>1 DEF a, b, c, d, x, y, z
  <2>9. (-a)*x + (-b)*y + (-c)*z + (-d) = -(a*x + b*y + c*z + d)
    BY <2>8
  <2>10. a*x + b*y + c*z + d \in Int
    BY <2>8
  <2> QED BY <2>5, <2>6, <2>7, <2>9, <2>10 DEF u
<1> QED BY <1>1, <1>2

\* What SamePlane accepts has the same points.
LEMMA SamePlanePoints ==
  ASSUME NEW p, NEW q, IsPlane(p), IsPlane(q), SamePlane(p, q),
         NEW v, v[1] \in Int /\ v[2] \in Int /\ v[3] \in Int
  PROVE  OnPlane(p, v) <=> OnPlane(q, v)
<1> DEFINE P == Upward(p)   Q == Upward(q)
           a == P[1][1] b == P[1][2] c == P[1][3] d == P[2]
           e == Q[1][1] f == Q[1][2] g == Q[1][3] h == Q[2]
           x == v[1] y == v[2] z == v[3]
<1>1. IsPlane(P) /\ IsPlane(Q)
  BY UpwardSamePoints
<1>2. /\ Cross(P[1], Q[1]) = Zero
      /\ a * e + b * f + c * g > 0
      /\ \A i \in 1 .. 3 : P[1][i] * h = Q[1][i] * d
  BY DEF SamePlane
<1>3. OnPlane(P, v) <=> a*x + b*y + c*z + d = 0
  BY DEF OnPlane
<1>4. OnPlane(Q, v) <=> e*x + f*y + g*z + h = 0
  BY DEF OnPlane
<1>5. b * g - c * f = 0 /\ c * e - a * g = 0 /\ a * f - b * e = 0
  BY <1>2 DEF Cross, Zero
<1>6. a * h = e * d /\ b * h = f * d /\ c * h = g * d
  BY <1>2
<1>7. /\ a \in Int /\ b \in Int /\ c \in Int /\ d \in Int
      /\ e \in Int /\ f \in Int /\ g \in Int /\ h \in Int
      /\ x \in Int /\ y \in Int /\ z \in Int
  <2>1. /\ P[1] \in [1 .. 3 -> Int] /\ P[2] \in Int
        /\ Q[1] \in [1 .. 3 -> Int] /\ Q[2] \in Int
    BY <1>1 DEF IsPlane
  <2> HIDE DEF P, Q
  <2> QED BY <2>1
<1> HIDE DEF P, Q, a, b, c, d, e, f, g, h, x, y, z
<1>8. (a # 0 /\ e # 0) \/ (b # 0 /\ f # 0) \/ (c # 0 /\ g # 0)
  <2>1. \A i, j \in Int : i = 0 \/ j = 0 => i * j = 0
    OBVIOUS
  <2>2. a * e # 0 \/ b * f # 0 \/ c * g # 0
    BY <1>2, <1>7
  <2> QED BY <1>7, <2>1, <2>2
<1> DEFINE l == a*x + b*y + c*z + d
           r == e*x + f*y + g*z + h
<1>9. ASSUME NEW s \in Int, NEW t \in Int, s # 0, t # 0,
             s * e = t * a, s * f = t * b, s * g = t * c, s * h = t * d
      PROVE  l = 0 <=> r = 0
  <2>1. l \in Int /\ r \in Int
    BY <1>7
  <2>2. s * r = (s*e)*x + (s*f)*y + (s*g)*z + s*h
    BY <1>7
  <2>3. t * l = (t*a)*x + (t*b)*y + (t*c)*z + t*d
    BY <1>7
  <2>4. s * r = t * l
    BY <1>9, <2>2, <2>3
  <2> HIDE DEF l, r
  <2>5. \A i, j \in Int : i * j = 0 <=> i = 0 \/ j = 0
    OBVIOUS
  <2>6. s * r = 0 <=> r = 0
    BY <1>9, <2>1, <2>5
  <2>7. t * l = 0 <=> l = 0
    BY <1>9, <2>1, <2>5
  <2> QED BY <2>4, <2>6, <2>7
<1> HIDE DEF l, r
<1>10. l = 0 <=> r = 0
  <2>1. CASE a # 0 /\ e # 0
    <3>1. a * e = e * a /\ a * f = e * b /\ a * g = e * c /\ a * h = e * d
      BY <1>5, <1>6, <1>7
    <3> QED BY <1>7, <1>9, <2>1, <3>1
  <2>2. CASE b # 0 /\ f # 0
    <3>1. b * e = f * a /\ b * f = f * b /\ b * g = f * c /\ b * h = f * d
      BY <1>5, <1>6, <1>7
    <3> QED BY <1>7, <1>9, <2>2, <3>1
  <2>3. CASE c # 0 /\ g # 0
    <3>1. c * e = g * a /\ c * f = g * b /\ c * g = g * c /\ c * h = g * d
      BY <1>5, <1>6, <1>7
    <3> QED BY <1>7, <1>9, <2>3, <3>1
  <2> QED BY <1>8, <2>1, <2>2, <2>3
<1>11. OnPlane(P, v) <=> OnPlane(Q, v)
  BY <1>3, <1>4, <1>10 DEF l, r
<1> QED BY <1>11, UpwardSamePoints DEF P, Q

\* And therefore the same ground.
LEMMA SameGround ==
  ASSUME NEW p, NEW q, IsPlane(p), IsPlane(q), SamePlane(p, q)
  PROVE  Ground(p) = Ground(q)
<1> DEFINE Box == (-2 .. 2) \X (-2 .. 2) \X (-2 .. 2)
<1>1. Ground(p) = {v \in Box : OnPlane(p, v)} /\ Ground(q) = {v \in Box : OnPlane(q, v)}
  BY DEF Ground, OnPlane
<1>2. \A v \in Box : v[1] \in Int /\ v[2] \in Int /\ v[3] \in Int
  OBVIOUS
<1> HIDE DEF Box
<1>3. \A v \in Box : OnPlane(p, v) <=> OnPlane(q, v)
  BY <1>2, SamePlanePoints
<1> QED BY <1>1, <1>3

(***************************************************************************)
(* The mounting that the board projected with puts everything where the    *)
(* audited mounting of the robot does.                                     *)
(***************************************************************************)
LEMMA SamePlacement ==
  ASSUME NEW parent, NEW child, NEW mount, NEW q,
         IsRotationOf(q), IsRotationOf(mount.quaternion), SameRotation(q, mount.quaternion)
  PROVE  Placement(Edge(parent, child, mount.translation, q)) = Placement(mount)
<1> DEFINE e == Edge(parent, child, mount.translation, q)
<1>1. e.translation = mount.translation /\ e.quaternion = q
  BY DEF Edge
<1>2. ASSUME NEW i \in 1 .. 3
      PROVE  TransformPoint(e, Axes[i]) = TransformPoint(mount, Axes[i])
  <2>1. \A k \in 1 .. 3 : Axes[i][k] \in Int
    <3>1. Axes \in [1 .. 3 -> [1 .. 3 -> Int]]
      BY DEF Axes
    <3> QED BY <3>1
  <2>2. Rotate(q, Axes[i]) = Rotate(mount.quaternion, Axes[i])
    BY <2>1, SameRotated
  <2> QED BY <1>1, <2>2 DEF TransformPoint
<1> HIDE DEF e
<1>3. [i \in 1 .. 3 |-> TransformPoint(e, Axes[i])] = [i \in 1 .. 3 |-> TransformPoint(mount, Axes[i])]
  BY <1>2
<1> QED BY <1>1, <1>3 DEF Placement, e

\* What PublishBoardIpm lets pass is the frame it checked.
LEMMA OwnGroundStep ==
  ASSUME DeliveryInv, Next
  PROVE  OwnGround'
<1> DEFINE checked == sent'.of.frame
           seen == checked.projection
           mount == setup.installation.mount
<1> SUFFICES ASSUME setup.ipm = "board", setup.plane # None,
                    NEW m \in sent'.messages, m.topic = <<"ipm", "image">>
             PROVE  /\ m = Message(m.topic, Either(checked.id, setup.fallback, ""),
                                   checked.stamp, m.shows)
                    /\ Placement(Edge(seen.parent, seen.child, seen.xyz, seen.quaternion))
                         = Placement(mount)
                    /\ Ground(seen.plane) = Ground(setup.plane)
  BY SetupStays DEF OwnGround, Published
<1>1. PublishBev
  <2>1. m.topic[1] = "ipm"
    OBVIOUS
  <2>2. m.topic # <<"disparity">>
    BY <2>1
  <2>3. ~ \E leaf : OnTile(m, setup.calibration, leaf)
    BY <2>1, Directions4 DEF OnTile
  <2> QED BY <2>1, <2>2, <2>3, HeadsStep
<1>2. /\ sent'.of = bev.of /\ bev.of \in BevDeliveries
      /\ m \in MakeBoardDisplayImageMessage(bev.of, setup.fallback)
      /\ BoardIpmDecodedFrameMatches(bev.of)
      /\ CheckBoardRobotIpm(bev.of.frame, bev.tf, setup.plane)
      /\ bev.tf = setup.installation /\ setup.installation # None
  BY <1>1 DEF PublishBev, Sends, DeliveryInv, BevInv
<1> DEFINE image == DisplayImage(bev.of)
<1>3. /\ m = Message(<<"ipm", "image">>, Either(image.id, setup.fallback, ""),
                     image.stamp, image.shows)
      /\ image.stamp = checked.stamp /\ image.id = checked.id
  BY <1>2, BevMessages DEF BoardIpmDecodedFrameMatches
<1>4. m = Message(m.topic, Either(checked.id, setup.fallback, ""), checked.stamp, m.shows)
  <2> HIDE DEF image, checked
  <2>1. m.shows = image.shows
    BY <1>3 DEF Message
  <2> QED BY <1>3, <2>1
<1>5. /\ seen # None /\ seen.xyz = mount.translation
      /\ SameRotation(seen.quaternion, mount.quaternion)
      /\ SamePlane(seen.plane, setup.plane)
  BY <1>2 DEF CheckBoardRobotIpm, SameMounting
<1>6. IsRotationOf(seen.quaternion) /\ IsPlane(seen.plane)
  BY <1>2, <1>5, BevAssumption
<1>7. IsRotationOf(mount.quaternion) /\ IsPlane(setup.plane)
  BY <1>2, SetupAssumption DEF DeliveryInv
<1> HIDE DEF seen, mount, checked
<1>8. Placement(Edge(seen.parent, seen.child, seen.xyz, seen.quaternion)) = Placement(mount)
  BY <1>5, <1>6, <1>7, SamePlacement
<1>9. Ground(seen.plane) = Ground(setup.plane)
  BY <1>5, <1>6, <1>7, SameGround
<1> QED BY <1>4, <1>8, <1>9

(***************************************************************************)
(* Images are published as what they are, and a board IPM in robot mode    *)
(* only as the frame that was checked, for every configuration and every   *)
(* delivery: a camera's picture under that camera's topic, complete        *)
(* entries of a bundle although others are broken, views, tiles, and the   *)
(* ground of the installation.  A camera's picture may also be that of an  *)
(* entry or image without a camera ID in the place of that name, and       *)
(* nothing else that is not its own (PassesFor).                           *)
(***************************************************************************)
THEOREM PublishedAsItIs == Spec => []ShownAsItIs
<1>1. Init => ShownAsItIs
  <2> SUFFICES ASSUME Init
               PROVE  ShownAsItIs
    OBVIOUS
  <2>1. sent.messages = {} /\ sent.of = None /\ None \notin RawDeliveries
    BY RawAssumption DEF Init
  <2> QED BY <2>1 DEF ShownAsItIs, OwnCamera, Unharmed, OwnView, OwnTile, OwnGround, Published
<1>2. ShownAsItIs /\ DeliveryInv /\ [Next]_vars => ShownAsItIs'
  <2>1. ASSUME ShownAsItIs, UNCHANGED vars
        PROVE  ShownAsItIs'
    <3>1. UNCHANGED <<sent, setup>>
      BY <2>1 DEF vars
    <3>2. OwnCamera' /\ OwnView'
      BY <2>1, <3>1 DEF ShownAsItIs, OwnCamera, OwnView, OwnPicture, Published
    <3>3. Unharmed'
      BY <2>1, <3>1 DEF ShownAsItIs, Unharmed, Published
    <3>4. OwnTile' /\ OwnGround'
      BY <2>1, <3>1 DEF ShownAsItIs, OwnTile, OwnGround, Published
    <3> QED BY <3>2, <3>3, <3>4 DEF ShownAsItIs
  <2>2. ASSUME DeliveryInv, Next
        PROVE  ShownAsItIs'
    BY <2>2, OwnCameraStep, UnharmedStep, OwnViewStep, OwnTileStep, OwnGroundStep
       DEF ShownAsItIs
  <2> QED BY <2>1, <2>2
<1> QED BY <1>1, <1>2, DeliveryInvInit, DeliveryInvStep, PTL DEF Spec
=============================================================================
