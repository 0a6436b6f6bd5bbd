------------------------- MODULE DepthWorkerProofs --------------------------
(***************************************************************************)
(* What the slot and the panorama depth cache guarantee for every size of  *)
(* the cache and any number of frames and connections.                     *)
(***************************************************************************)
EXTENDS DepthWorker, FiniteSetTheorems, SequenceTheorems, TLAPS

Places == {"none", "look", "wait", "derive", "publish", "returned"}

WorkerTypeOK ==
  /\ slot \in Nat /\ frame \in Nat /\ offered \in Nat
  /\ pc \in Places

(***************************************************************************)
(* The slot holds a frame that was offered; a stopped slot is empty; Start *)
(* spawns a worker only when there is none.                                *)
(***************************************************************************)
SlotInv ==
  /\ pending => slot <= offered
  /\ stop => ~pending
  /\ main \in {"closed", "joining"} => stop
  /\ main \in {"stopped", "opening"} => pc = "none"

WorkerInv == WorkerTypeOK /\ SlotInv

(***************************************************************************)
(* A node that was never started has an empty slot and no worker.          *)
(***************************************************************************)
LEMMA WorkerInvInit == Init => WorkerInv
BY DEF Init, WorkerInv, WorkerTypeOK, SlotInv, Places

(***************************************************************************)
(* Every critical section of the slot, of the worker and of Start and Stop *)
(* keeps the order of the frames.                                          *)
(***************************************************************************)
LEMMA WorkerInvStep == WorkerInv /\ [Next]_vars => WorkerInv'
<1> SUFFICES ASSUME WorkerInv, [Next]_vars
             PROVE  WorkerInv'
  OBVIOUS
<1> USE DEF WorkerInv, WorkerTypeOK, SlotInv, Places
<1>1. CASE Enqueue
  BY <1>1 DEF Enqueue, Replaced
<1>2. CASE NotifyOne
  BY <1>2 DEF NotifyOne
<1>3. CASE Sleep \/ WakeSpuriously \/ Take \/ Derive \/ Publish \/ Return
  BY <1>3 DEF Sleep, WakeSpuriously, Take, Derive, Publish, Return, Goes
<1>4. CASE BeginStart \/ BeginStop
  BY <1>4 DEF BeginStart, BeginStop
<1>5. CASE Close \/ NotifyAll
  BY <1>5 DEF Close, NotifyAll
<1>6. CASE Joined \/ Open
  BY <1>6 DEF Joined, Open
<1>7. CASE UNCHANGED vars
  BY <1>7 DEF vars
<1> QED BY <1>1, <1>2, <1>3, <1>4, <1>5, <1>6, <1>7 DEF Next, Work

-----------------------------------------------------------------------------
(***************************************************************************)
(* The instance counts as FiniteSets does.                                 *)
(***************************************************************************)
LEMMA SameCount == \A S : Promise!Cardinality(S) = Cardinality(S)
BY Zenon DEF Promise!Cardinality, Cardinality

(***************************************************************************)
(* Keeping the newest one of a waiting frame and a later one drops the     *)
(* waiting one; alone, the later one stays.                                *)
(***************************************************************************)
LEMMA NewestOfTwo ==
  ASSUME NEW m \in Nat, NEW n \in Nat, m < n
  PROVE  Promise!Newest({m} \cup {n}) = {n} /\ Promise!Newest({} \cup {n}) = {n}
<1>1. Cardinality({}) = 0 /\ IsFiniteSet({})
  BY FS_EmptySet
<1>2. Cardinality({} \cup {n}) = 1 /\ IsFiniteSet({} \cup {n})
  BY <1>1, FS_AddElement
<1>3. {} \cup {n} = {n}
  OBVIOUS
<1>4. m \notin {n}
  OBVIOUS
<1>5. Cardinality({n} \cup {m}) = 2
  BY <1>2, <1>3, <1>4, FS_AddElement
<1>6. {m} \cup {n} = {n} \cup {m}
  OBVIOUS
<1>7. Promise!Oldest({m} \cup {n}) = m
  <2>1. \A k \in {m} \cup {n} : m <= k
    OBVIOUS
  <2>2. \A k \in {m} \cup {n} : (\A l \in {m} \cup {n} : k <= l) => k = m
    OBVIOUS
  <2> QED BY <2>1, <2>2 DEF Promise!Oldest
<1>8. ({m} \cup {n}) \ {m} = {n}
  BY <1>4
<1> QED BY <1>2, <1>3, <1>5, <1>6, <1>7, <1>8, SameCount DEF Promise!Newest

(***************************************************************************)
(* Every step is a step of DropOldest with a depth of one, or changes      *)
(* nothing it speaks of.                                                   *)
(***************************************************************************)
LEMMA RefinesStep == WorkerInv /\ [Next]_vars => [Promise!Next]_(Promise!vars)
<1> SUFFICES ASSUME WorkerInv, [Next]_vars
             PROVE  [Promise!Next]_(Promise!vars)
  OBVIOUS
<1> USE DEF WorkerInv
<1>1. CASE Enqueue
  <2>1. CASE stop
    <3>1. Promise!Offer
      BY <1>1, <2>1 DEF Enqueue, Promise!Offer
    <3> QED BY <3>1 DEF Promise!Next
  <2>2. CASE ~stop
    <3>1. /\ slot' = offered + 1 /\ pending' = TRUE /\ offered' = offered + 1
          /\ UNCHANGED <<stop, pc, frame>>
      BY <1>1, <2>2 DEF Enqueue, Replaced
    <3>2. Promise!Newest((IF pending THEN {slot} ELSE {}) \cup {offered + 1})
            = {offered + 1}
      <4>1. CASE pending
        <5>1. slot \in Nat /\ offered + 1 \in Nat /\ slot < offered + 1
          BY <4>1 DEF WorkerTypeOK, SlotInv
        <5>2. Promise!Newest({slot} \cup {offered + 1}) = {offered + 1}
          BY <5>1, NewestOfTwo
        <5> QED BY <4>1, <5>2
      <4>2. CASE ~pending
        <5>1. offered + 1 \in Nat /\ offered < offered + 1
          BY DEF WorkerTypeOK
        <5> QED BY <4>2, <5>1, NewestOfTwo DEF WorkerTypeOK
      <4> QED BY <4>1, <4>2
    <3>3. Promise!Offer
      BY <2>2, <3>1, <3>2 DEF Promise!Offer
    <3> QED BY <3>3 DEF Promise!Next
  <2> QED BY <2>1, <2>2
<1>2. CASE NotifyOne
  BY <1>2 DEF NotifyOne, Promise!vars
<1>3. CASE Sleep \/ WakeSpuriously \/ Derive \/ Return
  BY <1>3 DEF Sleep, WakeSpuriously, Derive, Return, Goes, Promise!vars
<1>4. CASE Take
  <2>1. Promise!Oldest({slot}) = slot
    BY DEF Promise!Oldest, WorkerTypeOK
  <2>2. Promise!Take
    BY <1>4, <2>1 DEF Take, Goes, Promise!Take
  <2> QED BY <2>2 DEF Promise!Next
<1>5. CASE Publish
  <2>1. Promise!Finish(frame)
    BY <1>5 DEF Publish, Goes, Promise!Finish
  <2>2. frame \in IF pc \in {"derive", "publish"} THEN {frame} ELSE {}
    BY <1>5 DEF Publish
  <2> QED BY <2>1, <2>2 DEF Promise!Next
<1>6. CASE BeginStart \/ BeginStop \/ NotifyAll
  <2>1. /\ UNCHANGED <<offered, stop, pending, slot, frame>>
        /\ pc' \in {"derive", "publish"} <=> pc \in {"derive", "publish"}
    BY <1>6 DEF BeginStart, BeginStop, NotifyAll
  <2> QED BY <2>1 DEF Promise!vars
<1>7. CASE Close \/ Joined \/ Open
  <2>1. (~stop') \in BOOLEAN /\ ~pending' /\ UNCHANGED <<offered, frame>>
    BY <1>7 DEF Close, Joined, Open, SlotInv
  <2>2. pc' \in {"derive", "publish"} <=> pc \in {"derive", "publish"}
    BY <1>7 DEF Close, Joined, Open, SlotInv
  <2>3. Promise!Discard
    BY <2>1, <2>2 DEF Promise!Discard
  <2> QED BY <2>3 DEF Promise!Next
<1>8. CASE UNCHANGED vars
  BY <1>8 DEF vars, Promise!vars
<1> QED BY <1>1, <1>2, <1>3, <1>4, <1>5, <1>6, <1>7, <1>8 DEF Next, Work

(***************************************************************************)
(* The slot implements DropOldest: the worker starts frames in order, none *)
(* twice, and always the latest one.                                       *)
(***************************************************************************)
THEOREM SlotRefines == Spec => Refines
<1>1. Init => Promise!Init
  BY DEF Init, Promise!Init
<1> QED BY <1>1, WorkerInvInit, WorkerInvStep, RefinesStep, PTL
        DEF Spec, Refines, Promise!Spec

-----------------------------------------------------------------------------
(***************************************************************************)
(* CacheIsCurrent is not inductive.  The cache is empty and no worker      *)
(* exists from the clearing in Start until the worker is spawned; from     *)
(* then on the frame in the slot is later than the one being derived, that *)
(* one than every cached one, and all are later than the spawning.         *)
(***************************************************************************)
CacheInv ==
  /\ cache \in Seq(Nat) /\ Len(cache) <= CacheSize
  /\ since \in Nat
  /\ (restart /\ main \in {"clear", "closed", "joining", "opening"})
       => pc = "none" /\ cache = << >>
  /\ main = "opening" => restart
  /\ main = "started" =>
       /\ since <= offered
       /\ pending => slot > since
       /\ pc = "derive" => frame > since /\ frame <= offered
       /\ pc = "derive" /\ pending => frame < slot
       /\ \A i \in 1 .. Len(cache) :
            /\ since < cache[i] /\ cache[i] <= offered
            /\ pending => cache[i] < slot
            /\ pc = "derive" => cache[i] < frame
            /\ \A j \in 1 .. Len(cache) : i < j => cache[i] < cache[j]

(***************************************************************************)
(* What GeneratePanoramaDepth makes of the cache: the old entries in their *)
(* order, without the first if it was full, and the new one at the end.    *)
(***************************************************************************)
LEMMA CachedShape ==
  ASSUME cache \in Seq(Nat), Len(cache) <= CacheSize, NEW n \in Nat
  PROVE  /\ Cached(n) \in Seq(Nat)
         /\ Len(Cached(n)) <= CacheSize
         /\ \E k \in {0, 1} :
              /\ Len(Cached(n)) = Len(cache) - k + 1
              /\ \A i \in 1 .. Len(cache) - k : Cached(n)[i] = cache[i + k]
              /\ Cached(n)[Len(cache) - k + 1] = n
<1> USE DepthWorkerAssumption
<1>1. Len(cache) \in Nat
  BY LenProperties
<1>2. CASE Len(cache) = CacheSize
  <2>1. cache # << >>
    BY <1>2, EmptySeq
  <2>2. /\ Tail(cache) \in Seq(Nat) /\ Len(Tail(cache)) = Len(cache) - 1
        /\ \A i \in 1 .. Len(Tail(cache)) : Tail(cache)[i] = cache[i + 1]
    BY <2>1, HeadTailProperties
  <2>3. Cached(n) = Append(Tail(cache), n)
    BY <1>2 DEF Cached
  <2>4. /\ Cached(n) \in Seq(Nat) /\ Len(Cached(n)) = Len(Tail(cache)) + 1
        /\ \A i \in 1 .. Len(Tail(cache)) : Cached(n)[i] = Tail(cache)[i]
        /\ Cached(n)[Len(Tail(cache)) + 1] = n
    BY <2>2, <2>3, AppendProperties
  <2> QED BY <1>1, <1>2, <2>2, <2>4
<1>3. CASE Len(cache) # CacheSize
  <2>1. Cached(n) = Append(cache, n) /\ Len(cache) + 1 <= CacheSize
    BY <1>1, <1>3 DEF Cached
  <2>2. /\ Cached(n) \in Seq(Nat) /\ Len(Cached(n)) = Len(cache) + 1
        /\ \A i \in 1 .. Len(cache) : Cached(n)[i] = cache[i]
        /\ Cached(n)[Len(cache) + 1] = n
    BY <2>1, AppendProperties
  <2> QED BY <1>1, <2>1, <2>2
<1> QED BY <1>2, <1>3

(***************************************************************************)
(* The cache is empty before the first start.                              *)
(***************************************************************************)
LEMMA CacheInvInit == Init => CacheInv
<1> SUFFICES ASSUME Init PROVE CacheInv
  OBVIOUS
<1>1. cache \in Seq(Nat) /\ Len(cache) = 0
  BY EmptySeq DEF Init
<1> QED BY <1>1, DepthWorkerAssumption DEF Init, CacheInv

(***************************************************************************)
(* No step brings a depth of an earlier connection into the cache: the one *)
(* that could, a derivation that ends after Stop cleared it, ends before   *)
(* Start, which joins the worker, can return.                              *)
(***************************************************************************)
LEMMA CacheInvStep == WorkerInv /\ CacheInv /\ [Next]_vars => CacheInv'
<1> SUFFICES ASSUME WorkerInv, CacheInv, [Next]_vars
             PROVE  CacheInv'
  OBVIOUS
<1> USE DEF CacheInv
<1>0. /\ Len(cache) \in Nat /\ \A i \in 1 .. Len(cache) : cache[i] \in Nat
      /\ slot \in Nat /\ frame \in Nat /\ offered \in Nat /\ since \in Nat
  BY LenProperties DEF WorkerInv, WorkerTypeOK
<1>1. CASE Enqueue
  BY <1>0, <1>1 DEF Enqueue, Replaced
<1>2. CASE NotifyOne
  BY <1>2 DEF NotifyOne
<1>3. CASE Sleep \/ WakeSpuriously \/ Publish \/ Return
  BY <1>3 DEF Sleep, WakeSpuriously, Publish, Return, Goes
<1>4. CASE Take
  BY <1>0, <1>4 DEF Take, Goes, WorkerInv, SlotInv
<1>5. CASE Derive
  <2>1. CASE cache' = cache
    BY <1>5, <2>1 DEF Derive, Goes
  <2>2. CASE cache' = Cached(frame)
    <3>1. /\ cache' \in Seq(Nat) /\ Len(cache') <= CacheSize
          /\ UNCHANGED <<since, main, restart, offered, pending, slot, frame>>
          /\ pc = "derive" /\ pc' = "publish"
      BY <1>0, <1>5, <2>2, CachedShape DEF Derive, Goes
    <3>2. PICK k \in {0, 1} :
            /\ Len(cache') = Len(cache) - k + 1
            /\ \A i \in 1 .. Len(cache) - k : cache'[i] = cache[i + k]
            /\ cache'[Len(cache) - k + 1] = frame
      BY <1>0, <2>2, CachedShape
    <3>3. ASSUME main = "started"
          PROVE  \A i \in 1 .. Len(cache') :
                   /\ since < cache'[i] /\ cache'[i] <= offered
                   /\ pending => cache'[i] < slot
                   /\ \A j \in 1 .. Len(cache') : i < j => cache'[i] < cache'[j]
      <4>1. ASSUME NEW i \in 1 .. Len(cache')
            PROVE  \/ i + k \in 1 .. Len(cache) /\ cache'[i] = cache[i + k]
                   \/ i = Len(cache) - k + 1 /\ cache'[i] = frame
        BY <1>0, <3>2
      <4>2. ASSUME NEW i \in 1 .. Len(cache')
            PROVE  /\ since < cache'[i] /\ cache'[i] <= offered
                   /\ pending => cache'[i] < slot
        BY <3>1, <3>3, <4>1
      <4>3. ASSUME NEW i \in 1 .. Len(cache'), NEW j \in 1 .. Len(cache'), i < j
            PROVE  cache'[i] < cache'[j]
        <5>1. i + k \in 1 .. Len(cache) /\ cache'[i] = cache[i + k]
          BY <1>0, <3>2, <4>1, <4>3
        <5>2. CASE j + k \in 1 .. Len(cache) /\ cache'[j] = cache[j + k]
          <6>1. i + k < j + k
            BY <1>0, <4>3
          <6> QED BY <3>3, <5>1, <5>2, <6>1
        <5>3. CASE cache'[j] = frame
          BY <3>1, <3>3, <5>1, <5>3
        <5> QED BY <4>1, <5>2, <5>3
      <4> QED BY <4>2, <4>3
    <3> QED BY <3>1, <3>3
  <2> QED BY <1>5, <2>1, <2>2 DEF Derive
<1>6. CASE BeginStart
  <2>1. cache' \in Seq(Nat) /\ Len(cache') = 0
    BY <1>6, EmptySeq DEF BeginStart
  <2> QED BY <1>6, <2>1, DepthWorkerAssumption DEF BeginStart, WorkerInv, SlotInv
<1>7. CASE BeginStop
  <2>1. cache' \in Seq(Nat) /\ Len(cache') = 0
    BY <1>7, EmptySeq DEF BeginStop
  <2> QED BY <1>7, <2>1, DepthWorkerAssumption DEF BeginStop
<1>8. CASE Close \/ NotifyAll \/ Joined
  BY <1>8 DEF Close, NotifyAll, Joined
<1>9. CASE Open
  <2>1. cache' = << >> /\ Len(cache') = 0
    BY <1>9, EmptySeq DEF Open
  <2> QED BY <1>0, <1>9, <2>1 DEF Open
<1>10. CASE UNCHANGED vars
  BY <1>10 DEF vars
<1> QED BY <1>1, <1>2, <1>3, <1>4, <1>5, <1>6, <1>7, <1>8, <1>9, <1>10
        DEF Next, Work

(***************************************************************************)
(* The panorama is never stitched with a depth of an earlier connection,   *)
(* and the cache keeps its bound and the order of the frames.              *)
(***************************************************************************)
THEOREM CacheCurrent == Spec => []CacheIsCurrent
<1>1. CacheInv => CacheIsCurrent
  <2> SUFFICES ASSUME CacheInv
               PROVE  CacheIsCurrent
    OBVIOUS
  <2>1. DOMAIN cache = 1 .. Len(cache)
    BY LenProperties DEF CacheInv
  <2> QED BY <2>1 DEF CacheInv, CacheIsCurrent
<1> QED BY <1>1, WorkerInvInit, WorkerInvStep, CacheInvInit, CacheInvStep, PTL DEF Spec

-----------------------------------------------------------------------------
(***************************************************************************)
(* The worker exists while the bridge runs and does not sleep while it is  *)
(* being joined; a frame finds it asleep only if the callback is about to  *)
(* notify it.                                                              *)
(***************************************************************************)
AwakeInv ==
  /\ main = "started" => ~stop /\ pc \in {"look", "wait", "derive", "publish"}
  /\ main = "joining" => pc # "wait"
  /\ main = "started" /\ pending => notifying \/ pc # "wait"

(***************************************************************************)
(* What the liveness of the slot rests on, in every reachable state: a     *)
(* frame in the slot has a worker that is not asleep, or a callback that   *)
(* is about to wake it; and a Stop or Start that waits for the worker      *)
(* finds it gone, at work on a frame, or about to return.                  *)
(***************************************************************************)
NeverStuck ==
  /\ main = "started" /\ pending => notifying \/ pc \in {"look", "derive", "publish"}
  /\ main = "joining" =>
       pc \in {"none", "returned", "derive", "publish"} \/ (pc = "look" /\ stop)

(***************************************************************************)
(* Every critical section keeps the worker awake when it is needed.        *)
(***************************************************************************)
LEMMA AwakeInvStep == WorkerInv /\ AwakeInv /\ [Next]_vars => AwakeInv'
<1> SUFFICES ASSUME WorkerInv, AwakeInv, [Next]_vars
             PROVE  AwakeInv'
  OBVIOUS
<1> USE DEF WorkerInv, WorkerTypeOK, SlotInv, Places, AwakeInv
<1>1. CASE Enqueue
  BY <1>1 DEF Enqueue
<1>2. CASE NotifyOne
  BY <1>2 DEF NotifyOne
<1>3. CASE Sleep \/ WakeSpuriously \/ Take \/ Derive \/ Publish \/ Return
  BY <1>3 DEF Sleep, WakeSpuriously, Take, Derive, Publish, Return, Goes
<1>4. CASE BeginStart \/ BeginStop
  BY <1>4 DEF BeginStart, BeginStop
<1>5. CASE Close \/ NotifyAll
  BY <1>5 DEF Close, NotifyAll
<1>6. CASE Joined \/ Open
  BY <1>6 DEF Joined, Open
<1>7. CASE UNCHANGED vars
  BY <1>7 DEF vars
<1> QED BY <1>1, <1>2, <1>3, <1>4, <1>5, <1>6, <1>7 DEF Next, Work

(***************************************************************************)
(* NeverStuck for every size of the cache and every interleaving: no       *)
(* wakeup is lost between the unlock of EnqueueDepthDerivedFrame and its   *)
(* notify_one, and no join waits for a sleeping worker.                    *)
(***************************************************************************)
THEOREM WorkerNeverStuck == Spec => []NeverStuck
<1>1. Init => AwakeInv
  BY DEF Init, AwakeInv
<1>2. WorkerInv /\ AwakeInv => NeverStuck
  BY DEF WorkerInv, WorkerTypeOK, SlotInv, Places, AwakeInv, NeverStuck
<1> QED BY <1>1, <1>2, WorkerInvInit, WorkerInvStep, AwakeInvStep, PTL DEF Spec
=============================================================================
