------------------------- MODULE PublishQueueProofs -------------------------
(***************************************************************************)
(* What the publish queue guarantees for every number of workers and of    *)
(* callback threads, every depth, and any number of tasks and restarts.    *)
(***************************************************************************)
EXTENDS PublishQueue, FiniteSetTheorems, SequenceTheorems, TLAPS

Ascending(q) == \A i, j \in 1 .. Len(q) : i < j => q[i] < q[j]

Busy(w) == pc[w] = "publish"

-----------------------------------------------------------------------------
(***************************************************************************)
(* Sequences that ascend.                                                  *)
(***************************************************************************)
(***************************************************************************)
(* The members of an ascending sequence are as many as it is long.         *)
(***************************************************************************)
LEMMA AscendingCounts ==
  ASSUME NEW q \in Seq(Nat), Ascending(q)
  PROVE  IsFiniteSet(Range(q)) /\ Cardinality(Range(q)) = Len(q)
<1>1. Len(q) \in Nat /\ q \in [1 .. Len(q) -> Nat] /\ DOMAIN q = 1 .. Len(q)
  BY LenProperties
<1>2. \A a, b \in 1 .. Len(q) : q[a] = q[b] => a = b
  <2> SUFFICES ASSUME NEW a \in 1 .. Len(q), NEW b \in 1 .. Len(q),
                      q[a] = q[b], a # b
               PROVE  FALSE
    OBVIOUS
  <2>1. q[a] \in Nat /\ q[b] \in Nat
    BY <1>1
  <2>2. a < b \/ b < a
    BY <1>1
  <2> QED BY <2>1, <2>2 DEF Ascending
<1>3. q \in Bijection(1 .. Len(q), Range(q))
  <2>1. q \in [1 .. Len(q) -> Range(q)]
    BY <1>1 DEF Range
  <2>2. q \in Injection(1 .. Len(q), Range(q))
    BY <1>1, <1>2, <2>1 DEF Injection, IsInjective
  <2>3. q \in Surjection(1 .. Len(q), Range(q))
    BY <1>1, <2>1 DEF Surjection, Range
  <2> QED BY <2>2, <2>3 DEF Bijection
<1>4. IsFiniteSet(1 .. Len(q)) /\ Cardinality(1 .. Len(q)) = Len(q)
  <2>1. 1 \in Int /\ Len(q) \in Int
    BY <1>1
  <2>2. /\ IsFiniteSet(1 .. Len(q))
        /\ Cardinality(1 .. Len(q)) = IF 1 > Len(q) THEN 0 ELSE Len(q) - 1 + 1
    BY <2>1, FS_Interval
  <2> QED BY <2>2, <1>1
<1> QED BY <1>3, <1>4, FS_Bijection DEF ExistsBijection

(***************************************************************************)
(* Its head is the oldest member, and without it the rest still ascends.   *)
(***************************************************************************)
LEMMA AscendingHead ==
  ASSUME NEW q \in Seq(Nat), Ascending(q), q # << >>
  PROVE  /\ Promise!Oldest(Range(q)) = Head(q)
         /\ Range(Tail(q)) = Range(q) \ {Head(q)}
         /\ Head(q) \in Range(q) /\ Head(q) \in Nat
         /\ Tail(q) \in Seq(Nat) /\ Len(Tail(q)) = Len(q) - 1
         /\ \A m \in Range(Tail(q)) : Head(q) < m
         /\ Ascending(Tail(q))
<1>1. /\ Len(q) \in Nat \ {0} /\ DOMAIN q = 1 .. Len(q)
      /\ \A i \in 1 .. Len(q) : q[i] \in Nat
  BY LenProperties, EmptySeq
<1>2. /\ Head(q) = q[1] /\ Tail(q) \in Seq(Nat) /\ Len(Tail(q)) = Len(q) - 1
      /\ \A i \in 1 .. Len(q) - 1 : Tail(q)[i] = q[i + 1]
  BY HeadTailProperties
<1>3. \A i \in 1 .. Len(q) - 1 : q[1] < q[i + 1] /\ i + 1 \in 1 .. Len(q)
  BY <1>1 DEF Ascending
<1>4. Head(q) \in Range(q) /\ Head(q) \in Nat
  BY <1>1, <1>2 DEF Range
<1>5. \A m \in Range(q) : m \in Nat /\ q[1] <= m
  <2> SUFFICES ASSUME NEW i \in 1 .. Len(q)
               PROVE  q[i] \in Nat /\ q[1] <= q[i]
    BY <1>1 DEF Range
  <2>1. CASE i = 1
    BY <2>1, <1>1
  <2>2. CASE i # 1
    BY <2>2, <1>1 DEF Ascending
  <2> QED BY <2>1, <2>2
<1>6. Promise!Oldest(Range(q)) = Head(q)
  <2>1. \A n \in Range(q) : (\A m \in Range(q) : n <= m) => n = Head(q)
    <3> SUFFICES ASSUME NEW n \in Range(q), \A m \in Range(q) : n <= m
                 PROVE  n = Head(q)
      OBVIOUS
    <3>1. n <= q[1] /\ q[1] <= n /\ n \in Nat /\ q[1] \in Nat
      BY <1>2, <1>4, <1>5
    <3> QED BY <3>1, <1>2
  <2>2. \A m \in Range(q) : Head(q) <= m
    BY <1>2, <1>5
  <2> QED BY <1>4, <2>1, <2>2 DEF Promise!Oldest
<1>7. Range(Tail(q)) = Range(q) \ {Head(q)}
  <2>1. DOMAIN Tail(q) = 1 .. Len(q) - 1
    BY <1>2, LenProperties
  <2>2. ASSUME NEW m \in Range(Tail(q))
        PROVE  m \in Range(q) /\ m # Head(q)
    <3>1. PICK i \in 1 .. Len(q) - 1 : m = q[i + 1]
      BY <2>1, <1>2 DEF Range
    <3>2. i + 1 \in 1 .. Len(q) /\ q[1] < q[i + 1] /\ q[i + 1] \in Nat
      BY <1>3, <1>1
    <3> QED BY <3>1, <3>2, <1>1, <1>2 DEF Range
  <2>3. ASSUME NEW m \in Range(q), m # Head(q)
        PROVE  m \in Range(Tail(q))
    <3>1. PICK i \in 1 .. Len(q) : m = q[i]
      BY <1>1 DEF Range
    <3>2. i - 1 \in 1 .. Len(q) - 1 /\ (i - 1) + 1 = i
      BY <3>1, <2>3, <1>1, <1>2
    <3>3. Tail(q)[i - 1] = m
      BY <3>1, <3>2, <1>2
    <3> QED BY <3>2, <3>3, <2>1 DEF Range
  <2> QED BY <2>2, <2>3
<1>8. Ascending(Tail(q))
  <2> SUFFICES ASSUME NEW i \in 1 .. Len(q) - 1, NEW j \in 1 .. Len(q) - 1, i < j
               PROVE  q[i + 1] < q[j + 1]
    BY <1>2 DEF Ascending
  <2>1. i + 1 \in 1 .. Len(q) /\ j + 1 \in 1 .. Len(q) /\ i + 1 < j + 1
    BY <1>1
  <2> QED BY <2>1 DEF Ascending
<1>9. \A m \in Range(Tail(q)) : Head(q) < m
  BY <1>2, <1>4, <1>5, <1>7
<1> QED BY <1>2, <1>4, <1>6, <1>7, <1>8, <1>9

(***************************************************************************)
(* A greater number at the end keeps it ascending.                         *)
(***************************************************************************)
LEMMA AscendingAppend ==
  ASSUME NEW q \in Seq(Nat), Ascending(q), NEW n \in Nat,
         \A m \in Range(q) : m < n
  PROVE  /\ Append(q, n) \in Seq(Nat) /\ Len(Append(q, n)) = Len(q) + 1
         /\ Range(Append(q, n)) = Range(q) \cup {n}
         /\ n \notin Range(q)
         /\ Ascending(Append(q, n))
<1>1. /\ Len(q) \in Nat /\ DOMAIN q = 1 .. Len(q)
      /\ \A i \in 1 .. Len(q) : q[i] \in Nat /\ q[i] < n
  BY LenProperties DEF Range
<1> DEFINE r == Append(q, n)
<1>2. /\ r \in Seq(Nat) /\ Len(r) = Len(q) + 1
      /\ \A i \in 1 .. Len(q) : r[i] = q[i]
      /\ r[Len(q) + 1] = n
  BY AppendProperties
<1>3. DOMAIN r = 1 .. Len(q) + 1
  BY <1>2, LenProperties
<1>4. \A i \in 1 .. Len(q) + 1 : i \in 1 .. Len(q) \/ i = Len(q) + 1
  BY <1>1
<1>5. 1 .. Len(q) + 1 = (1 .. Len(q)) \cup {Len(q) + 1}
  BY <1>1
<1> HIDE DEF r
<1>6. Range(r) = Range(q) \cup {n}
  BY <1>1, <1>2, <1>3, <1>5 DEF Range
<1>7. n \notin Range(q)
  BY <1>1 DEF Range
<1>8. Ascending(r)
  <2> SUFFICES ASSUME NEW i \in 1 .. Len(q) + 1, NEW j \in 1 .. Len(q) + 1, i < j
               PROVE  r[i] < r[j]
    BY <1>2 DEF Ascending
  <2>1. i \in 1 .. Len(q)
    BY <1>1
  <2>2. CASE j \in 1 .. Len(q)
    BY <2>1, <2>2, <1>2 DEF Ascending
  <2>3. CASE j = Len(q) + 1
    BY <2>1, <2>3, <1>1, <1>2
  <2> QED BY <2>2, <2>3, <1>4
<1> QED BY <1>2, <1>6, <1>7, <1>8 DEF r

-----------------------------------------------------------------------------
(***************************************************************************)
(* Type correctness of what the other invariants need, with the bound on   *)
(* the queue.                                                              *)
(***************************************************************************)
QueueTypeOK ==
  /\ queue \in Seq(Nat) /\ Len(queue) <= Depth
  /\ stop \in BOOLEAN /\ offered \in Nat
  /\ pc \in [Workers -> Places] /\ task \in [Workers -> Nat]

(***************************************************************************)
(* What waits ascends and is younger than what any worker publishes, and   *)
(* no two workers publish the same task.                                   *)
(***************************************************************************)
OrderInv ==
  /\ Ascending(queue)
  /\ \A m \in Range(queue) : m <= offered
  /\ \A w \in Workers : Busy(w) => task[w] <= offered
  /\ \A w \in Workers : Busy(w) => \A m \in Range(queue) : task[w] < m
  /\ \A v, w \in Workers : Busy(v) /\ Busy(w) /\ task[v] = task[w] => v = w

(***************************************************************************)
(* A stopped queue is empty, and no thread exists when new ones are        *)
(* spawned.                                                                *)
(***************************************************************************)
StopInv ==
  /\ stop => queue = << >>
  /\ main \in {"closed", "joining"} => stop
  /\ main = "opening" => \A w \in Workers : pc[w] = "none"

QueueInv == QueueTypeOK /\ OrderInv /\ StopInv

(***************************************************************************)
(* The instance counts as this module does.                                *)
(***************************************************************************)
LEMMA SameCount == \A S : Promise!Cardinality(S) = Cardinality(S)
BY Zenon DEF Promise!Cardinality, Cardinality

(***************************************************************************)
(* EnqueuePublishTask keeps the newest tasks, in their order.              *)
(***************************************************************************)
LEMMA AdmitKeepsNewest ==
  ASSUME QueueTypeOK, OrderInv
  PROVE  /\ Admit(offered + 1) \in Seq(Nat)
         /\ Len(Admit(offered + 1)) = IF Full THEN Len(queue) ELSE Len(queue) + 1
         /\ Len(Admit(offered + 1)) <= Depth
         /\ Ascending(Admit(offered + 1))
         /\ Range(Admit(offered + 1)) \subseteq Range(queue) \cup {offered + 1}
         /\ Range(Admit(offered + 1)) = Promise!Newest(Range(queue) \cup {offered + 1})
<1> DEFINE n == offered + 1
           longer == Append(queue, n)
<1>1. n \in Nat /\ Len(queue) \in Nat /\ Depth \in Nat \ {0} /\ Len(queue) <= Depth
  BY QueueAssumption, LenProperties DEF QueueTypeOK
<1>2. \A m \in Range(queue) : m < n
  <2>1. \A m \in Range(queue) : m \in Nat
    BY LenProperties DEF QueueTypeOK, Range
  <2> QED BY <2>1 DEF OrderInv, QueueTypeOK
<1>3. queue \in Seq(Nat) /\ Ascending(queue)
  BY DEF QueueTypeOK, OrderInv
<1> HIDE DEF n
<1>4. /\ longer \in Seq(Nat) /\ Len(longer) = Len(queue) + 1
      /\ Range(longer) = Range(queue) \cup {n}
      /\ Ascending(longer)
  BY <1>1, <1>2, <1>3, AscendingAppend
<1>5. IsFiniteSet(Range(longer)) /\ Cardinality(Range(longer)) = Len(queue) + 1
  BY <1>4, AscendingCounts
<1>6. CASE Full
  <2>1. queue # << >> /\ longer # << >>
    BY <1>1, <1>4, <1>6, EmptySeq DEF Full
  <2>2. Admit(n) = Tail(longer)
    BY <1>1, <1>3, <1>6, <2>1, HeadTailAppend DEF Admit
  <2>3. /\ Promise!Oldest(Range(longer)) = Head(longer)
        /\ Range(Tail(longer)) = Range(longer) \ {Head(longer)}
        /\ Tail(longer) \in Seq(Nat) /\ Len(Tail(longer)) = Len(longer) - 1
        /\ Ascending(Tail(longer))
    BY <1>4, <2>1, AscendingHead
  <2>4. Range(Tail(longer)) = Promise!Newest(Range(longer))
    BY <1>1, <1>5, <1>6, <2>3, SameCount DEF Promise!Newest, Full
  <2>5. Len(Admit(n)) = Len(queue) /\ Range(Admit(n)) \subseteq Range(queue) \cup {n}
    BY <1>1, <1>4, <2>2, <2>3
  <2> QED BY <1>1, <1>4, <1>6, <2>2, <2>3, <2>4, <2>5 DEF n
<1>7. CASE ~Full
  <2>1. Admit(n) = longer
    BY <1>7 DEF Admit
  <2>2. Len(queue) < Depth
    BY <1>1, <1>7 DEF Full
  <2>3. Range(longer) = Promise!Newest(Range(longer))
    BY <1>1, <1>5, <2>2, SameCount DEF Promise!Newest
  <2>4. Len(queue) + 1 <= Depth
    BY <1>1, <2>2
  <2> QED BY <1>4, <1>7, <2>1, <2>3, <2>4 DEF n
<1> QED BY <1>6, <1>7

-----------------------------------------------------------------------------
(***************************************************************************)
(* A step that leaves the queue, the tasks and the publishing workers      *)
(* alone keeps the order.                                                  *)
(***************************************************************************)
LEMMA OrderFrame ==
  ASSUME QueueTypeOK, OrderInv,
         UNCHANGED queue, UNCHANGED task,
         offered' \in Nat, offered <= offered',
         \A w \in Workers : Busy(w)' => Busy(w)
  PROVE  OrderInv'
<1>1. \A m \in Range(queue) : m \in Nat
  BY LenProperties DEF QueueTypeOK, Range
<1>2. Ascending(queue)' /\ Range(queue)' = Range(queue)
  BY DEF OrderInv, Ascending
<1>3. \A m \in Range(queue) : m <= offered'
  BY <1>1 DEF OrderInv, QueueTypeOK
<1>4. \A w \in Workers : Busy(w) => task[w] <= offered'
  BY DEF OrderInv, QueueTypeOK
<1> QED BY <1>2, <1>3, <1>4 DEF OrderInv

(***************************************************************************)
(* A step that empties the queue and starts nothing keeps the order.       *)
(***************************************************************************)
LEMMA OrderCleared ==
  ASSUME QueueTypeOK, OrderInv,
         queue' = << >>, UNCHANGED <<task, offered>>,
         \A w \in Workers : Busy(w)' => Busy(w)
  PROVE  OrderInv'
<1>1. Range(queue') = {}
  BY DEF Range
<1>2. Ascending(queue')
  BY DEF Ascending
<1> QED BY <1>1, <1>2 DEF OrderInv, Ascending, Range

(***************************************************************************)
(* QueueInv is inductive.                                                  *)
(***************************************************************************)
LEMMA QueueInvInit == Init => QueueInv
<1> SUFFICES ASSUME Init PROVE QueueInv
  OBVIOUS
<1>1. queue \in Seq(Nat) /\ Len(queue) = 0 /\ Range(queue) = {}
  BY EmptySeq DEF Init, Range
<1>2. QueueTypeOK
  <2>1. Len(queue) <= Depth
    BY <1>1, QueueAssumption
  <2>2. pc \in [Workers -> Places] /\ task \in [Workers -> Nat]
    BY DEF Init, Places
  <2> QED BY <1>1, <2>1, <2>2 DEF Init, QueueTypeOK
<1>3. OrderInv
  <2>1. \A w \in Workers : ~Busy(w)
    BY DEF Init, Busy
  <2> QED BY <1>1, <2>1 DEF OrderInv, Ascending
<1> QED BY <1>2, <1>3 DEF Init, QueueInv, StopInv

(***************************************************************************)
(* Every critical section of a callback, of a worker and of Start and Stop *)
(* keeps the queue ordered and its tasks apart.                            *)
(***************************************************************************)
LEMMA QueueInvStep == QueueInv /\ [Next]_vars => QueueInv'
<1> SUFFICES ASSUME QueueInv, [Next]_vars
             PROVE  QueueInv'
  OBVIOUS
<1> USE DEF QueueInv
<1>0. /\ Len(queue) \in Nat /\ Depth \in Nat \ {0}
      /\ \A m \in Range(queue) : m \in Nat
  BY QueueAssumption, LenProperties DEF QueueTypeOK, Range
<1>1. CASE Refuse
  <2>1. OrderInv'
    BY <1>1, OrderFrame DEF Refuse, QueueTypeOK, Busy
  <2> QED BY <1>1, <2>1 DEF Refuse, QueueTypeOK, StopInv
<1>2. ASSUME NEW p \in Producers, Enqueue(p)
      PROVE  QueueInv'
  <2>1. /\ queue' \in Seq(Nat) /\ Len(queue') <= Depth /\ Ascending(queue')
        /\ Range(queue') \subseteq Range(queue) \cup {offered + 1}
    BY <1>2, AdmitKeepsNewest DEF Enqueue
  <2>2. QueueTypeOK'
    BY <1>2, <2>1 DEF Enqueue, QueueTypeOK
  <2>3. \A m \in Range(queue') : m <= offered'
    BY <1>0, <1>2, <2>1 DEF Enqueue, OrderInv, QueueTypeOK
  <2>4. \A w \in Workers : Busy(w) => task[w] <= offered'
    BY <1>2 DEF Enqueue, OrderInv, QueueTypeOK
  <2>5. \A w \in Workers : Busy(w) => \A m \in Range(queue') : task[w] < m
    BY <1>2, <2>1 DEF Enqueue, OrderInv, QueueTypeOK
  <2>6. OrderInv'
    BY <1>2, <2>1, <2>3, <2>4, <2>5 DEF Enqueue, OrderInv, Busy, Ascending, Range
  <2>7. StopInv'
    BY <1>2 DEF Enqueue, StopInv
  <2> QED BY <2>2, <2>6, <2>7
<1>3. ASSUME NEW p \in Producers, NotifyOne(p)
      PROVE  QueueInv'
  <2>1. pc' \in [Workers -> Places] /\ \A w \in Workers : Busy(w)' => Busy(w)
    BY <1>3 DEF NotifyOne, QueueTypeOK, Busy, Waiting, Places
  <2>2. OrderInv'
    BY <1>3, <2>1, OrderFrame DEF NotifyOne, QueueTypeOK
  <2>3. \A w \in Workers : pc[w] = "none" => pc'[w] = "none"
    BY <1>3 DEF NotifyOne, QueueTypeOK, Waiting
  <2> QED BY <1>3, <2>1, <2>2, <2>3 DEF NotifyOne, QueueTypeOK, StopInv
<1>4. ASSUME NEW w \in Workers, Sleep(w) \/ WakeSpuriously(w) \/ Return(w)
      PROVE  QueueInv'
  <2>1. pc' \in [Workers -> Places] /\ \A v \in Workers : Busy(v)' => Busy(v)
    BY <1>4 DEF Sleep, WakeSpuriously, Return, Goes, QueueTypeOK, Busy, Places
  <2>2. OrderInv'
    BY <1>4, <2>1, OrderFrame DEF Sleep, WakeSpuriously, Return, Goes, QueueTypeOK
  <2>3. \A v \in Workers : pc[v] = "none" => pc'[v] = "none"
    BY <1>4 DEF Sleep, WakeSpuriously, Return, Goes, QueueTypeOK
  <2> QED BY <1>4, <2>1, <2>2, <2>3
          DEF Sleep, WakeSpuriously, Return, Goes, QueueTypeOK, StopInv
<1>5. ASSUME NEW w \in Workers, Take(w)
      PROVE  QueueInv'
  <2>1. /\ Head(queue) \in Range(queue) /\ Head(queue) \in Nat
        /\ Range(queue') = Range(queue) \ {Head(queue)}
        /\ queue' \in Seq(Nat) /\ Len(queue') = Len(queue) - 1
        /\ \A m \in Range(queue') : Head(queue) < m
        /\ Ascending(queue')
    BY <1>5, AscendingHead DEF Take, QueueTypeOK, OrderInv
  <2>2. /\ task' = [task EXCEPT ![w] = Head(queue)]
        /\ pc' = [pc EXCEPT ![w] = "publish"]
        /\ pc[w] = "look" /\ queue # << >>
        /\ UNCHANGED <<stop, main, offered>>
    BY <1>5 DEF Take, Goes
  <2>3. QueueTypeOK'
    BY <1>0, <2>1, <2>2 DEF QueueTypeOK, Places
  <2>4. \A v \in Workers : v # w => task'[v] = task[v] /\ (Busy(v)' <=> Busy(v))
    BY <2>2 DEF QueueTypeOK, Busy
  <2>5. task'[w] = Head(queue)
    BY <2>2 DEF QueueTypeOK
  <2>6. \A v \in Workers : v # w /\ Busy(v) => task[v] < Head(queue)
    BY <2>1 DEF OrderInv
  <2>7. \A v \in Workers : Busy(v)' => task'[v] <= offered'
    BY <2>1, <2>2, <2>4, <2>5 DEF OrderInv
  <2>8. \A v \in Workers : Busy(v)' => \A m \in Range(queue') : task'[v] < m
    BY <2>1, <2>4, <2>5 DEF OrderInv
  <2>9. \A u, v \in Workers : Busy(u)' /\ Busy(v)' /\ task'[u] = task'[v] => u = v
    <3>1. \A v \in Workers : task[v] \in Nat
      BY DEF QueueTypeOK
    <3> QED BY <2>1, <2>4, <2>5, <2>6, <3>1 DEF OrderInv
  <2>10. \A m \in Range(queue') : m <= offered'
    BY <2>1, <2>2 DEF OrderInv
  <2>11. OrderInv'
    BY <2>1, <2>7, <2>8, <2>9, <2>10 DEF OrderInv, Ascending, Range
  <2>12. StopInv'
    BY <2>2 DEF StopInv
  <2> QED BY <2>3, <2>11, <2>12
<1>6. ASSUME NEW w \in Workers, Publish(w)
      PROVE  QueueInv'
  <2>1. pc' \in [Workers -> Places] /\ \A v \in Workers : Busy(v)' => Busy(v)
    BY <1>6 DEF Publish, Goes, QueueTypeOK, Busy, Places
  <2>2. OrderInv'
    BY <1>6, <2>1, OrderFrame DEF Publish, Goes, QueueTypeOK
  <2>3. \A v \in Workers : pc[v] = "none" => pc'[v] = "none"
    BY <1>6 DEF Publish, Goes, QueueTypeOK
  <2> QED BY <1>6, <2>1, <2>2, <2>3 DEF Publish, Goes, QueueTypeOK, StopInv
<1>7. CASE Close
  <2>1. OrderInv'
    BY <1>7, OrderCleared DEF Close, Busy
  <2> QED BY <1>0, <1>7, <2>1, EmptySeq DEF Close, QueueTypeOK, StopInv
<1>8. CASE NotifyAll
  <2>1. pc' \in [Workers -> Places] /\ \A w \in Workers : Busy(w)' => Busy(w)
    BY <1>8 DEF NotifyAll, QueueTypeOK, Busy, Places, Waiting
  <2>2. OrderInv'
    BY <1>8, <2>1, OrderFrame DEF NotifyAll, QueueTypeOK
  <2> QED BY <1>8, <2>1, <2>2 DEF NotifyAll, QueueTypeOK, StopInv
<1>9. CASE Joined
  <2>1. pc' \in [Workers -> Places] /\ \A w \in Workers : ~Busy(w)'
    BY <1>9 DEF Joined, QueueTypeOK, Busy, Places
  <2>2. OrderInv'
    BY <1>9, <2>1, OrderFrame DEF Joined, QueueTypeOK
  <2> QED BY <1>9, <2>1, <2>2 DEF Joined, QueueTypeOK, StopInv
<1>10. CASE Open
  <2>1. pc' \in [Workers -> Places] /\ \A w \in Workers : ~Busy(w)'
    BY <1>10 DEF Open, QueueTypeOK, Busy, Places
  <2>2. OrderInv'
    BY <1>10, <2>1, OrderCleared DEF Open
  <2>3. queue' \in Seq(Nat) /\ Len(queue') <= Depth
    BY <1>0, <1>10, EmptySeq DEF Open
  <2> QED BY <1>10, <2>1, <2>2, <2>3 DEF Open, QueueTypeOK, StopInv
<1>11. CASE UNCHANGED vars
  <2>1. OrderInv'
    BY <1>11, OrderFrame DEF vars, QueueTypeOK, Busy
  <2> QED BY <1>11, <2>1 DEF vars, QueueTypeOK, StopInv
<1> QED BY <1>1, <1>2, <1>3, <1>4, <1>5, <1>6, <1>7, <1>8, <1>9, <1>10, <1>11
        DEF Next, Work

(***************************************************************************)
(* The queue is never longer than max_publish_queue_depth, its tasks wait  *)
(* in the order of the callbacks, and no task is in two hands.             *)
(***************************************************************************)
THEOREM QueueOrdered == Spec => []QueueInv
BY QueueInvInit, QueueInvStep, PTL DEF Spec

-----------------------------------------------------------------------------
(***************************************************************************)
(* How the set of tasks the workers publish changes.                       *)
(***************************************************************************)
LEMMA PublishingFrame ==
  ASSUME UNCHANGED task, \A w \in Workers : Busy(w)' <=> Busy(w)
  PROVE  UNCHANGED Publishing
BY DEF Publishing, Busy

(***************************************************************************)
(* A worker that takes a task takes the oldest one, which nobody publishes *)
(* yet.                                                                    *)
(***************************************************************************)
LEMMA TakeMoves ==
  ASSUME QueueInv, NEW w \in Workers, Take(w)
  PROVE  /\ Publishing' = Publishing \cup {Head(queue)}
         /\ Head(queue) \notin Publishing
<1>1. /\ task' = [task EXCEPT ![w] = Head(queue)]
      /\ pc' = [pc EXCEPT ![w] = "publish"]
      /\ pc[w] = "look" /\ queue # << >>
  BY DEF Take, Goes
<1>2. \A v \in Workers : v # w => task'[v] = task[v] /\ pc'[v] = pc[v]
  BY <1>1 DEF QueueInv, QueueTypeOK
<1>3. task'[w] = Head(queue) /\ pc'[w] = "publish" /\ pc[w] # "publish"
  BY <1>1 DEF QueueInv, QueueTypeOK
<1>4. Publishing' = Publishing \cup {Head(queue)}
  BY <1>2, <1>3 DEF Publishing
<1>5. Head(queue) \in Range(queue) /\ Head(queue) \in Nat
  BY <1>1, AscendingHead DEF QueueInv, QueueTypeOK, OrderInv
<1>6. Head(queue) \notin Publishing
  BY <1>5 DEF Publishing, QueueInv, QueueTypeOK, OrderInv, Busy
<1> QED BY <1>4, <1>6

(***************************************************************************)
(* A worker that has published hands back its own task and no other.       *)
(***************************************************************************)
LEMMA PublishMoves ==
  ASSUME QueueInv, NEW w \in Workers, Publish(w)
  PROVE  Publishing' = Publishing \ {task[w]} /\ task[w] \in Publishing
<1>1. /\ pc' = [pc EXCEPT ![w] = "look"]
      /\ pc[w] = "publish" /\ UNCHANGED task
  BY DEF Publish, Goes
<1>2. \A v \in Workers : v # w => pc'[v] = pc[v]
  BY <1>1 DEF QueueInv, QueueTypeOK
<1>3. pc'[w] # "publish"
  BY <1>1 DEF QueueInv, QueueTypeOK
<1>4. \A v \in Workers : v # w /\ pc[v] = "publish" => task[v] # task[w]
  BY <1>1 DEF QueueInv, OrderInv, Busy
<1>5. Publishing' = Publishing \ {task[w]}
  BY <1>1, <1>2, <1>3, <1>4 DEF Publishing
<1> QED BY <1>1, <1>5 DEF Publishing

(***************************************************************************)
(* The empty queue is an initial state of DropOldest.                      *)
(***************************************************************************)
LEMMA RefinesInit == Init => Promise!Init
<1> SUFFICES ASSUME Init PROVE Promise!Init
  OBVIOUS
<1>1. Range(queue) = {}
  BY DEF Init, Range
<1>2. Publishing = {}
  BY DEF Init, Publishing
<1>3. (~stop) = TRUE
  BY DEF Init
<1> QED BY <1>1, <1>2, <1>3 DEF Init, Promise!Init

(***************************************************************************)
(* Every step is a step of DropOldest, or changes nothing it speaks of.    *)
(***************************************************************************)
LEMMA RefinesStep == QueueInv /\ [Next]_vars => [Promise!Next]_(Promise!vars)
<1> SUFFICES ASSUME QueueInv, [Next]_vars
             PROVE  [Promise!Next]_(Promise!vars)
  OBVIOUS
<1> USE DEF QueueInv
<1>1. CASE Refuse
  <2>1. UNCHANGED Publishing
    BY <1>1, PublishingFrame DEF Refuse, Busy
  <2>2. Promise!Offer
    BY <1>1, <2>1 DEF Refuse, Promise!Offer
  <2> QED BY <2>2 DEF Promise!Next
<1>2. ASSUME NEW p \in Producers, Enqueue(p)
      PROVE  Promise!Offer
  <2>1. UNCHANGED Publishing
    BY <1>2, PublishingFrame DEF Enqueue, Busy
  <2>2. Range(queue') = Promise!Newest(Range(queue) \cup {offered + 1})
    BY <1>2, AdmitKeepsNewest DEF Enqueue
  <2> QED BY <1>2, <2>1, <2>2 DEF Enqueue, Promise!Offer, Range
<1>3. ASSUME NEW p \in Producers, NotifyOne(p)
      PROVE  UNCHANGED Promise!vars
  <2>1. UNCHANGED Publishing
    BY <1>3, PublishingFrame DEF NotifyOne, Busy, Waiting, QueueTypeOK
  <2> QED BY <1>3, <2>1 DEF NotifyOne, Promise!vars, Range
<1>4. ASSUME NEW w \in Workers, Sleep(w) \/ WakeSpuriously(w) \/ Return(w)
      PROVE  UNCHANGED Promise!vars
  <2>1. UNCHANGED Publishing
    BY <1>4, PublishingFrame
       DEF Sleep, WakeSpuriously, Return, Goes, Busy, QueueTypeOK
  <2> QED BY <1>4, <2>1 DEF Sleep, WakeSpuriously, Return, Goes, Promise!vars, Range
<1>5. ASSUME NEW w \in Workers, Take(w)
      PROVE  Promise!Take
  <2>1. /\ Promise!Oldest(Range(queue)) = Head(queue)
        /\ Head(queue) \in Range(queue)
        /\ Range(queue') = Range(queue) \ {Head(queue)}
    BY <1>5, AscendingHead DEF Take, QueueTypeOK, OrderInv
  <2>2. Publishing' = Publishing \cup {Head(queue)}
    BY <1>5, TakeMoves
  <2> QED BY <1>5, <2>1, <2>2 DEF Take, Goes, Promise!Take, Range
<1>6. ASSUME NEW w \in Workers, Publish(w)
      PROVE  task[w] \in Publishing /\ Promise!Finish(task[w])
  <2>1. Publishing' = Publishing \ {task[w]} /\ task[w] \in Publishing
    BY <1>6, PublishMoves
  <2> QED BY <1>6, <2>1 DEF Publish, Goes, Promise!Finish, Range
<1>7. CASE Close
  <2>1. UNCHANGED Publishing
    BY <1>7, PublishingFrame DEF Close, Busy
  <2>2. Range(queue') = {} /\ (~stop') \in BOOLEAN
    BY <1>7 DEF Close, Range
  <2>3. Promise!Discard
    BY <1>7, <2>1, <2>2 DEF Close, Promise!Discard, Range
  <2> QED BY <2>3 DEF Promise!Next
<1>8. CASE NotifyAll
  <2>1. UNCHANGED Publishing
    BY <1>8, PublishingFrame DEF NotifyAll, Busy, Waiting, QueueTypeOK
  <2> QED BY <1>8, <2>1 DEF NotifyAll, Promise!vars, Range
<1>9. CASE Joined
  <2>1. UNCHANGED Publishing
    BY <1>9, PublishingFrame DEF Joined, Busy, QueueTypeOK
  <2>2. Range(queue') = {} /\ (~stop') \in BOOLEAN
    BY <1>9 DEF Joined, StopInv, Range
  <2>3. Promise!Discard
    BY <1>9, <2>1, <2>2 DEF Joined, Promise!Discard, Range
  <2> QED BY <2>3 DEF Promise!Next
<1>10. CASE Open
  <2>1. UNCHANGED Publishing
    BY <1>10, PublishingFrame DEF Open, Busy, StopInv
  <2>2. Range(queue') = {} /\ (~stop') \in BOOLEAN
    BY <1>10 DEF Open, Range
  <2>3. Promise!Discard
    BY <1>10, <2>1, <2>2 DEF Open, Promise!Discard, Range
  <2> QED BY <2>3 DEF Promise!Next
<1>11. CASE UNCHANGED vars
  BY <1>11 DEF vars, Promise!vars, Publishing, Range
<1> QED BY <1>1, <1>2, <1>3, <1>4, <1>5, <1>6, <1>7, <1>8, <1>9, <1>10, <1>11
        DEF Next, Work, Promise!Next

(***************************************************************************)
(* The publish queue implements DropOldest: callbacks never block, the     *)
(* oldest waiting task gives way, and workers start tasks in order.        *)
(***************************************************************************)
THEOREM QueueRefines == Spec => Refines
<1>1. Spec => []QueueInv
  BY QueueOrdered
<1> QED BY <1>1, RefinesInit, RefinesStep, PTL DEF Spec, Refines, Promise!Spec

-----------------------------------------------------------------------------
(***************************************************************************)
(* Accounted is inductive together with the order of the tasks: a task in  *)
(* two places would be counted twice.                                      *)
(***************************************************************************)
AccountInv ==
  /\ accepted \in Nat /\ dropped \in Nat /\ published \in Seq(Nat)
  /\ main = "started" =>
       accepted = dropped + Len(queue) + Cardinality(Publishing) + Len(published)

(***************************************************************************)
(* The tasks that are being published can be counted.                      *)
(***************************************************************************)
LEMMA PublishingFinite ==
  IsFiniteSet(Publishing) /\ Cardinality(Publishing) \in Nat
<1> DEFINE B == {w \in Workers : pc[w] = "publish"}
           f == [w \in B |-> task[w]]
<1>1. IsFiniteSet(B)
  BY QueueAssumption, FS_Subset
<1>2. f \in Surjection(B, Publishing)
  BY DEF Surjection, Publishing
<1>3. IsFiniteSet(Publishing)
  BY <1>1, <1>2, FS_Surjection
<1> QED BY <1>3, FS_CardinalityType

(***************************************************************************)
(* Nothing accepted, nothing to account for.                               *)
(***************************************************************************)
LEMMA AccountInvInit == Init => AccountInv
BY EmptySeq DEF Init, AccountInv

(***************************************************************************)
(* Every step moves a task from one account to another, or counts it as    *)
(* dropped.                                                                *)
(***************************************************************************)
LEMMA AccountInvStep == QueueInv /\ AccountInv /\ [Next]_vars => AccountInv'
<1> SUFFICES ASSUME QueueInv, AccountInv, [Next]_vars
             PROVE  AccountInv'
  OBVIOUS
<1> USE DEF AccountInv
<1>0. /\ Len(queue) \in Nat /\ Len(published) \in Nat
      /\ IsFiniteSet(Publishing) /\ Cardinality(Publishing) \in Nat
  BY PublishingFinite, LenProperties DEF QueueInv, QueueTypeOK
<1>1. CASE Refuse
  BY <1>1, PublishingFrame DEF Refuse, Busy
<1>2. ASSUME NEW p \in Producers, Enqueue(p)
      PROVE  AccountInv'
  <2>1. UNCHANGED Publishing
    BY <1>2, PublishingFrame DEF Enqueue, Busy
  <2>2. Len(queue') = IF Full THEN Len(queue) ELSE Len(queue) + 1
    BY <1>2, AdmitKeepsNewest DEF Enqueue, QueueInv
  <2>3. /\ accepted' = accepted + 1
        /\ dropped' = IF Full THEN dropped + 1 ELSE dropped
        /\ UNCHANGED <<main, published>>
    BY <1>2 DEF Enqueue
  <2> QED BY <1>0, <2>1, <2>2, <2>3
<1>3. ASSUME NEW p \in Producers, NotifyOne(p)
      PROVE  AccountInv'
  <2>1. UNCHANGED Publishing
    BY <1>3, PublishingFrame DEF NotifyOne, Busy, Waiting, QueueInv, QueueTypeOK
  <2> QED BY <1>3, <2>1 DEF NotifyOne
<1>4. ASSUME NEW w \in Workers, Sleep(w) \/ WakeSpuriously(w) \/ Return(w)
      PROVE  AccountInv'
  <2>1. UNCHANGED Publishing
    BY <1>4, PublishingFrame
       DEF Sleep, WakeSpuriously, Return, Goes, Busy, QueueInv, QueueTypeOK
  <2> QED BY <1>4, <2>1 DEF Sleep, WakeSpuriously, Return, Goes
<1>5. ASSUME NEW w \in Workers, Take(w)
      PROVE  AccountInv'
  <2>1. Cardinality(Publishing') = Cardinality(Publishing) + 1
    BY <1>0, <1>5, TakeMoves, FS_AddElement
  <2>2. Len(queue') = Len(queue) - 1
    BY <1>5, AscendingHead DEF Take, QueueInv, QueueTypeOK, OrderInv
  <2>3. UNCHANGED <<main, accepted, dropped, published>>
    BY <1>5 DEF Take, Goes
  <2> QED BY <1>0, <2>1, <2>2, <2>3
<1>6. ASSUME NEW w \in Workers, Publish(w)
      PROVE  AccountInv'
  <2>1. Cardinality(Publishing') = Cardinality(Publishing) - 1
    BY <1>0, <1>6, PublishMoves, FS_RemoveElement
  <2>2. task[w] \in Nat
    BY DEF QueueInv, QueueTypeOK
  <2>3. published' \in Seq(Nat) /\ Len(published') = Len(published) + 1
    BY <1>6, <2>2, AppendProperties DEF Publish
  <2>4. UNCHANGED <<main, accepted, dropped, queue>>
    BY <1>6 DEF Publish, Goes
  <2>5. main = "started" =>
          accepted = dropped + Len(queue) + Cardinality(Publishing') + Len(published')
    BY <1>0, <2>1, <2>3
  <2> QED BY <2>3, <2>4, <2>5
<1>7. CASE Close \/ NotifyAll \/ Joined
  BY <1>7 DEF Close, NotifyAll, Joined
<1>8. CASE Open
  <2>1. Publishing' = {}
    BY <1>8 DEF Open, Publishing
  <2>2. Cardinality(Publishing') = 0
    BY <2>1, FS_EmptySet
  <2>3. /\ published' = << >> /\ queue' = << >>
        /\ accepted' = 0 /\ dropped' = 0
        /\ << >> \in Seq(Nat) /\ Len(<< >>) = 0
    BY <1>8, EmptySeq DEF Open
  <2> QED BY <2>2, <2>3
<1>9. CASE UNCHANGED vars
  BY <1>9 DEF vars, Publishing
<1> QED BY <1>1, <1>2, <1>3, <1>4, <1>5, <1>6, <1>7, <1>8, <1>9 DEF Next, Work

(***************************************************************************)
(* Every task accepted since the start is queued, being published,         *)
(* published once or counted as dropped.                                   *)
(***************************************************************************)
THEOREM QueueAccounted == Spec => []Accounted
<1>1. QueueInv /\ AccountInv => Accounted
  BY DEF QueueInv, QueueTypeOK, AccountInv, Accounted
<1>2. Spec => []QueueInv
  BY QueueOrdered
<1> QED BY <1>1, <1>2, AccountInvInit, AccountInvStep, PTL DEF Spec

-----------------------------------------------------------------------------
(***************************************************************************)
(* OvertakesFew is not inductive: it does not know who may still come      *)
(* late.  Those that came late, and the workers that hold a task that      *)
(* will, are together fewer than the workers; when task i was published    *)
(* its own worker was not among them, and no worker takes one later.       *)
(***************************************************************************)
Late(i) == {j \in DOMAIN published : i < j /\ published[j] < published[i]}

Behind(i) == {w \in Workers : Busy(w) /\ task[w] < published[i]}

OvertakeInv ==
  /\ published \in Seq(Nat)
  /\ \A i \in DOMAIN published :
       /\ \A m \in Range(queue) : published[i] < m
       /\ published[i] <= offered
       /\ Cardinality(Late(i)) + Cardinality(Behind(i)) < Cardinality(Workers)

(***************************************************************************)
(* Who overtook a message, and who still may, can be counted.              *)
(***************************************************************************)
LEMMA OvertakeFinite ==
  ASSUME OvertakeInv
  PROVE  \A i : /\ IsFiniteSet(Late(i)) /\ Cardinality(Late(i)) \in Nat
                /\ IsFiniteSet(Behind(i)) /\ Cardinality(Behind(i)) \in Nat
<1> TAKE i
<1>1. DOMAIN published = 1 .. Len(published) /\ Len(published) \in Nat
  BY LenProperties DEF OvertakeInv
<1>2. IsFiniteSet(DOMAIN published)
  BY <1>1, FS_Interval
<1>3. IsFiniteSet(Late(i)) /\ IsFiniteSet(Behind(i))
  BY <1>2, QueueAssumption, FS_Subset DEF Late, Behind
<1> QED BY <1>3, FS_CardinalityType

(***************************************************************************)
(* A step that publishes nothing and after which fewer or the same         *)
(* workers are behind.                                                     *)
(***************************************************************************)
LEMMA OvertakeFrame ==
  ASSUME QueueInv, OvertakeInv, UNCHANGED published,
         offered' \in Nat, offered <= offered',
         Range(queue)' \subseteq Range(queue) \cup {offered + 1},
         \A i \in DOMAIN published : Behind(i)' \subseteq Behind(i)
  PROVE  OvertakeInv'
<1> SUFFICES ASSUME NEW i \in DOMAIN published
             PROVE  /\ \A m \in Range(queue)' : published[i] < m
                    /\ published[i] <= offered'
                    /\ Cardinality(Late(i)') + Cardinality(Behind(i)') < Cardinality(Workers)
  BY DEF OvertakeInv
<1>1. published[i] \in Nat /\ offered \in Nat /\ published[i] <= offered
  BY LenProperties DEF OvertakeInv, QueueInv, QueueTypeOK
<1>2. Late(i)' = Late(i)
  BY DEF Late
<1>3. /\ IsFiniteSet(Behind(i)) /\ Cardinality(Behind(i)) \in Nat
      /\ Cardinality(Late(i)) \in Nat
      /\ Behind(i)' \subseteq Behind(i)
  BY OvertakeFinite
<1>4. IsFiniteSet(Behind(i)') /\ Cardinality(Behind(i)') <= Cardinality(Behind(i))
  BY <1>3, FS_Subset
<1>5. Cardinality(Behind(i)') \in Nat /\ Cardinality(Workers) \in Nat
  BY <1>4, QueueAssumption, FS_CardinalityType
<1>6. Cardinality(Late(i)) + Cardinality(Behind(i)) < Cardinality(Workers)
  BY DEF OvertakeInv
<1>7. Cardinality(Late(i)') + Cardinality(Behind(i)') < Cardinality(Workers)
  BY <1>2, <1>3, <1>4, <1>5, <1>6
<1>8. \A m \in Range(queue) : published[i] < m
  BY DEF OvertakeInv
<1> QED BY <1>1, <1>7, <1>8

(***************************************************************************)
(* Publishing a task moves its worker from those behind to what came late. *)
(***************************************************************************)
LEMMA OvertakePublish ==
  ASSUME QueueInv, OvertakeInv, NEW w \in Workers, Publish(w)
  PROVE  OvertakeInv'
<1>0. PICK n \in Nat \ {0} : n = Len(published) + 1
  BY LenProperties DEF OvertakeInv
<1>1. /\ pc[w] = "publish" /\ Busy(w) /\ task[w] \in Nat
      /\ UNCHANGED <<task, queue, offered>>
      /\ \A v \in Workers : v # w => (Busy(v)' <=> Busy(v))
      /\ ~Busy(w)'
  BY DEF Publish, Goes, Busy, QueueInv, QueueTypeOK
<1>2. /\ published' \in Seq(Nat)
      /\ DOMAIN published = 1 .. n - 1 /\ DOMAIN published' = 1 .. n
      /\ \A i \in 1 .. n - 1 : published'[i] = published[i] /\ published[i] \in Nat
      /\ published'[n] = task[w]
  <2>1. /\ published \in Seq(Nat) /\ published' = Append(published, task[w])
    BY DEF Publish, OvertakeInv
  <2>2. /\ published' \in Seq(Nat) /\ Len(published') = n
        /\ \A i \in 1 .. Len(published) : published'[i] = published[i]
        /\ published'[n] = task[w]
    BY <1>0, <1>1, <2>1, AppendProperties
  <2>3. Len(published) \in Nat /\ DOMAIN published' = 1 .. Len(published')
    BY <2>1, <2>2, LenProperties
  <2>4. DOMAIN published = 1 .. Len(published)
        /\ \A i \in 1 .. Len(published) : published[i] \in Nat
    BY <2>1, LenProperties
  <2> QED BY <1>0, <2>2, <2>3, <2>4
<1>3. \A i : /\ IsFiniteSet(Late(i)) /\ Cardinality(Late(i)) \in Nat
             /\ IsFiniteSet(Behind(i)) /\ Cardinality(Behind(i)) \in Nat
  BY OvertakeFinite
<1>4. \A m \in Range(queue) : task[w] < m
  BY <1>1 DEF QueueInv, OrderInv
<1>5. task[w] <= offered
  BY <1>1 DEF QueueInv, OrderInv
<1>6. ASSUME NEW i \in 1 .. n - 1
      PROVE  Cardinality(Late(i)') + Cardinality(Behind(i)') < Cardinality(Workers)
  <2>1. Cardinality(Late(i)) + Cardinality(Behind(i)) < Cardinality(Workers)
    BY <1>2, <1>6 DEF OvertakeInv
  <2>2. i \in 1 .. n /\ n # i /\ i < n /\ published'[i] = published[i]
    BY <1>2, <1>6
  <2>3. CASE task[w] < published[i]
    <3>1. Late(i)' = Late(i) \cup {n} /\ n \notin Late(i)
      <4>1. \A j \in 1 .. n - 1 : j # n /\ published'[j] = published[j]
        BY <1>2
      <4>2. 1 .. n = (1 .. n - 1) \cup {n}
        BY <1>2
      <4> QED BY <1>2, <2>2, <2>3, <4>1, <4>2 DEF Late
    <3>2. Behind(i)' = Behind(i) \ {w} /\ w \in Behind(i)
      BY <1>1, <2>2, <2>3 DEF Behind
    <3>3. Cardinality(Late(i)') = Cardinality(Late(i)) + 1
      BY <1>3, <3>1, FS_AddElement
    <3>4. Cardinality(Behind(i)') = Cardinality(Behind(i)) - 1
      BY <1>3, <3>2, FS_RemoveElement
    <3> QED BY <1>3, <2>1, <3>3, <3>4
  <2>4. CASE ~(task[w] < published[i])
    <3>1. Late(i)' = Late(i)
      <4>1. \A j \in 1 .. n - 1 : j # n /\ published'[j] = published[j]
        BY <1>2
      <4>2. 1 .. n = (1 .. n - 1) \cup {n}
        BY <1>2
      <4> QED BY <1>2, <2>2, <2>4, <4>1, <4>2 DEF Late
    <3>2. Behind(i)' = Behind(i)
      BY <1>1, <2>2, <2>4 DEF Behind
    <3> QED BY <2>1, <3>1, <3>2
  <2> QED BY <2>3, <2>4
<1>7. Cardinality(Late(n)') + Cardinality(Behind(n)') < Cardinality(Workers)
  <2>1. Late(n)' = {}
    BY <1>2 DEF Late
  <2>2. Behind(n)' \subseteq Workers \ {w}
    BY <1>1 DEF Behind
  <2>3. /\ IsFiniteSet(Workers \ {w})
        /\ Cardinality(Workers \ {w}) = Cardinality(Workers) - 1
        /\ Cardinality(Workers) \in Nat
    BY QueueAssumption, FS_RemoveElement, FS_CardinalityType
  <2>4. /\ Cardinality(Behind(n)') <= Cardinality(Workers \ {w})
        /\ IsFiniteSet(Behind(n)')
    BY <2>2, <2>3, FS_Subset
  <2>5. Cardinality(Behind(n)') \in Nat /\ Cardinality(Late(n)') = 0
    BY <2>1, <2>4, FS_CardinalityType, FS_EmptySet
  <2> QED BY <2>3, <2>4, <2>5
<1>8. ASSUME NEW i \in 1 .. n
      PROVE  /\ \A m \in Range(queue) : published'[i] < m
             /\ published'[i] <= offered
             /\ Cardinality(Late(i)') + Cardinality(Behind(i)') < Cardinality(Workers)
  <2>1. CASE i = n
    BY <1>2, <1>4, <1>5, <1>7, <2>1
  <2>2. CASE i # n
    <3>1. i \in 1 .. n - 1
      BY <1>2, <1>8, <2>2
    <3> QED BY <1>2, <1>6, <3>1 DEF OvertakeInv
  <2> QED BY <2>1, <2>2
<1> QED BY <1>1, <1>2, <1>8 DEF OvertakeInv, Range

(***************************************************************************)
(* A worker that overtakes leaves the set of those that may: the sum of    *)
(* the two counts never grows for a message that is out.                   *)
(***************************************************************************)
LEMMA OvertakeInvStep == QueueInv /\ OvertakeInv /\ [Next]_vars => OvertakeInv'
<1> SUFFICES ASSUME QueueInv, OvertakeInv, [Next]_vars
             PROVE  OvertakeInv'
  OBVIOUS
<1>0. offered \in Nat /\ Range(<< >>) = {}
  BY DEF QueueInv, QueueTypeOK, Range
<1>1. CASE Refuse
  BY <1>0, <1>1, OvertakeFrame DEF Refuse, Behind, Busy, Range
<1>2. ASSUME NEW p \in Producers, Enqueue(p)
      PROVE  OvertakeInv'
  <2>1. Range(queue') \subseteq Range(queue) \cup {offered + 1}
    BY <1>2, AdmitKeepsNewest DEF Enqueue, QueueInv
  <2>2. \A i \in DOMAIN published : Behind(i)' \subseteq Behind(i)
    BY <1>2 DEF Enqueue, Behind, Busy
  <2> QED BY <1>0, <1>2, <2>1, <2>2, OvertakeFrame DEF Enqueue, Range
<1>3. ASSUME NEW p \in Producers, NotifyOne(p)
      PROVE  OvertakeInv'
  <2>1. \A w \in Workers : Busy(w)' => Busy(w)
    BY <1>3 DEF NotifyOne, Busy, Waiting, QueueInv, QueueTypeOK
  <2>2. \A i \in DOMAIN published : Behind(i)' \subseteq Behind(i)
    BY <1>3, <2>1 DEF NotifyOne, Behind
  <2> QED BY <1>0, <1>3, <2>2, OvertakeFrame DEF NotifyOne, Range
<1>4. ASSUME NEW w \in Workers, Sleep(w) \/ WakeSpuriously(w) \/ Return(w)
      PROVE  OvertakeInv'
  <2>1. /\ \A v \in Workers : Busy(v)' => Busy(v)
        /\ UNCHANGED <<queue, task, published, offered>>
    BY <1>4 DEF Sleep, WakeSpuriously, Return, Goes, Busy, QueueInv, QueueTypeOK
  <2>2. \A i \in DOMAIN published : Behind(i)' \subseteq Behind(i)
    BY <2>1 DEF Behind
  <2> QED BY <1>0, <2>1, <2>2, OvertakeFrame DEF Range
<1>5. ASSUME NEW w \in Workers, Take(w)
      PROVE  OvertakeInv'
  <2>1. Head(queue) \in Range(queue) /\ Range(queue') = Range(queue) \ {Head(queue)}
    BY <1>5, AscendingHead DEF Take, QueueInv, QueueTypeOK, OrderInv
  <2>2. /\ task'[w] = Head(queue)
        /\ \A v \in Workers : v # w => task'[v] = task[v] /\ (Busy(v)' <=> Busy(v))
        /\ UNCHANGED <<published, offered>>
    BY <1>5 DEF Take, Goes, Busy, QueueInv, QueueTypeOK
  <2>3. ASSUME NEW i \in DOMAIN published
        PROVE  Behind(i)' \subseteq Behind(i)
    <3>1. published[i] < Head(queue)
      BY <2>1 DEF OvertakeInv
    <3>2. published[i] \in Nat /\ Head(queue) \in Nat
      BY <2>1, LenProperties DEF OvertakeInv, QueueInv, QueueTypeOK, Range
    <3>3. ~(task'[w] < published'[i])
      BY <2>2, <3>1, <3>2
    <3> QED BY <2>2, <3>3 DEF Behind
  <2> QED BY <1>0, <2>1, <2>2, <2>3, OvertakeFrame DEF Range
<1>6. ASSUME NEW w \in Workers, Publish(w)
      PROVE  OvertakeInv'
  BY <1>6, OvertakePublish
<1>7. CASE Close
  BY <1>0, <1>7, OvertakeFrame DEF Close, Behind, Busy, Range
<1>8. CASE NotifyAll \/ Joined
  <2>1. /\ \A v \in Workers : Busy(v)' => Busy(v)
        /\ UNCHANGED <<queue, task, published, offered>>
    BY <1>8 DEF NotifyAll, Joined, Busy, Waiting
  <2>2. \A i \in DOMAIN published : Behind(i)' \subseteq Behind(i)
    BY <2>1 DEF Behind
  <2> QED BY <1>0, <2>1, <2>2, OvertakeFrame DEF Range
<1>9. CASE Open
  <2>1. published' \in Seq(Nat) /\ DOMAIN published' = {}
    BY <1>9 DEF Open
  <2> QED BY <2>1 DEF OvertakeInv
<1>10. CASE UNCHANGED vars
  BY <1>0, <1>10, OvertakeFrame DEF vars, Behind, Busy, Range
<1> QED BY <1>1, <1>2, <1>3, <1>4, <1>5, <1>6, <1>7, <1>8, <1>9, <1>10 DEF Next, Work

(***************************************************************************)
(* With W workers a message is overtaken by fewer than W others, whatever  *)
(* the depth; in particular one worker keeps the order of the callbacks.   *)
(***************************************************************************)
THEOREM QueueOvertakesFew == Spec => []OvertakesFew
<1>1. OvertakeInv => OvertakesFew
  <2> SUFFICES ASSUME OvertakeInv, NEW i \in DOMAIN published
               PROVE  Cardinality(Late(i)) < Cardinality(Workers)
    BY DEF OvertakesFew, Late
  <2>1. Cardinality(Late(i)) + Cardinality(Behind(i)) < Cardinality(Workers)
    BY DEF OvertakeInv
  <2>2. Cardinality(Late(i)) \in Nat /\ Cardinality(Behind(i)) \in Nat
    BY OvertakeFinite
  <2>3. Cardinality(Workers) \in Nat
    BY QueueAssumption, FS_CardinalityType
  <2> QED BY <2>1, <2>2, <2>3
<1>2. Init => OvertakeInv
  BY EmptySeq DEF Init, OvertakeInv
<1>3. Spec => []QueueInv
  BY QueueOrdered
<1> QED BY <1>1, <1>2, <1>3, OvertakeInvStep, PTL DEF Spec

-----------------------------------------------------------------------------
(***************************************************************************)
(* Workers exist while the queue is started and none sleeps once it is     *)
(* being joined.  A task may find workers asleep only if a callback is     *)
(* about to notify one, or another worker will look at the queue first.    *)
(***************************************************************************)
AwakeInv ==
  /\ main = "stopped" => \A w \in Workers : pc[w] = "none"
  /\ main = "started" => ~stop /\ \A w \in Workers : pc[w] \in {"look", "wait", "publish"}
  /\ main = "joining" => \A w \in Workers : pc[w] # "wait"
  /\ main = "started" /\ queue # << >> =>
       \/ notifying # {}
       \/ \E w \in Workers : pc[w] \in {"look", "publish"}
       \/ Workers = {}

(***************************************************************************)
(* A node that was never started has no worker.                            *)
(***************************************************************************)
LEMMA AwakeInvInit == Init => AwakeInv
BY DEF Init, AwakeInv

(***************************************************************************)
(* A worker may move to the queue or to its task, and sleep only while the *)
(* queue is started and empty.                                             *)
(***************************************************************************)
LEMMA AwakeStep ==
  ASSUME QueueInv, AwakeInv, NEW w \in Workers, Work(w) \/ WakeSpuriously(w)
  PROVE  AwakeInv'
<1>1. /\ UNCHANGED <<stop, main, notifying>>
      /\ pc[w] \in {"look", "wait", "publish"}
      /\ \A v \in Workers : v # w => pc'[v] = pc[v]
      /\ \/ pc'[w] \in {"look", "publish"}
         \/ pc'[w] = "wait" /\ ~stop /\ queue' = << >>
         \/ pc'[w] = "returned" /\ stop
  BY DEF Work, Sleep, WakeSpuriously, Take, Publish, Return, Goes, QueueInv, QueueTypeOK
<1>2. main = "joining" => stop
  BY DEF QueueInv, StopInv
<1> QED BY <1>1, <1>2 DEF AwakeInv

(***************************************************************************)
(* Callbacks wake a worker for every task, and Start and Stop all of them. *)
(***************************************************************************)
LEMMA AwakeInvStep == QueueInv /\ AwakeInv /\ [Next]_vars => AwakeInv'
<1> SUFFICES ASSUME QueueInv, AwakeInv, [Next]_vars
             PROVE  AwakeInv'
  OBVIOUS
<1>0. pc \in [Workers -> Places]
  BY DEF QueueInv, QueueTypeOK
<1>1. CASE Refuse
  BY <1>1 DEF Refuse, AwakeInv
<1>2. ASSUME NEW p \in Producers, Enqueue(p)
      PROVE  AwakeInv'
  <2>1. notifying' # {} /\ UNCHANGED <<stop, pc, main>>
    BY <1>2 DEF Enqueue
  <2> QED BY <2>1 DEF AwakeInv
<1>3. ASSUME NEW p \in Producers, NotifyOne(p)
      PROVE  AwakeInv'
  <2>1. UNCHANGED <<queue, stop, main>>
    BY <1>3 DEF NotifyOne
  <2>2. CASE Waiting = {}
    <3>1. pc' = pc /\ \A w \in Workers : pc[w] # "wait"
      BY <1>3, <2>2 DEF NotifyOne, Waiting
    <3> QED BY <2>1, <3>1 DEF AwakeInv
  <2>3. CASE Waiting # {}
    <3>1. PICK w \in Workers : pc[w] = "wait" /\ pc' = [pc EXCEPT ![w] = "look"]
      BY <1>3, <2>3 DEF NotifyOne, Waiting
    <3>2. pc'[w] = "look" /\ \A v \in Workers : v # w => pc'[v] = pc[v]
      BY <1>0, <3>1
    <3> QED BY <2>1, <3>1, <3>2 DEF AwakeInv
  <2> QED BY <2>2, <2>3
<1>4. ASSUME NEW w \in Workers, Work(w) \/ WakeSpuriously(w)
      PROVE  AwakeInv'
  BY <1>4, AwakeStep
<1>5. CASE Close
  BY <1>5 DEF Close, AwakeInv
<1>6. CASE NotifyAll
  BY <1>0, <1>6 DEF NotifyAll, Waiting, AwakeInv
<1>7. CASE Joined
  BY <1>0, <1>7 DEF Joined, AwakeInv
<1>8. CASE Open
  BY <1>0, <1>8 DEF Open, AwakeInv
<1>9. CASE UNCHANGED vars
  BY <1>9 DEF vars, AwakeInv
<1> QED BY <1>1, <1>2, <1>3, <1>4, <1>5, <1>6, <1>7, <1>8, <1>9 DEF Next

(***************************************************************************)
(* What the liveness of the queue rests on, in every state it can reach: a *)
(* task that waits has a worker that is not asleep, or a callback that is  *)
(* about to wake one; and a Stop that waits for the workers has nothing    *)
(* left to wait for, or a worker that publishes or is about to return.  So *)
(* no wakeup is lost and Start and Stop never wait for a sleeping worker.  *)
(***************************************************************************)
NeverStuck ==
  /\ main = "started" /\ queue # << >> /\ Workers # {} =>
       notifying # {} \/ \E w \in Workers : pc[w] \in {"look", "publish"}
  /\ main = "joining" =>
       \/ \A w \in Workers : pc[w] \in {"none", "returned"}
       \/ \E w \in Workers : pc[w] = "publish" \/ (pc[w] = "look" /\ stop /\ queue = << >>)

(***************************************************************************)
(* NeverStuck for every number of workers and callbacks, every depth and   *)
(* every interleaving: between the unlock of EnqueuePublishTask and its    *)
(* notify_one, with spurious wakeups, stops and restarts at any moment.    *)
(***************************************************************************)
THEOREM QueueNeverStuck == Spec => []NeverStuck
<1>1. QueueInv /\ AwakeInv => NeverStuck
  <2> SUFFICES ASSUME QueueInv, AwakeInv
               PROVE  NeverStuck
    OBVIOUS
  <2>1. ASSUME main = "joining", NEW w \in Workers, pc[w] \notin {"none", "returned"}
        PROVE  pc[w] = "publish" \/ (pc[w] = "look" /\ stop /\ queue = << >>)
    BY <2>1 DEF QueueInv, QueueTypeOK, Places, StopInv, AwakeInv
  <2> QED BY <2>1 DEF NeverStuck, AwakeInv
<1> QED BY <1>1, QueueInvInit, QueueInvStep, AwakeInvInit, AwakeInvStep, PTL DEF Spec
=============================================================================
