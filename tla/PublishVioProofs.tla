-------------------------- MODULE PublishVioProofs --------------------------
(***************************************************************************)
(* What the two ends of PublishVio guarantee: the gate in front, for every *)
(* set of epochs, stamps and numbers and every length of its memory, and   *)
(* what the user is told about optimized odometry behind it, for every     *)
(* period, limit and settling time, and any course of samples, starts and  *)
(* stops.  HistorySpec and Spec share no variable.                         *)
(***************************************************************************)
EXTENDS PoseGateHistory, VioOutputs, SequenceTheorems, FiniteSetTheorems, TLAPS

(***************************************************************************)
(* The list of retired epochs stays a list of epochs of at most Retain     *)
(* entries when the present epoch is pushed onto it.                       *)
(***************************************************************************)
LEMMA RetireShape ==
  ASSUME GateTypeOK
  PROVE  /\ Retire \in Seq(Epochs)
         /\ Len(Retire) <= Retain
         /\ epoch # NoEpoch =>
              /\ Len(Retire) = IF Len(retired) = Retain THEN Retain
                                                        ELSE Len(retired) + 1
              /\ Retire[Len(Retire)] = epoch
              /\ Len(retired) = Retain =>
                   \A i \in 1 .. Retain - 1 : Retire[i] = retired[i + 1]
              /\ Len(retired) # Retain =>
                   \A i \in 1 .. Len(retired) : Retire[i] = retired[i]
<1> USE GateAssumption DEF GateTypeOK
<1>1. CASE epoch = NoEpoch
  BY <1>1 DEF Retire
<1>2. CASE epoch # NoEpoch /\ Len(retired) = Retain
  <2>1. retired # << >> /\ epoch \in Epochs
    BY <1>2
  <2>2. /\ Tail(retired) \in Seq(Epochs)
        /\ Len(Tail(retired)) = Retain - 1
        /\ \A i \in 1 .. Retain - 1 : Tail(retired)[i] = retired[i + 1]
    BY <1>2, <2>1, HeadTailProperties
  <2>3. Retire = Append(Tail(retired), epoch)
    BY <1>2 DEF Retire
  <2> QED BY <1>2, <2>1, <2>2, <2>3
<1>3. CASE epoch # NoEpoch /\ Len(retired) # Retain
  <2>1. epoch \in Epochs /\ Len(retired) + 1 <= Retain
    BY <1>3, LenProperties
  <2>2. Retire = Append(retired, epoch)
    BY <1>3 DEF Retire
  <2> QED BY <1>3, <2>1, <2>2
<1> QED BY <1>1, <1>2, <1>3

(***************************************************************************)
(* Type correctness of the gate and of its history.                        *)
(***************************************************************************)
THEOREM GateTypeCorrect == HistorySpec => []HistoryTypeOK
<1> USE GateAssumption
<1>1. HistoryInit => HistoryTypeOK
  BY DEF HistoryInit, GateInit, HistoryTypeOK, GateTypeOK
<1>2. HistoryTypeOK /\ [HistoryNext]_historyVars => HistoryTypeOK'
  <2> SUFFICES ASSUME HistoryTypeOK, [HistoryNext]_historyVars
               PROVE  HistoryTypeOK'
    OBVIOUS
  <2> USE DEF HistoryTypeOK
  <2>1. ASSUME NEW s \in Sample, Deliver(s)
        PROVE  HistoryTypeOK'
    <3>1. GateTypeOK'
      BY <2>1, RetireShape DEF Deliver, Accept, GateTypeOK, OpensEpoch, Sample
    <3>2. residency' \in Seq(Sample)
      BY <2>1 DEF Deliver
    <3>3. age' \in [Epochs -> 0 .. Retain]
      BY <2>1 DEF Deliver, Older
    <3> QED BY <3>1, <3>2, <3>3
  <2>2. ASSUME NEW s \in Sample, Drop(s)
        PROVE  HistoryTypeOK'
    BY <2>2 DEF Drop, Reject, gateVars, GateTypeOK
  <2>3. CASE UNCHANGED historyVars
    BY <2>3 DEF historyVars, gateVars, GateTypeOK
  <2> QED BY <2>1, <2>2, <2>3 DEF HistoryNext
<1> QED BY <1>1, <1>2, PTL DEF HistorySpec

(***************************************************************************)
(* The gate's timestamp is the stamp of the last sample of the residency,  *)
(* which makes StampsAscend inductive.                                     *)
(***************************************************************************)
StampInv ==
  /\ StampsAscend
  /\ residency # << >> => timestamp = residency[Len(residency)].stamp

(***************************************************************************)
(* Within one life of the producer the accepted stamps ascend              *)
(* (PoseTransformGate::Accept), for any memory and any delivery.           *)
(***************************************************************************)
THEOREM GateStampsAscend == HistorySpec => []StampsAscend
<1>1. HistoryInit => StampInv
  BY DEF HistoryInit, StampInv, StampsAscend
<1>2. HistoryTypeOK /\ StampInv /\ [HistoryNext]_historyVars => StampInv'
  <2> SUFFICES ASSUME HistoryTypeOK, StampInv, [HistoryNext]_historyVars
               PROVE  StampInv'
    OBVIOUS
  <2> USE GateAssumption DEF HistoryTypeOK, GateTypeOK, StampInv, StampsAscend
  <2>1. ASSUME NEW s \in Sample, Deliver(s)
        PROVE  StampInv'
    <3> s \in Sample /\ s.stamp \in Nat
      BY DEF Sample
    <3>1. CASE OpensEpoch(s)
      BY <2>1, <3>1 DEF Deliver, Accept
    <3>2. CASE ~OpensEpoch(s)
      <4>1. /\ residency' = Append(residency, s)
            /\ timestamp' = s.stamp
            /\ s.stamp > timestamp
        BY <2>1, <3>2 DEF Deliver, Accept, Accepts, Fresh
      <4>2. ASSUME NEW i \in DOMAIN residency
            PROVE  residency[i].stamp <= timestamp
        <5>1. residency # << >> /\ Len(residency) \in DOMAIN residency
          BY <4>2
        <5>2. residency[i] \in Sample
          BY <4>2
        <5>3. residency[i].stamp \in Nat
          BY <5>2 DEF Sample
        <5>4. CASE i = Len(residency)
          BY <5>1, <5>3, <5>4
        <5>5. CASE i < Len(residency)
          BY <4>2, <5>1, <5>3, <5>5
        <5> QED BY <4>2, <5>4, <5>5
      <4>3. \A i \in DOMAIN residency : residency[i].stamp \in Nat
        <5>1. \A i \in DOMAIN residency : residency[i] \in Sample
          OBVIOUS
        <5> QED BY <5>1 DEF Sample
      <4>4. timestamp \in Nat
        OBVIOUS
      <4>5. /\ DOMAIN residency' = 1 .. (Len(residency) + 1)
            /\ Len(residency') = Len(residency) + 1
            /\ \A i \in DOMAIN residency : residency'[i] = residency[i]
            /\ residency'[Len(residency) + 1] = s
        BY <4>1
      <4>6. ASSUME NEW i \in DOMAIN residency', NEW j \in DOMAIN residency', i < j
            PROVE  residency'[i].stamp < residency'[j].stamp
        <5>1. i \in DOMAIN residency
          BY <4>5, <4>6
        <5>2. CASE j \in DOMAIN residency
          BY <4>5, <4>6, <5>1, <5>2
        <5>3. CASE j = Len(residency) + 1
          BY <4>1, <4>2, <4>3, <4>4, <4>5, <5>1, <5>3
        <5> QED BY <4>5, <4>6, <5>2, <5>3
      <4> QED BY <4>1, <4>5, <4>6
    <3> QED BY <3>1, <3>2
  <2>2. ASSUME NEW s \in Sample, Drop(s)
        PROVE  StampInv'
    BY <2>2 DEF Drop, Reject, gateVars
  <2>3. CASE UNCHANGED historyVars
    BY <2>3 DEF historyVars, gateVars
  <2> QED BY <2>1, <2>2, <2>3 DEF HistoryNext
<1>3. StampInv => StampsAscend
  BY DEF StampInv
<1> QED BY <1>1, <1>2, <1>3, GateTypeCorrect, PTL DEF HistorySpec

(***************************************************************************)
(* Every epoch retired less than Retain retirements ago is on the list at  *)
(* the place its age gives; the present epoch, when identified, is not.    *)
(***************************************************************************)
AgeInv ==
  /\ RetiredByAge
  /\ epoch # NoEpoch => age[epoch] = Retain

(***************************************************************************)
(* An accepted sample ages the retired epochs as the list does.            *)
(***************************************************************************)
LEMMA AgeStep ==
  ASSUME HistoryTypeOK, AgeInv, NEW s \in Sample, Deliver(s)
  PROVE  AgeInv'
<1> USE GateAssumption DEF HistoryTypeOK, GateTypeOK
<1>1. CASE ~OpensEpoch(s)
  BY <1>1 DEF Deliver, Accept, AgeInv, RetiredByAge, Range
<1>2. CASE OpensEpoch(s)
  <2>1. /\ s.epoch \in Epochs
        /\ s.epoch # epoch
        /\ s.epoch \notin Range(retired)
        /\ epoch' = s.epoch
        /\ retired' = Retire
    BY <1>2 DEF Deliver, Accept, Accepts, Fresh, OpensEpoch, Sample
  <2>2. age[s.epoch] = Retain
    BY <2>1 DEF AgeInv, RetiredByAge
  <2>3. CASE epoch = NoEpoch
    <3>1. age' = age /\ retired' = retired
      BY <1>2, <2>1, <2>3 DEF Deliver, Retire
    <3> QED BY <2>1, <2>2, <3>1 DEF AgeInv, RetiredByAge, Range
  <2>4. CASE epoch # NoEpoch
    <3>1. age' = [e \in Epochs |-> IF e = epoch THEN 0 ELSE Older(age[e])]
      BY <1>2, <2>4 DEF Deliver
    <3>2. epoch \in Epochs /\ epoch \notin Range(retired)
      <4>1. \A i \in DOMAIN retired : age[retired[i]] < Retain
        BY DEF AgeInv, RetiredByAge
      <4> QED BY <2>4, <4>1 DEF AgeInv, Range
    <3>a. /\ Retire \in Seq(Epochs)
          /\ Len(Retire) = IF Len(retired) = Retain THEN Retain
                                                    ELSE Len(retired) + 1
          /\ Retire[Len(Retire)] = epoch
          /\ Len(retired) = Retain =>
               \A i \in 1 .. Retain - 1 : Retire[i] = retired[i + 1]
          /\ Len(retired) # Retain =>
               \A i \in 1 .. Len(retired) : Retire[i] = retired[i]
      BY <2>4, RetireShape
    <3>b. DOMAIN Retire = 1 .. Len(Retire) /\ Len(retired) \in 0 .. Retain
      BY <3>a
    <3>3. age'[s.epoch] = Retain
      BY <2>1, <2>2, <3>1 DEF Older
    <3>4. ASSUME NEW i \in DOMAIN retired'
          PROVE  age'[retired'[i]] = Len(retired') - i
      <4>1. CASE i = Len(Retire)
        BY <2>1, <3>1, <3>2, <4>1, <3>a, <3>b
      <4>2. CASE i # Len(Retire) /\ Len(retired) = Retain
        <5>1. i \in 1 .. Retain - 1 /\ Retire[i] = retired[i + 1]
          <6>1. i \in 1 .. Len(Retire) /\ Len(Retire) = Retain
            BY <2>1, <3>4, <4>2, <3>a, <3>b
          <6>2. i \in 1 .. Retain - 1
            BY <4>2, <6>1
          <6> QED BY <4>2, <6>2, <3>a
        <5>2. i + 1 \in DOMAIN retired /\ age[retired[i + 1]] = Retain - (i + 1)
          BY <4>2, <5>1 DEF AgeInv, RetiredByAge
        <5>3. retired[i + 1] \in Epochs /\ retired[i + 1] # epoch
          BY <3>2, <5>2 DEF Range
        <5> QED BY <2>1, <2>4, <3>1, <4>2, <5>1, <5>2, <5>3, <3>a, <3>b DEF Older
      <4>3. CASE i # Len(Retire) /\ Len(retired) # Retain
        <5>1. i \in 1 .. Len(retired) /\ Retire[i] = retired[i]
          BY <2>1, <2>4, <3>4, <4>3, <3>a, <3>b
        <5>2. age[retired[i]] = Len(retired) - i /\ Len(retired) < Retain
          BY <4>3, <5>1 DEF AgeInv, RetiredByAge
        <5>3. retired[i] \in Epochs /\ retired[i] # epoch
          BY <3>2, <5>1 DEF Range
        <5> QED BY <2>1, <2>4, <3>1, <4>3, <5>1, <5>2, <5>3, <3>a, <3>b DEF Older
      <4> QED BY <4>1, <4>2, <4>3
    <3>5. ASSUME NEW e \in Epochs, age'[e] < Retain
          PROVE  e \in Range(retired')
      <4>1. CASE e = epoch
        <5>1. Len(Retire) \in DOMAIN Retire
          BY <3>a, <3>b
        <5> QED BY <2>1, <4>1, <5>1, <3>a DEF Range
      <4>2. CASE e # epoch
        <5>1. age[e] + 1 < Retain
          BY <3>1, <3>5, <4>2 DEF Older
        <5>2. PICK i \in DOMAIN retired : retired[i] = e
          BY <5>1 DEF AgeInv, RetiredByAge, Range
        <5>3. age[e] = Len(retired) - i
          BY <5>2 DEF AgeInv, RetiredByAge
        <5>4. CASE Len(retired) = Retain
          <6>1. i - 1 \in 1 .. Retain - 1
            BY <5>1, <5>2, <5>3, <5>4
          <6>2. Retire[i - 1] = e /\ Len(Retire) = Retain
            BY <2>4, <5>2, <5>4, <6>1, <3>a, <3>b
          <6>3. i - 1 \in DOMAIN Retire
            BY <6>1, <6>2, <3>a, <3>b
          <6> QED BY <2>1, <6>2, <6>3 DEF Range
        <5>5. CASE Len(retired) # Retain
          <6>1. Retire[i] = e /\ i \in DOMAIN Retire
            <7>1. i \in 1 .. Len(retired)
              BY <5>2
            <7>2. Len(Retire) = Len(retired) + 1
              BY <5>5, <3>a
            <7> QED BY <5>2, <5>5, <7>1, <7>2, <3>a, <3>b
          <6> QED BY <2>1, <6>1 DEF Range
        <5> QED BY <5>4, <5>5
      <4> QED BY <4>1, <4>2
    <3> QED BY <2>1, <3>3, <3>4, <3>5 DEF AgeInv, RetiredByAge
  <2> QED BY <2>3, <2>4
<1> QED BY <1>1, <1>2

(***************************************************************************)
(* The list and the ages agree in every behaviour.                         *)
(***************************************************************************)
LEMMA AgeInvariant == HistorySpec => []AgeInv
<1>1. HistoryInit => AgeInv
  BY GateAssumption DEF HistoryInit, GateInit, AgeInv, RetiredByAge
<1>2. HistoryTypeOK /\ AgeInv /\ [HistoryNext]_historyVars => AgeInv'
  <2> SUFFICES ASSUME HistoryTypeOK, AgeInv, [HistoryNext]_historyVars
               PROVE  AgeInv'
    OBVIOUS
  <2>1. ASSUME NEW s \in Sample, Deliver(s)
        PROVE  AgeInv'
    BY <2>1, AgeStep
  <2>2. ASSUME NEW s \in Sample, Drop(s)
        PROVE  AgeInv'
    BY <2>2 DEF Drop, Reject, gateVars, AgeInv, RetiredByAge, Range
  <2>3. CASE UNCHANGED historyVars
    BY <2>3 DEF historyVars, gateVars, AgeInv, RetiredByAge, Range
  <2> QED BY <2>1, <2>2, <2>3 DEF HistoryNext
<1> QED BY <1>1, <1>2, GateTypeCorrect, PTL DEF HistorySpec

(***************************************************************************)
(* The bounded memory is exact, whatever Retain is.                        *)
(***************************************************************************)
THEOREM GateRemembers == HistorySpec => []RetiredByAge
<1>1. AgeInv => RetiredByAge
  BY DEF AgeInv
<1> QED BY <1>1, AgeInvariant, PTL

(***************************************************************************)
(* A step that changes the epoch adopts one of age Retain: never current   *)
(* before, or forgotten after Retain further retirements.                  *)
(***************************************************************************)
THEOREM GateNoEpochReturns == HistorySpec => NoEpochReturns
<1>1. HistoryTypeOK /\ AgeInv /\ [HistoryNext]_historyVars => [epoch' # epoch => age[epoch'] = Retain]_historyVars
  <2> SUFFICES ASSUME HistoryTypeOK, AgeInv, NEW s \in Sample, Deliver(s),
                      epoch' # epoch
               PROVE  age[epoch'] = Retain
    BY DEF HistoryNext, Drop, Reject, historyVars, gateVars
  <2>1. epoch' = s.epoch /\ s.epoch \in Epochs
    BY DEF Deliver, Accept, OpensEpoch, Sample
  <2>2. s.epoch \notin Range(retired)
    BY DEF Deliver, Accept, Accepts, Fresh
  <2>3. age[s.epoch] \in 0 .. Retain
    BY <2>1 DEF HistoryTypeOK
  <2> QED BY <2>1, <2>2, <2>3, GateAssumption DEF AgeInv, RetiredByAge
<1> QED BY <1>1, AgeInvariant, GateTypeCorrect, PTL DEF HistorySpec, NoEpochReturns

(***************************************************************************)
(* Between identified and numbered samples the sequence numbers ascend.    *)
(* That none of them may be unnumbered is needed: see the run              *)
(* pose_gate_unnumbered.                                                   *)
(***************************************************************************)
NumberInv ==
  /\ NumbersAscend
  /\ residency # << >> => timestamp # 0 /\ sequence = residency[Len(residency)].number

(***************************************************************************)
(* NumbersAscend for any delivery, from the invariant above.               *)
(***************************************************************************)
THEOREM GateNumbersAscend == HistorySpec => []NumbersAscend
<1>1. HistoryInit => NumberInv
  BY DEF HistoryInit, GateInit, NumberInv, NumbersAscend
<1>2. HistoryTypeOK /\ NumberInv /\ [HistoryNext]_historyVars => NumberInv'
  <2> SUFFICES ASSUME HistoryTypeOK, NumberInv, [HistoryNext]_historyVars
               PROVE  NumberInv'
    OBVIOUS
  <2> USE GateAssumption DEF HistoryTypeOK, GateTypeOK, NumberInv
  <2>1. ASSUME NEW s \in Sample, Deliver(s)
        PROVE  NumberInv'
    <3>1. /\ timestamp' = s.stamp /\ sequence' = s.number
          /\ s.number \in Nat /\ s.stamp # 0
      BY <2>1 DEF Sample, Deliver, Accept, Accepts
    <3>2. CASE OpensEpoch(s) \/ residency = << >>
      <4>1. residency' = <<s>> \/ residency' = Append(<< >>, s)
        BY <2>1, <3>2 DEF Deliver
      <4>2. Len(residency') = 1 /\ residency'[1] = s /\ DOMAIN residency' = 1 .. 1
        BY <4>1
      <4>3. NumbersAscend'
        BY <4>2 DEF NumbersAscend
      <4> QED BY <3>1, <4>2, <4>3
    <3>3. CASE ~OpensEpoch(s) /\ residency # << >>
      <4> DEFINE n == Len(residency)
      <4>1. /\ residency' = Append(residency, s) /\ n \in Nat \ {0}
            /\ Len(residency') = n + 1 /\ residency' # << >>
            /\ DOMAIN residency = 1 .. n /\ DOMAIN residency' = 1 .. n + 1
            /\ \A i \in 1 .. n : residency'[i] = residency[i]
            /\ residency'[n + 1] = s
        BY <2>1, <3>3 DEF Deliver
      <4>2. s.numbered /\ s.epoch # NoEpoch => s.number > sequence
        <5>1. ~RepeatsNumber(s) /\ sequence \in Nat
          BY <2>1, <3>3 DEF Deliver, Accept, Accepts, Fresh
        <5> QED BY <3>1, <3>3, <5>1 DEF RepeatsNumber
      <4>3. \A i \in 1 .. n : residency[i].number \in Nat
        <5>1. \A i \in 1 .. n : residency[i] \in Sample
          BY <4>1
        <5> QED BY <5>1 DEF Sample
      <4>4. ASSUME NEW i \in 1 .. n + 1, NEW j \in 1 .. n + 1, i < j,
                   Identified(i, j)', Numbered(i, j)'
            PROVE  residency'[i].number < residency'[j].number
        <5>1. i \in 1 .. n /\ i <= n /\ j <= n + 1
          BY <4>1, <4>4
        <5>2. \A k \in i .. j : residency'[k].epoch # NoEpoch /\ residency'[k].numbered
          BY <4>4 DEF Identified, Numbered
        <5>3. CASE j \in 1 .. n
          <6>1. Identified(i, j) /\ Numbered(i, j)
            BY <4>1, <5>1, <5>2, <5>3 DEF Identified, Numbered
          <6> QED BY <4>1, <4>4, <5>1, <5>3, <6>1 DEF NumbersAscend
        <5>4. CASE j = n + 1
          <6>1. s.number > sequence
            BY <4>1, <4>2, <5>1, <5>2, <5>4
          <6>2. CASE i = n
            BY <3>3, <4>1, <5>4, <6>1, <6>2
          <6>3. CASE i < n
            <7>1. Identified(i, n) /\ Numbered(i, n)
              BY <4>1, <5>1, <5>2, <5>4 DEF Identified, Numbered
            <7>2. residency[i].number < sequence
              <8>1. i \in DOMAIN residency /\ n \in DOMAIN residency
                BY <4>1, <5>1
              <8>2. residency[i].number < residency[n].number
                BY <6>3, <7>1, <8>1 DEF NumbersAscend
              <8> QED BY <3>3, <8>2
            <7>3. residency'[i] = residency[i] /\ residency'[j] = s
              BY <4>1, <5>1, <5>4
            <7>4. residency[i].number \in Nat /\ sequence \in Nat
              BY <4>3, <5>1
            <7> QED BY <3>1, <6>1, <7>2, <7>3, <7>4
          <6>4. i = n \/ i < n
            <7>1. n \in Nat /\ i \in 1 .. n
              BY <4>1, <5>1
            <7> HIDE DEF n
            <7> QED BY <7>1
          <6> QED BY <6>2, <6>3, <6>4
        <5> QED BY <4>1, <5>3, <5>4
      <4>5. NumbersAscend'
        BY <4>1, <4>4 DEF NumbersAscend
      <4> QED BY <3>1, <4>1, <4>5
    <3> QED BY <3>2, <3>3
  <2>2. ASSUME NEW s \in Sample, Drop(s)
        PROVE  NumberInv'
    BY <2>2 DEF Drop, Reject, gateVars, NumbersAscend, Identified, Numbered
  <2>3. CASE UNCHANGED historyVars
    BY <2>3 DEF historyVars, gateVars, NumbersAscend, Identified, Numbered
  <2> QED BY <2>1, <2>2, <2>3 DEF HistoryNext
<1>3. NumberInv => NumbersAscend
  BY DEF NumberInv
<1> QED BY <1>1, <1>2, <1>3, GateTypeCorrect, PTL DEF HistorySpec

------------------------------------------------------------------------------
Moment == Nat \cup {Never}
Heard == [time : Nat, ok : BOOLEAN]

(***************************************************************************)
(* One more sample is one more of its verdict.                             *)
(***************************************************************************)
LEMMA CountedAppend ==
  ASSUME NEW s \in Seq(Heard), NEW x \in Heard, NEW ok \in BOOLEAN
  PROVE  /\ Counted(s, ok) \in Nat
         /\ Counted(Append(s, x), ok) = Counted(s, ok) + IF x.ok = ok THEN 1 ELSE 0
<1> DEFINE n == Len(s)
           S == {i \in DOMAIN s : s[i].ok = ok}
           t == Append(s, x)
           T == {i \in DOMAIN t : t[i].ok = ok}
<1>1. /\ n \in Nat /\ DOMAIN s = 1 .. n /\ DOMAIN t = 1 .. n + 1
      /\ \A i \in 1 .. n : t[i] = s[i]
      /\ t[n + 1] = x
  BY LenProperties, AppendProperties
<1>2. IsFiniteSet(S)
  <2>1. IsFiniteSet(1 .. n)
    BY <1>1, FS_Interval
  <2>2. S \subseteq 1 .. n
    BY <1>1
  <2> QED BY <2>1, <2>2, FS_Subset
<1>3. Cardinality(S) \in Nat
  BY <1>2, FS_CardinalityType
<1>4. n + 1 \notin S
  BY <1>1
<1>5. CASE x.ok = ok
  <2>1. T = S \cup {n + 1}
    <3>1. ASSUME NEW i
          PROVE  i \in T <=> i \in S \cup {n + 1}
      <4>1. i \in 1 .. n + 1 <=> (i \in 1 .. n \/ i = n + 1)
        BY <1>1
      <4> QED BY <1>1, <1>5, <4>1
    <3> QED BY <3>1
  <2>2. Cardinality(T) = Cardinality(S) + 1
    BY <1>2, <1>4, <2>1, FS_AddElement
  <2> QED BY <1>3, <1>5, <2>2 DEF Counted
<1>6. CASE x.ok # ok
  <2>1. T = S
    <3>1. ASSUME NEW i
          PROVE  i \in T <=> i \in S
      <4>1. i \in 1 .. n + 1 <=> (i \in 1 .. n \/ i = n + 1)
        BY <1>1
      <4> QED BY <1>1, <1>6, <4>1
    <3> QED BY <3>1
  <2>2. Counted(Append(s, x), ok) = Counted(s, ok) /\ Counted(s, ok) \in Nat
    BY <1>3, <2>1 DEF Counted
  <2>3. (IF x.ok = ok THEN 1 ELSE 0) = 0
    BY <1>6
  <2> HIDE DEF S, T, t
  <2> QED BY <2>2, <2>3
<1> QED BY <1>5, <1>6

(***************************************************************************)
(* Nothing heard, nothing counted.                                         *)
(***************************************************************************)
LEMMA CountedEmpty == \A ok \in BOOLEAN : Counted(<< >>, ok) = 0
<1>1. \A ok \in BOOLEAN : {i \in DOMAIN << >> : << >>[i].ok = ok} = {}
  BY EmptySeq
<1> QED BY <1>1, FS_EmptySet DEF Counted

(***************************************************************************)
(* The counters of the code are those of what was heard, its last_report   *)
(* the latest report, its healthy_since no later than any run of accepted  *)
(* samples that still lasts, and what it remembers of a failure is what a  *)
(* recovery is owed.                                                       *)
(***************************************************************************)
Lasting(i) == \A k \in i .. Len(heard) : heard[k].ok

DiagnosticsInv ==
  /\ now \in Nat /\ accepted \in Nat /\ rejected \in Nat
  /\ heard \in Seq(Heard)
  /\ accepted = Counted(heard, TRUE) /\ rejected = Counted(heard, FALSE)
  /\ reports \in Seq(Nat)
  /\ IF reports = << >> THEN last_report = Never
                        ELSE last_report = reports[Len(reports)] /\ last_report <= now
  /\ healthy_since \in Moment /\ lastRejected \in Moment
  /\ healthy_since # Never => healthy_since <= now
  /\ lastRejected # Never => lastRejected <= now
  /\ (lastRejected # Never /\ healthy_since # Never) => lastRejected <= healthy_since
  /\ \A i \in DOMAIN heard :
       Lasting(i) => healthy_since # Never /\ healthy_since <= heard[i].time
  /\ failure_pending \in BOOLEAN /\ deserved = failure_pending
  /\ deserved => lastRejected # Never

ReportInv == CountsExact /\ ReportsSpaced /\ NothingWithheld /\ RecoveryIsReal

(***************************************************************************)
(* With nothing heard and nothing reported, nothing is owed.               *)
(***************************************************************************)
LEMMA DiagnosticsFresh ==
  ASSUME now' \in Nat, last_report' = Never, healthy_since' = Never,
         accepted' = 0, rejected' = 0, failure_pending' = FALSE, report' = Silence,
         lastRejected' = Never, deserved' = FALSE, heard' = << >>, reports' = << >>
  PROVE  DiagnosticsInv' /\ ReportInv'
<1>1. /\ heard' \in Seq(Heard) /\ reports' \in Seq(Nat)
      /\ DOMAIN heard' = {} /\ Len(reports') = 0
  BY EmptySeq
<1>2. Counted(heard', TRUE) = 0 /\ Counted(heard', FALSE) = 0
  BY CountedEmpty
<1>3. DiagnosticsInv'
  BY <1>1, <1>2 DEF DiagnosticsInv, Moment
<1>4. ReportInv'
  BY <1>1 DEF ReportInv, CountsExact, ReportsSpaced, NothingWithheld, RecoveryIsReal, Silence
<1> QED BY <1>3, <1>4

(***************************************************************************)
(* Initially nothing is counted and no recovery is owed.                   *)
(***************************************************************************)
LEMMA DiagnosticsInvInit == Init => DiagnosticsInv /\ ReportInv
<1> SUFFICES ASSUME Init
             PROVE  DiagnosticsInv /\ ReportInv
  OBVIOUS
<1>1. /\ heard \in Seq(Heard) /\ reports \in Seq(Nat)
      /\ DOMAIN heard = {} /\ Len(reports) = 0
  BY EmptySeq DEF Init, DiagnosticsInit
<1>2. Counted(heard, TRUE) = 0 /\ Counted(heard, FALSE) = 0
  BY CountedEmpty DEF Init, DiagnosticsInit
<1>3. DiagnosticsInv
  BY <1>1, <1>2 DEF Init, DiagnosticsInit, DiagnosticsInv, Moment
<1>4. ReportInv
  BY <1>1 DEF Init, DiagnosticsInit, ReportInv, CountsExact, ReportsSpaced,
              NothingWithheld, RecoveryIsReal, Silence
<1> QED BY <1>3, <1>4

(***************************************************************************)
(* One call of Observe.                                                    *)
(***************************************************************************)
LEMMA DiagnosticsObserve ==
  ASSUME DiagnosticsInv, ReportInv, NEW ok \in BOOLEAN, Observe(ok), UNCHANGED now
  PROVE  DiagnosticsInv' /\ ReportInv'
<1> USE ClockAssumption, DiagnosticsAssumption
<1> DEFINE reported == Due(ok) /\ (ok => Recovered(ok))
           x == [time |-> now, ok |-> ok]
           samples == Append(heard, x)
           n == Len(heard)
<1>1. /\ healthy_since' = IF ~ok THEN Never
                          ELSE IF healthy_since = Never THEN now ELSE healthy_since
      /\ lastRejected' = IF ok THEN lastRejected ELSE now
      /\ last_report' = IF reported THEN now ELSE last_report
  BY DEF Observe, HealthySince
<1>2. /\ healthy_since' \in Moment /\ lastRejected' \in Moment
      /\ healthy_since' # Never => healthy_since' <= now'
      /\ lastRejected' # Never => lastRejected' <= now'
      /\ (lastRejected' # Never /\ healthy_since' # Never) => lastRejected' <= healthy_since'
  BY <1>1 DEF DiagnosticsInv, Moment
<1>a. x \in Heard /\ x.time = now /\ x.ok = ok
  BY DEF DiagnosticsInv, Heard
<1>b. /\ samples \in Seq(Heard) /\ n \in Nat /\ Len(samples) = n + 1
      /\ DOMAIN samples = 1 .. n + 1 /\ DOMAIN heard = 1 .. n
      /\ \A i \in 1 .. n : samples[i] = heard[i]
      /\ samples[n + 1] = x
  BY <1>a, LenProperties, AppendProperties DEF DiagnosticsInv
<1>c. /\ Counted(samples, TRUE) = accepted + IF ok THEN 1 ELSE 0
      /\ Counted(samples, FALSE) = rejected + IF ok THEN 0 ELSE 1
  BY <1>a, CountedAppend DEF DiagnosticsInv
<1>d. /\ heard' = IF reported THEN << >> ELSE samples
      /\ reports' = IF reported THEN Append(reports, now) ELSE reports
  BY DEF Observe
<1>3. /\ accepted' = IF reported THEN 0 ELSE accepted + IF ok THEN 1 ELSE 0
      /\ rejected' = IF reported THEN 0 ELSE rejected + IF ok THEN 0 ELSE 1
  BY DEF Observe, Kept
<1> HIDE DEF x, samples
<1>4. heard' \in Seq(Heard)
  BY <1>b, <1>d, EmptySeq
<1>5. /\ accepted' \in Nat /\ rejected' \in Nat
      /\ accepted' = Counted(heard', TRUE) /\ rejected' = Counted(heard', FALSE)
  <2>1. CASE reported
    BY <1>3, <1>d, <2>1, CountedEmpty
  <2>2. CASE ~reported
    <3>1. accepted' = Counted(heard', TRUE) /\ rejected' = Counted(heard', FALSE)
      <4> HIDE DEF reported
      <4> QED BY <1>3, <1>c, <1>d, <2>2
    <3>2. accepted' \in Nat /\ rejected' \in Nat
      <4>1. accepted \in Nat /\ rejected \in Nat
        BY DEF DiagnosticsInv
      <4> HIDE DEF reported
      <4> QED BY <1>3, <2>2, <4>1
    <3> QED BY <3>1, <3>2
  <2> QED BY <2>1, <2>2
<1>6. /\ failure_pending' = ((failure_pending \/ ~ok) /\ ~(reported /\ ok))
      /\ deserved' = ((deserved \/ ~ok) /\ ~(reported /\ ok))
  BY DEF Observe, Pending
<1>7. /\ failure_pending' \in BOOLEAN /\ deserved' = failure_pending'
      /\ deserved' => lastRejected' # Never
  BY <1>1, <1>6 DEF DiagnosticsInv
<1>8. /\ reports' \in Seq(Nat)
      /\ IF reports' = << >> THEN last_report' = Never
                             ELSE last_report' = reports'[Len(reports')] /\ last_report' <= now'
      /\ ReportsSpaced'
  <2>1. CASE ~reported
    BY <1>1, <1>d, <2>1 DEF DiagnosticsInv, ReportInv, ReportsSpaced
  <2>2. CASE reported
    <3> DEFINE m == Len(reports)
    <3>1. /\ reports' \in Seq(Nat) /\ reports' # << >>
          /\ m \in Nat /\ Len(reports') = m + 1
          /\ \A i \in 1 .. m : reports'[i] = reports[i]
          /\ reports'[m + 1] = now
      BY <1>d, <2>2, LenProperties, AppendProperties DEF DiagnosticsInv
    <3>2. ASSUME NEW i \in 1 .. m
          PROVE  reports'[i + 1] - reports'[i] >= Period
      <4>1. CASE i = m
        <5>1. reports # << >>
          BY <3>2, <4>1, EmptySeq
        <5>2. reports[m] = last_report /\ last_report \in Nat
          BY <3>2, <4>1, <5>1, ElementOfSeq DEF DiagnosticsInv
        <5>3. now - last_report >= Period
          BY <2>2, <5>2 DEF Due, Elapsed
        <5> QED BY <3>1, <4>1, <5>2, <5>3
      <4>2. CASE i # m
        <5>1. i \in 1 .. m - 1 /\ i + 1 \in 1 .. m
          BY <3>1, <4>2
        <5> QED BY <3>1, <5>1 DEF ReportInv, ReportsSpaced
      <4> QED BY <4>1, <4>2
    <3>3. ReportsSpaced'
      BY <3>1, <3>2 DEF ReportsSpaced
    <3> QED BY <1>1, <2>2, <3>1, <3>3 DEF DiagnosticsInv
  <2> QED BY <2>1, <2>2
<1>9. ASSUME NEW i \in DOMAIN heard', Lasting(i)'
      PROVE  healthy_since' # Never /\ healthy_since' <= heard'[i].time
  <2>1. ~reported /\ heard' = samples
    BY <1>9, <1>d, EmptySeq
  <2>2. i \in 1 .. n + 1 /\ \A k \in i .. n + 1 : samples[k].ok
    BY <1>9, <1>b, <2>1 DEF Lasting
  <2>3. ok
    BY <1>a, <1>b, <2>2
  <2>4. CASE i = n + 1
    BY <1>1, <1>a, <1>b, <2>1, <2>3, <2>4 DEF DiagnosticsInv, Moment
  <2>5. CASE i \in 1 .. n
    <3>1. Lasting(i)
      <4> SUFFICES ASSUME NEW k \in i .. Len(heard)
                   PROVE  heard[k].ok
        BY DEF Lasting
      <4>1. k \in 1 .. n /\ k \in i .. n + 1
        BY <1>b, <2>5
      <4> QED BY <1>b, <2>2, <4>1
    <3>2. healthy_since # Never /\ healthy_since <= heard[i].time
      BY <1>b, <2>5, <3>1 DEF DiagnosticsInv
    <3> QED BY <1>1, <1>b, <2>1, <2>3, <2>5, <3>2
  <2> QED BY <1>b, <2>2, <2>4, <2>5
<1>10. DiagnosticsInv'
  BY <1>2, <1>4, <1>5, <1>7, <1>8, <1>9 DEF DiagnosticsInv
<1>11. NothingWithheld'
  <2> SUFFICES ASSUME heard' # << >>, deserved'
               PROVE  \/ reports' # << >> /\ Latest(heard').time - Latest(reports') < Period
                      \/ Settling'
    BY DEF NothingWithheld
  <2>1. ~reported /\ heard' = samples /\ reports' = reports
    BY <1>d
  <2>2. Latest(heard') = x /\ Latest(heard').time = now /\ Latest(heard').ok = ok
    BY <1>a, <1>b, <2>1 DEF Latest
  <2>3. failure_pending \/ ~ok
    BY <1>6 DEF DiagnosticsInv
  <2>4. CASE ~Elapsed(last_report, Period)
    <3>1. last_report # Never /\ ~(now - last_report >= Period)
      BY <2>4 DEF Elapsed
    <3>2. reports # << >> /\ last_report = reports[Len(reports)]
      BY <3>1 DEF DiagnosticsInv
    <3>3. Len(reports) \in 1 .. Len(reports)
      BY <3>2, EmptySeq, LenProperties DEF DiagnosticsInv
    <3>4. last_report \in Nat
      BY <3>2, <3>3, ElementOfSeq DEF DiagnosticsInv
    <3>5. now - last_report < Period
      BY <3>1, <3>4 DEF DiagnosticsInv
    <3> QED BY <2>1, <2>2, <3>2, <3>5 DEF Latest
  <2>5. CASE Elapsed(last_report, Period)
    <3>1. ok /\ ~Recovered(ok)
      BY <2>1, <2>3, <2>5 DEF Due
    <3>2. healthy_since' \in Nat /\ now - healthy_since' < Settled
      BY <1>1, <1>2, <3>1 DEF Recovered, HealthySince, DiagnosticsInv, Moment
    <3>3. ASSUME NEW i \in DOMAIN heard', Lasting(i)'
          PROVE  now - heard'[i].time < Settled
      <4>1. healthy_since' <= heard'[i].time
        BY <1>9, <3>3
      <4>2. heard'[i] \in Heard
        BY <1>4, <3>3
      <4>3. heard'[i].time \in Nat /\ now \in Nat
        BY <4>2 DEF DiagnosticsInv, Heard
      <4>4. \A a, b, c, d \in Nat : a - b < d /\ b <= c => a - c < d
        OBVIOUS
      <4> QED BY <3>2, <4>1, <4>3, <4>4
    <3> QED BY <2>2, <3>1, <3>3 DEF Settling, Lasting
  <2> QED BY <2>4, <2>5
<1>12. CASE ~reported
  <2>1. report' = Silence
    BY <1>12 DEF Observe
  <2> QED BY <1>8, <1>10, <1>11, <2>1 DEF ReportInv, CountsExact, RecoveryIsReal, Silence
<1>13. CASE reported
  <2>1. /\ report'.accepted = accepted + IF ok THEN 1 ELSE 0
        /\ report'.rejected = rejected + IF ok THEN 0 ELSE 1
        /\ report'.samples = samples
        /\ report'.deserved = deserved
        /\ report'.kind = IF ok THEN "resumed" ELSE "rejected"
    BY <1>13 DEF Observe, x, samples
  <2>2. CountsExact'
    BY <1>c, <2>1 DEF CountsExact
  <2>4. RecoveryIsReal'
    <3> SUFFICES ASSUME report'.kind = "resumed"
                 PROVE  report'.deserved /\ now' - lastRejected' >= Settled
      BY DEF RecoveryIsReal
    <3>1. ok = TRUE
      BY <2>1
    <3>2. failure_pending /\ deserved
      BY <1>13, <3>1 DEF Due, DiagnosticsInv
    <3>3. lastRejected \in Nat /\ lastRejected' = lastRejected
      BY <1>1, <3>1, <3>2 DEF DiagnosticsInv, Moment
    <3>4. now - healthy_since' >= Settled /\ healthy_since' \in Nat
      BY <1>1, <1>2, <1>13, <3>1 DEF Recovered, HealthySince, DiagnosticsInv, Moment
    <3>5. lastRejected' <= healthy_since'
      BY <1>2, <3>3, <3>4
    <3>6. now' = now /\ now \in Nat /\ lastRejected' \in Nat
      BY <3>3 DEF DiagnosticsInv
    <3>7. \A a, b, c, d \in Nat : a - b >= d /\ c <= b => a - c >= d
      OBVIOUS
    <3>8. now - lastRejected' >= Settled
      BY <3>4, <3>5, <3>6, <3>7
    <3> QED BY <2>1, <3>2, <3>6, <3>8
  <2> QED BY <1>8, <1>10, <1>11, <2>2, <2>4 DEF ReportInv
<1> QED BY <1>12, <1>13

(***************************************************************************)
(* Samples, time, Start and Stop keep the counters true.                   *)
(***************************************************************************)
LEMMA DiagnosticsInvStep ==
  DiagnosticsInv /\ ReportInv /\ [Next]_vars => DiagnosticsInv' /\ ReportInv'
<1> SUFFICES ASSUME DiagnosticsInv, ReportInv, [Next]_vars
             PROVE  DiagnosticsInv' /\ ReportInv'
  OBVIOUS
<1> USE ClockAssumption
<1>1. ASSUME NEW p \in Poses, NEW ok \in BOOLEAN, Odometry(p, ok)
      PROVE  DiagnosticsInv' /\ ReportInv'
  BY <1>1, DiagnosticsObserve DEF Odometry
<1>2. CASE Start
  BY <1>2, DiagnosticsFresh DEF Start, NewDiagnostics, DiagnosticsInv
<1>3. CASE Wait
  <2>1. /\ now' = now + 1 /\ report' = Silence
        /\ UNCHANGED <<last_report, healthy_since, accepted, rejected, failure_pending,
                       lastRejected, deserved, heard, reports>>
    BY <1>3 DEF Wait, Tick
  <2>2. IF reports' = << >> THEN last_report' = Never
                            ELSE last_report' = reports'[Len(reports')] /\ last_report' <= now'
    <3>1. CASE reports # << >>
      <4>1. Len(reports) \in 1 .. Len(reports)
        BY <3>1, EmptySeq, LenProperties DEF DiagnosticsInv
      <4>2. last_report \in Nat
        BY <3>1, <4>1, ElementOfSeq DEF DiagnosticsInv
      <4> QED BY <2>1, <3>1, <4>2 DEF DiagnosticsInv
    <3>2. CASE reports = << >>
      BY <2>1, <3>2 DEF DiagnosticsInv
    <3> QED BY <3>1, <3>2
  <2>3. \A i \in DOMAIN heard' :
          Lasting(i)' => healthy_since' # Never /\ healthy_since' <= heard'[i].time
    <3>1. heard' = heard /\ healthy_since' = healthy_since
      BY <2>1
    <3> QED BY <3>1 DEF DiagnosticsInv, Lasting
  <2>4. DiagnosticsInv'
    <3>1. /\ now' \in Nat
          /\ healthy_since' # Never => healthy_since' <= now'
          /\ lastRejected' # Never => lastRejected' <= now'
      BY <2>1 DEF DiagnosticsInv, Moment
    <3>2. /\ accepted' = accepted /\ rejected' = rejected /\ heard' = heard
          /\ reports' = reports /\ last_report' = last_report
          /\ healthy_since' = healthy_since /\ lastRejected' = lastRejected
          /\ failure_pending' = failure_pending /\ deserved' = deserved
      BY <2>1
    <3> QED BY <2>2, <2>3, <3>1, <3>2 DEF DiagnosticsInv
  <2> QED BY <2>1, <2>4 DEF ReportInv, CountsExact, ReportsSpaced, NothingWithheld,
                            Settling, RecoveryIsReal, Silence
<1>4. CASE Stop \/ UNCHANGED vars
  <2>1. UNCHANGED <<now, diagnosticsVars>>
    BY <1>4 DEF Stop, vars
  <2>2. DiagnosticsInv'
    BY <2>1 DEF diagnosticsVars, DiagnosticsInv, Lasting
  <2> QED BY <2>1, <2>2 DEF diagnosticsVars, ReportInv, CountsExact, ReportsSpaced,
                            NothingWithheld, Settling, RecoveryIsReal
<1> QED BY <1>1, <1>2, <1>3, <1>4 DEF Next

(***************************************************************************)
(* The counts of every report are those of all samples since the report    *)
(* before it.                                                              *)
(***************************************************************************)
THEOREM ReportsCountAll == Spec => []CountsExact
BY DiagnosticsInvInit, DiagnosticsInvStep, PTL DEF Spec, ReportInv

(***************************************************************************)
(* A recovery is announced only after a failure and Settled seconds        *)
(* without another one.                                                    *)
(***************************************************************************)
THEOREM RecoveriesAreReal == Spec => []RecoveryIsReal
BY DiagnosticsInvInit, DiagnosticsInvStep, PTL DEF Spec, ReportInv

-----------------------------------------------------------------------------
(***************************************************************************)
(* The rate of the path: last is the time of the last one published, and   *)
(* the latest odometry is not of the future.                               *)
(***************************************************************************)
RateInv ==
  /\ now \in Nat
  /\ path \in Seq(Poses) /\ received \in Seq(Poses)
  /\ sent \in Seq(Nat \X Seq(Poses))
  /\ received = << >> => path = << >> /\ sent = << >>
  /\ received # << >> => sent # << >> /\ sent[1][2] = <<received[1]>>
  /\ IF sent = << >> THEN last = Never
                     ELSE last = sent[Len(sent)][1] /\ last <= now
  /\ received # << >> => sent[Len(sent)][2] = path \/ arrived - last < PathPeriod
  /\ \A i \in 1 .. Len(sent) - 1 : sent[i + 1][1] - sent[i][1] >= PathPeriod

(***************************************************************************)
(* AppendVioOdometryToPath returns a path, which begins with p after a     *)
(* break.                                                                  *)
(***************************************************************************)
LEMMA AppendedShape ==
  ASSUME path \in Seq(Poses), NEW p \in Poses
  PROVE  /\ Appended(p) \in Seq(Poses)
         /\ path = << >> => Appended(p) = <<p>>
<1> DEFINE before == IF Broken(p) THEN << >> ELSE path
           q == Append(before, p)
<1>1. before \in Seq(Poses)
  BY EmptySeq
<1>2. q \in Seq(Poses) /\ q # << >> /\ Len(q) = Len(before) + 1
  BY <1>1, AppendProperties
<1>3. Tail(q) \in Seq(Poses)
  BY <1>2, HeadTailProperties
<1>4. Appended(p) = IF Len(q) > MaxPoses THEN Tail(q) ELSE q
  BY DEF Appended
<1>5. ASSUME path = << >>
      PROVE  Appended(p) = <<p>>
  <2>1. before = << >> /\ Len(before) = 0
    BY <1>5, EmptySeq
  <2>2. Append(<< >>, p) = <<p>>
    OBVIOUS
  <2>3. q = <<p>>
    BY <2>1, <2>2, Zenon
  <2>4. Len(q) = 1
    BY <2>3
  <2> QED BY <1>4, <2>3, <2>4, VioPathAssumption
<1> QED BY <1>2, <1>3, <1>4, <1>5

(***************************************************************************)
(* A sample publishes the path only when a period has passed.              *)
(***************************************************************************)
LEMMA RateReceive ==
  ASSUME RateInv, NEW p \in Poses, Receive(p), UNCHANGED now
  PROVE  RateInv'
<1> USE ClockAssumption, VioPathAssumption
<1>1. /\ path' \in Seq(Poses) /\ path' = Appended(p)
      /\ received' \in Seq(Poses) /\ received' # << >>
      /\ received = << >> => received'[1] = p
      /\ received # << >> => received'[1] = received[1]
  <2>1. path' \in Seq(Poses) /\ path' = Appended(p)
    BY AppendedShape DEF Receive, RateInv
  <2>2. /\ received' \in Seq(Poses) /\ received' # << >>
        /\ \A i \in 1 .. Len(received) : received'[i] = received[i]
        /\ received'[Len(received) + 1] = p
    <3>1. received' = Append(received, p) /\ received \in Seq(Poses)
      BY DEF Receive, RateInv
    <3> QED BY <3>1, AppendProperties
  <2>3. received = << >> => Len(received) = 0
    BY EmptySeq
  <2>4. received # << >> => 1 \in 1 .. Len(received)
    BY EmptySeq DEF RateInv
  <2> QED BY <2>1, <2>2, <2>3, <2>4
<1>2. CASE ~PathDue
  <2>1. UNCHANGED <<last, sent>>
    BY <1>2 DEF Receive
  <2>2. received # << >>
    BY <1>2 DEF PathDue, Elapsed, RateInv
  <2>3. sent # << >> /\ last = sent[Len(sent)][1]
    BY <2>2 DEF RateInv
  <2>4. last \in Nat
    <3>1. Len(sent) \in 1 .. Len(sent)
      BY <2>3, EmptySeq, LenProperties DEF RateInv
    <3> QED BY <2>3, <3>1, ElementOfSeq DEF RateInv
  <2>5. arrived' - last' < PathPeriod
    <3>1. arrived' = now /\ last' = last /\ last # Never
      BY <2>1, <2>4 DEF Receive
    <3>2. ~(now - last >= PathPeriod)
      BY <1>2, <3>1 DEF PathDue, Elapsed
    <3> QED BY <2>4, <3>1, <3>2 DEF RateInv
  <2> QED BY <1>1, <2>1, <2>2, <2>5 DEF RateInv
<1>3. CASE PathDue
  <2> DEFINE one == <<now, Appended(p)>>
  <2>1. last' = now /\ sent' = Append(sent, one)
    BY <1>3 DEF Receive
  <2>2. one \in Nat \X Seq(Poses) /\ one[1] = now /\ one[2] = Appended(p)
    BY <1>1 DEF RateInv
  <2>3. /\ sent' \in Seq(Nat \X Seq(Poses)) /\ sent' # << >>
        /\ Len(sent') = Len(sent) + 1 /\ Len(sent) \in Nat
        /\ \A i \in 1 .. Len(sent) : sent'[i] = sent[i]
        /\ sent'[Len(sent) + 1] = one
    <3> DEFINE Sent == Nat \X Seq(Poses)
    <3>1. sent \in Seq(Sent) /\ one \in Sent
      BY <2>2 DEF RateInv
    <3> HIDE DEF Sent, one
    <3>2. /\ Append(sent, one) \in Seq(Sent) /\ Append(sent, one) # << >>
          /\ Len(Append(sent, one)) = Len(sent) + 1 /\ Len(sent) \in Nat
          /\ \A i \in 1 .. Len(sent) : Append(sent, one)[i] = sent[i]
          /\ Append(sent, one)[Len(sent) + 1] = one
      BY <3>1, AppendProperties, LenProperties
    <3> QED BY <2>1, <3>2 DEF Sent
  <2> HIDE DEF one
  <2>4. sent'[1][2] = <<received'[1]>>
    <3>1. CASE received = << >>
      <4>1. sent = << >> /\ path = << >>
        BY <3>1 DEF RateInv
      <4>2. Len(sent) = 0
        BY <4>1, EmptySeq
      <4>3. Appended(p) = <<p>>
        BY <4>1, AppendedShape DEF RateInv
      <4> QED BY <1>1, <2>2, <2>3, <3>1, <4>2, <4>3
    <3>2. CASE received # << >>
      <4>1. sent # << >> /\ sent[1][2] = <<received[1]>>
        BY <3>2 DEF RateInv
      <4>2. 1 \in 1 .. Len(sent)
        BY <4>1, EmptySeq DEF RateInv
      <4> QED BY <1>1, <2>3, <3>2, <4>1, <4>2
    <3> QED BY <3>1, <3>2
  <2>5. last' = sent'[Len(sent')][1] /\ last' <= now'
    BY <2>1, <2>2, <2>3 DEF RateInv
  <2>6. ASSUME NEW i \in 1 .. Len(sent') - 1
        PROVE  sent'[i + 1][1] - sent'[i][1] >= PathPeriod
    <3>1. CASE i = Len(sent)
      <4>1. sent'[i + 1][1] = now /\ sent'[i] = sent[Len(sent)]
        BY <2>2, <2>3, <2>6, <3>1
      <4>2. sent # << >>
        BY <2>3, <2>6, <3>1, EmptySeq
      <4>3. last = sent[Len(sent)][1] /\ last <= now
        BY <4>2 DEF RateInv
      <4>4. last \in Nat
        BY <2>3, <2>6, <3>1, <4>3, ElementOfSeq DEF RateInv
      <4>5. now - last >= PathPeriod
        BY <1>3, <4>3, <4>4 DEF PathDue, Elapsed, RateInv
      <4> QED BY <4>1, <4>3, <4>5
    <3>2. CASE i # Len(sent)
      <4>1. /\ i \in 1 .. Len(sent) - 1
            /\ sent'[i + 1] = sent[i + 1] /\ sent'[i] = sent[i]
        <5>1. Len(sent) \in Nat /\ Len(sent') = Len(sent) + 1
          BY <2>3
        <5>2. i \in 1 .. Len(sent) - 1 /\ i + 1 \in 1 .. Len(sent) /\ i \in 1 .. Len(sent)
          BY <5>1, <2>6, <3>2
        <5> QED BY <5>2, <2>3
      <4> QED BY <4>1 DEF RateInv
    <3> QED BY <3>1, <3>2
  <2>7. sent'[Len(sent')][2] = path'
    BY <1>1, <2>2, <2>3
  <2> QED BY <1>1, <2>3, <2>4, <2>5, <2>6, <2>7 DEF RateInv
<1> QED BY <1>2, <1>3

(***************************************************************************)
(* Every step keeps the publications of the path a period apart.           *)
(***************************************************************************)
LEMMA RateInvStep == RateInv /\ [Next]_vars => RateInv'
<1> SUFFICES ASSUME RateInv, [Next]_vars
             PROVE  RateInv'
  OBVIOUS
<1>1. ASSUME NEW p \in Poses, NEW ok \in BOOLEAN, Odometry(p, ok)
      PROVE  RateInv'
  <2>1. CASE Receive(p)
    BY <1>1, <2>1, RateReceive DEF Odometry
  <2>2. CASE Refuse(p)
    BY <1>1, <2>2 DEF Odometry, Refuse, pathVars, RateInv
  <2> QED BY <1>1, <2>1, <2>2 DEF Odometry
<1>2. CASE Start \/ Stop
  <2>1. /\ path' = << >> /\ last' = Never /\ received' = << >> /\ sent' = << >>
        /\ UNCHANGED now
    BY <1>2 DEF Start, Stop, NewPath
  <2>2. << >> \in Seq(Poses) /\ << >> \in Seq(Nat \X Seq(Poses)) /\ Len(<< >>) = 0
    BY EmptySeq
  <2> QED BY <2>1, <2>2 DEF RateInv
<1>3. CASE Wait
  <2>1. now' = now + 1 /\ UNCHANGED pathVars
    BY <1>3 DEF Wait, Tick, pathVars
  <2>2. IF sent' = << >> THEN last' = Never
                         ELSE last' = sent'[Len(sent')][1] /\ last' <= now'
    <3>1. CASE sent = << >>
      BY <2>1, <3>1 DEF RateInv, pathVars
    <3>2. CASE sent # << >>
      <4>1. last = sent[Len(sent)][1] /\ last <= now
        BY <3>2 DEF RateInv
      <4>2. Len(sent) \in 1 .. Len(sent)
        BY <3>2, EmptySeq DEF RateInv
      <4>3. last \in Nat
        BY <4>1, <4>2, ElementOfSeq DEF RateInv
      <4> QED BY <2>1, <3>2, <4>1, <4>3 DEF RateInv, pathVars
    <3> QED BY <3>1, <3>2
  <2> QED BY <2>1, <2>2 DEF RateInv, pathVars
<1>4. CASE UNCHANGED vars
  BY <1>4 DEF vars, pathVars, RateInv
<1> QED BY <1>1, <1>2, <1>3, <1>4 DEF Next

(***************************************************************************)
(* Since the last Start the reports are a period apart, and since the last *)
(* Start or Stop the paths one publishing period, and neither is withheld  *)
(* longer than that, for every period, settling time and course of         *)
(* samples.                                                                *)
(***************************************************************************)
THEOREM OutputsPaced == Spec => []Paced
<1>1. Init => RateInv
  <2>1. << >> \in Seq(Poses) /\ << >> \in Seq(Nat \X Seq(Poses)) /\ Len(<< >>) = 0
    BY EmptySeq
  <2> QED BY <2>1 DEF Init, PathInit, RateInv
<1>2. RateInv /\ ReportInv => Paced
  <2>1. RateInv => RateKept
    <3> SUFFICES ASSUME RateInv
                 PROVE  RateKept
      OBVIOUS
    <3>1. ASSUME received # << >>
          PROVE  sent[Len(sent)][2] = path \/ arrived - sent[Len(sent)][1] < PathPeriod
      <4>1. last = sent[Len(sent)][1]
        BY <3>1 DEF RateInv
      <4> QED BY <3>1, <4>1 DEF RateInv
    <3> QED BY <3>1 DEF RateInv, RateKept
  <2> QED BY <2>1 DEF ReportInv, Paced
<1> QED BY <1>1, <1>2, RateInvStep, DiagnosticsInvInit, DiagnosticsInvStep, PTL DEF Spec

-----------------------------------------------------------------------------
(***************************************************************************)
(* PathIsLongestRun, place by place.  It is inductive in this form: the    *)
(* path begins at place i of what was received, because it is full or      *)
(* because of a break just before i.                                       *)
(***************************************************************************)
Follows(p, q) == p.frame = q.frame /\ p.stamp <= q.stamp

RunFrom(i) ==
  /\ Len(path) = Len(received) - i + 1
  /\ \A k \in 1 .. Len(path) : path[k] = received[i + k - 1]
  /\ i > 1 => Len(path) = MaxPoses \/ ~Follows(received[i - 1], received[i])

RunInv ==
  /\ path \in Seq(Poses) /\ received \in Seq(Poses)
  /\ Len(path) <= MaxPoses /\ OneRun(path)
  /\ received = << >> => path = << >>
  /\ received # << >> => \E i \in 1 .. Len(received) : RunFrom(i)

(***************************************************************************)
(* A sample extends the run, or begins one, and the limit cuts it at its   *)
(* old end.                                                                *)
(***************************************************************************)
LEMMA RunReceive ==
  ASSUME RunInv, NEW p \in Poses, Receive(p)
  PROVE  RunInv'
<1> USE VioPathAssumption
<1>1. PICK n \in Nat : n = Len(received)
  BY LenProperties DEF RunInv
<1>2. PICK m \in Nat : m = Len(path)
  BY LenProperties DEF RunInv
<1>3. /\ received' \in Seq(Poses) /\ received' # << >> /\ Len(received') = n + 1
      /\ \A k \in 1 .. n : received'[k] = received[k]
      /\ received'[n + 1] = p
  <2>1. received' = Append(received, p) /\ received \in Seq(Poses)
    BY DEF Receive, RunInv
  <2> QED BY <1>1, <2>1, AppendProperties
<1>4. path \in Seq(Poses) /\ m <= MaxPoses /\ path' = Appended(p)
  BY <1>2 DEF RunInv, Receive
<1>5. \A k \in 1 .. m : path[k] \in Poses
  BY <1>2, <1>4, ElementOfSeq
<1>6. CASE path = << >> \/ Broken(p)
  <2>1. Append(<< >>, p) = <<p>> /\ Len(<<p>>) = 1 /\ <<p>>[1] = p
    OBVIOUS
  <2>2. (IF Broken(p) THEN << >> ELSE path) = << >>
    BY <1>6
  <2>3. path' = <<p>>
    <3>1. Append(IF Broken(p) THEN << >> ELSE path, p) = <<p>>
      BY <2>1, <2>2, Zenon
    <3>2. ~(Len(<<p>>) > MaxPoses)
      BY <2>1 DEF VioPathAssumption
    <3> DEFINE q == Append(IF Broken(p) THEN << >> ELSE path, p)
    <3>3. Appended(p) = IF Len(q) > MaxPoses THEN Tail(q) ELSE q
      BY DEF Appended
    <3>4. q = <<p>>
      BY <3>1
    <3> HIDE DEF q
    <3> QED BY <1>4, <3>2, <3>3, <3>4
  <2>4. path' \in Seq(Poses) /\ Len(path') = 1 /\ path'[1] = p
    BY <2>1, <2>3
  <2>5. OneRun(path')
    BY <2>4 DEF OneRun
  <2>6. n + 1 > 1 => ~Follows(received'[n], received'[n + 1])
    <3> SUFFICES ASSUME n > 0
                 PROVE  ~Follows(received'[n], p)
      BY <1>3
    <3>1. received # << >>
      BY <1>1, EmptySeq
    <3>2. PICK i \in 1 .. n : RunFrom(i)
      BY <1>1, <3>1 DEF RunInv
    <3>3. m \in 1 .. m /\ i + m - 1 = n
      BY <1>1, <1>2, <3>2 DEF RunFrom
    <3>4. path[m] = received[n]
      BY <1>2, <3>2, <3>3 DEF RunFrom
    <3>5. path # << >>
      BY <1>2, <3>3, EmptySeq
    <3>6. p.frame # path[m].frame \/ p.stamp < path[m].stamp
      BY <1>2, <1>6, <3>5 DEF Broken
    <3>7. received'[n] = path[m] /\ path[m] \in Poses
      BY <1>3, <1>5, <3>3, <3>4
    <3>8. p.stamp \in Nat /\ path[m].stamp \in Nat
      BY <3>7
    <3> QED BY <3>6, <3>7, <3>8 DEF Follows
  <2>7. RunFrom(n + 1)'
    <3>1. Len(path') = Len(received') - (n + 1) + 1
      BY <1>3, <2>4
    <3>2. \A k \in 1 .. Len(path') : path'[k] = received'[(n + 1) + k - 1]
      <4>1. \A k \in 1 .. 1 : k = 1 /\ (n + 1) + k - 1 = n + 1
        OBVIOUS
      <4> QED BY <1>3, <2>4, <4>1
    <3>3. n + 1 > 1 => ~Follows(received'[(n + 1) - 1], received'[n + 1])
      <4>1. (n + 1) - 1 = n
        OBVIOUS
      <4> QED BY <2>6, <4>1
    <3> QED BY <3>1, <3>2, <3>3 DEF RunFrom
  <2>8. n + 1 \in 1 .. Len(received')
    BY <1>3
  <2> QED BY <1>3, <2>4, <2>5, <2>7, <2>8 DEF RunInv, OneRun
<1>7. CASE path # << >> /\ ~Broken(p)
  <2>1. m > 0 /\ m \in 1 .. m
    BY <1>2, <1>4, <1>7, EmptySeq
  <2>2. received # << >>
    BY <1>7 DEF RunInv
  <2>3. PICK i \in 1 .. n : RunFrom(i)
    BY <1>1, <2>2 DEF RunInv
  <2>4. m = n - i + 1 /\ \A k \in 1 .. m : path[k] = received[i + k - 1]
    BY <1>1, <1>2, <2>3 DEF RunFrom
  <2>5. PICK q \in Seq(Poses) : q = Append(path, p)
    BY <1>4, AppendProperties
  <2>6. /\ q # << >> /\ Len(q) = m + 1
        /\ \A k \in 1 .. m : q[k] = path[k]
        /\ q[m + 1] = p
    BY <1>2, <1>4, <2>5, AppendProperties
  <2>7. path' = IF m + 1 > MaxPoses THEN Tail(q) ELSE q
    BY <1>4, <1>7, <2>5, <2>6 DEF Appended
  <2>8. \A k \in 1 .. m + 1 : q[k] = received'[i + k - 1]
    <3> SUFFICES ASSUME NEW k \in 1 .. m + 1
                 PROVE  q[k] = received'[i + k - 1]
      OBVIOUS
    <3>1. CASE k = m + 1
      <4>1. i + k - 1 = n + 1
        BY <2>4, <3>1
      <4> QED BY <1>3, <2>6, <3>1, <4>1
    <3>2. CASE k # m + 1
      <4>1. k \in 1 .. m /\ i + k - 1 \in 1 .. n
        BY <2>4, <3>2
      <4> QED BY <1>3, <2>4, <2>6, <4>1
    <3> QED BY <3>1, <3>2
  <2>9. \A k \in 1 .. m : Follows(q[k], q[k + 1])
    <3> SUFFICES ASSUME NEW k \in 1 .. m
                 PROVE  Follows(q[k], q[k + 1])
      OBVIOUS
    <3>1. CASE k = m
      <4>1. q[k] = path[m] /\ q[k + 1] = p
        BY <2>6, <3>1
      <4>2. ~(p.frame # path[m].frame \/ p.stamp < path[m].stamp)
        BY <1>2, <1>7 DEF Broken
      <4>3. p.stamp \in Nat /\ path[m].stamp \in Nat
        BY <1>5, <2>1
      <4> QED BY <4>1, <4>2, <4>3 DEF Follows
    <3>2. CASE k # m
      <4>1. k \in 1 .. m - 1 /\ k + 1 \in 1 .. m
        BY <3>2
      <4>2. q[k] = path[k] /\ q[k + 1] = path[k + 1]
        BY <2>6, <4>1
      <4> QED BY <1>2, <4>1, <4>2 DEF RunInv, OneRun, Follows
    <3> QED BY <3>1, <3>2
  <2>10. CASE m + 1 > MaxPoses
    <3>1. /\ path' = Tail(q) /\ path' \in Seq(Poses) /\ Len(path') = m
          /\ \A k \in 1 .. m : path'[k] = q[k + 1]
      BY <2>6, <2>7, <2>10, HeadTailProperties
    <3>2. m = MaxPoses
      BY <1>4, <2>10
    <3>3. OneRun(path')
      <4> SUFFICES ASSUME NEW k \in 1 .. m - 1
                   PROVE  Follows(path'[k], path'[k + 1])
        BY <3>1 DEF OneRun, Follows
      <4>1. k \in 1 .. m /\ k + 1 \in 1 .. m
        OBVIOUS
      <4> QED BY <2>9, <3>1, <4>1
    <3>4. \A k \in 1 .. m : path'[k] = received'[(i + 1) + k - 1]
      <4> SUFFICES ASSUME NEW k \in 1 .. m
                   PROVE  path'[k] = received'[(i + 1) + k - 1]
        OBVIOUS
      <4>1. k + 1 \in 1 .. m + 1 /\ i + (k + 1) - 1 = (i + 1) + k - 1
        OBVIOUS
      <4> QED BY <2>8, <3>1, <4>1
    <3>5. RunFrom(i + 1)'
      BY <1>3, <2>4, <3>1, <3>2, <3>4 DEF RunFrom
    <3>6. i + 1 \in 1 .. Len(received')
      BY <1>3
    <3> QED BY <1>3, <3>1, <3>2, <3>3, <3>5, <3>6 DEF RunInv, OneRun
  <2>11. CASE ~(m + 1 > MaxPoses)
    <3>1. path' = q /\ Len(path') = m + 1
      BY <2>6, <2>7, <2>11
    <3>2. OneRun(path')
      BY <2>9, <3>1 DEF OneRun, Follows
    <3>3. i > 1 => ~Follows(received'[i - 1], received'[i])
      <4> SUFFICES ASSUME i > 1
                   PROVE  ~Follows(received'[i - 1], received'[i])
        OBVIOUS
      <4>1. ~Follows(received[i - 1], received[i])
        BY <1>2, <2>3, <2>11 DEF RunFrom
      <4>2. i - 1 \in 1 .. n
        OBVIOUS
      <4> QED BY <1>3, <4>1, <4>2
    <3>4. RunFrom(i)'
      BY <1>3, <2>4, <2>8, <3>1, <3>3 DEF RunFrom
    <3>5. i \in 1 .. Len(received')
      BY <1>3
    <3> QED BY <1>3, <2>5, <2>11, <3>1, <3>2, <3>4, <3>5 DEF RunInv, OneRun
  <2> QED BY <2>10, <2>11
<1> QED BY <1>6, <1>7

(***************************************************************************)
(* An emptied path begins a new run.                                       *)
(***************************************************************************)
LEMMA RunInvEmpty ==
  ASSUME path' = << >>, received' = << >>
  PROVE  RunInv'
<1>1. << >> \in Seq(Poses) /\ Len(<< >>) = 0
  BY EmptySeq
<1> QED BY <1>1, VioPathAssumption DEF RunInv, OneRun

(***************************************************************************)
(* Every step keeps the path the longest run.                              *)
(***************************************************************************)
LEMMA RunInvStep == RunInv /\ [Next]_vars => RunInv'
<1> SUFFICES ASSUME RunInv, [Next]_vars
             PROVE  RunInv'
  OBVIOUS
<1>1. ASSUME NEW p \in Poses, NEW ok \in BOOLEAN, Odometry(p, ok)
      PROVE  RunInv'
  <2>1. CASE Receive(p)
    BY <2>1, RunReceive
  <2>2. CASE Refuse(p)
    BY <2>2 DEF Refuse, pathVars, RunInv, RunFrom, OneRun
  <2> QED BY <1>1, <2>1, <2>2 DEF Odometry
<1>2. CASE Start \/ Stop
  BY <1>2, RunInvEmpty DEF Start, Stop, NewPath
<1>3. CASE Wait \/ UNCHANGED vars
  <2>1. UNCHANGED pathVars
    BY <1>3 DEF Wait, vars
  <2> QED BY <2>1 DEF pathVars, RunInv, RunFrom, OneRun
<1> QED BY <1>1, <1>2, <1>3 DEF Next

(***************************************************************************)
(* The path is the longest admissible end of what was received, for every  *)
(* limit and every course of frames and stamps.                            *)
(***************************************************************************)
THEOREM PathLongest == Spec => []PathIsLongestRun
<1>1. Init => RunInv
  <2>1. << >> \in Seq(Poses) /\ Len(<< >>) = 0
    BY EmptySeq
  <2> QED BY <2>1, VioPathAssumption DEF Init, PathInit, RunInv, OneRun
<1>2. RunInv => PathIsLongestRun
  <2> SUFFICES ASSUME RunInv, received # << >>
               PROVE  \E i \in 1 .. Len(received) :
                        /\ path = SuffixFrom(i)
                        /\ OneRun(path) /\ Len(path) <= MaxPoses
                        /\ i > 1 => Len(path) = MaxPoses \/ ~OneRun(SuffixFrom(i - 1))
    BY DEF PathIsLongestRun
  <2>1. PICK i \in 1 .. Len(received) : RunFrom(i)
    BY DEF RunInv
  <2>2. /\ Len(received) \in Nat /\ path \in Seq(Poses) /\ received \in Seq(Poses)
        /\ \A k \in 1 .. Len(received) : received[k] \in Poses
    BY LenProperties, ElementOfSeq DEF RunInv
  <2>3. ASSUME NEW j \in 1 .. Len(received)
        PROVE  /\ SuffixFrom(j) \in Seq(Poses)
               /\ Len(SuffixFrom(j)) = Len(received) - j + 1
               /\ \A k \in 1 .. Len(received) - j + 1 : SuffixFrom(j)[k] = received[j + k - 1]
    <3>1. j \in Int /\ Len(received) \in Int /\ \A k \in j .. Len(received) : received[k] \in Poses
      BY <2>2
    <3> QED BY <2>2, <3>1, SubSeqProperties DEF SuffixFrom
  <2>4. path = SuffixFrom(i)
    <3>1. /\ Len(path) = Len(SuffixFrom(i))
          /\ \A k \in 1 .. Len(path) : path[k] = SuffixFrom(i)[k]
      BY <2>1, <2>3 DEF RunFrom
    <3> QED BY <2>2, <2>3, <3>1, SeqEqual
  <2>5. ASSUME i > 1, Len(path) # MaxPoses
        PROVE  ~OneRun(SuffixFrom(i - 1))
    <3>1. ~Follows(received[i - 1], received[i])
      BY <2>1, <2>5 DEF RunFrom
    <3>2. i - 1 \in 1 .. Len(received) /\ Len(received) - (i - 1) + 1 >= 2
      BY <2>2, <2>5
    <3>3. /\ Len(SuffixFrom(i - 1)) = Len(received) - (i - 1) + 1
          /\ SuffixFrom(i - 1)[1] = received[i - 1]
          /\ SuffixFrom(i - 1)[2] = received[i]
      <4>1. /\ 1 \in 1 .. Len(received) - (i - 1) + 1 /\ (i - 1) + 1 - 1 = i - 1
            /\ 2 \in 1 .. Len(received) - (i - 1) + 1 /\ (i - 1) + 2 - 1 = i
        BY <2>2, <3>2
      <4> QED BY <2>3, <3>2, <4>1
    <3>4. 1 \in 1 .. Len(SuffixFrom(i - 1)) - 1
      BY <2>2, <3>2, <3>3
    <3>5. 1 + 1 = 2
      OBVIOUS
    <3> QED BY <3>1, <3>3, <3>4, <3>5 DEF OneRun, Follows
  <2> QED BY <2>4, <2>5 DEF RunInv
<1> QED BY <1>1, <1>2, RunInvStep, PTL DEF Spec
=============================================================================
