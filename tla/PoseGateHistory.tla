--------------------------- MODULE PoseGateHistory --------------------------
(***************************************************************************)
(* The pose gate under an adversarial transport, with the history that its *)
(* promises are about.  Any sample may be delivered at any time, again, or *)
(* never: the SDK callback, the network and the producer's restarts choose.*)
(***************************************************************************)
EXTENDS PoseGate

VARIABLES
  residency,  \* what was accepted since the present epoch was adopted
  age         \* epochs retired since this one was, at most Retain

historyVars == <<gateVars, residency, age>>

HistoryInit ==
  /\ GateInit
  /\ residency = << >>
  /\ age = [e \in Epochs |-> Retain]

Older(n) == IF n < Retain THEN n + 1 ELSE Retain

Deliver(s) ==
  /\ Accept(s)
  /\ residency' = IF OpensEpoch(s) THEN <<s>> ELSE Append(residency, s)
  /\ age' = IF OpensEpoch(s) /\ epoch # NoEpoch
              THEN [e \in Epochs |-> IF e = epoch THEN 0 ELSE Older(age[e])]
              ELSE age

Drop(s) == Reject(s) /\ UNCHANGED <<residency, age>>

HistoryNext == \E s \in Sample : Deliver(s) \/ Drop(s)

HistorySpec == HistoryInit /\ [][HistoryNext]_historyVars

-----------------------------------------------------------------------------
(***************************************************************************)
(* Type correctness; the memory of retired epochs is bounded.              *)
(***************************************************************************)
HistoryTypeOK ==
  /\ GateTypeOK
  /\ residency \in Seq(Sample)
  /\ age \in [Epochs -> 0 .. Retain]

(***************************************************************************)
(* Transforms of one producer life are stamped in strictly ascending order *)
(* however the samples were reordered or repeated on the way (tf2 treats   *)
(* anything else as old or repeated data).  Also covers a device that      *)
(* sends no epochs at all.  PoseTransformGate::Accept.                     *)
(***************************************************************************)
StampsAscend ==
  \A i, j \in DOMAIN residency :
    i < j => residency[i].stamp < residency[j].stamp

(***************************************************************************)
(* A life of the producer that was left is not believed again while the    *)
(* gate can remember it: an epoch becomes current only if it never was, or *)
(* if at least Retain others have been retired since.  retired_epochs_.    *)
(***************************************************************************)
NoEpochReturns == [][epoch' # epoch => age[epoch'] = Retain]_historyVars

(***************************************************************************)
(* The same memory seen from the state: an epoch retired less than Retain  *)
(* retirements ago is on the list, at the place its age says.              *)
(***************************************************************************)
RetiredByAge ==
  /\ \A i \in DOMAIN retired : age[retired[i]] = Len(retired) - i
  /\ \A e \in Epochs : age[e] < Retain => e \in Range(retired)

Identified(i, j) == \A k \in i .. j : residency[k].epoch # NoEpoch
Numbered(i, j) == \A k \in i .. j : residency[k].numbered

(***************************************************************************)
(* Between samples that are all identified and numbered the numbers ascend *)
(* strictly, whatever else was accepted before and after: no repetition,   *)
(* and none taken for a restart.  PoseTransformGate::Accept compares a     *)
(* sample with the one accepted just before it, never with an older one.   *)
(***************************************************************************)
NumbersAscend ==
  \A i, j \in DOMAIN residency :
    i < j /\ Identified(i, j) /\ Numbered(i, j)
      => residency[i].number < residency[j].number

(***************************************************************************)
(* docs/TF.md: "Both modes exclude ... duplicate sequences and             *)
(* non-increasing timestamps".  Two samples accepted in one life of an     *)
(* identified producer never carry the same sequence number.               *)
(***************************************************************************)
NoDuplicateSequence ==
  \A i, j \in DOMAIN residency :
    i < j /\ Identified(i, j) /\ Numbered(i, i) /\ Numbered(j, j)
      => residency[i].number # residency[j].number
=============================================================================
