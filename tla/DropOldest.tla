----------------------------- MODULE DropOldest -----------------------------
(***************************************************************************)
(* What the bridge's hand-over buffers promise to the SDK callbacks that   *)
(* fill them: a callback never blocks, a buffer never holds more than      *)
(* Depth tasks, the one that gives way is always the oldest, and tasks     *)
(* are started in the order in which they came.  Tasks are numbered in the *)
(* order in which they are offered.                                        *)
(***************************************************************************)
EXTENDS Integers, FiniteSets

CONSTANT Depth   \* positive

VARIABLES
  offered,   \* tasks offered so far
  open,      \* tasks are accepted
  waiting,   \* tasks accepted and not yet started
  running    \* tasks started and not yet finished

vars == <<offered, open, waiting, running>>

Oldest(S) == CHOOSE n \in S : \A m \in S : n <= m

Newest(S) == IF Cardinality(S) > Depth THEN S \ {Oldest(S)} ELSE S

Init ==
  /\ offered = 0
  /\ open = TRUE
  /\ waiting = {}
  /\ running = {}

Offer ==
  /\ offered' = offered + 1
  /\ waiting' = IF open THEN Newest(waiting \cup {offered + 1}) ELSE waiting
  /\ UNCHANGED <<open, running>>

Take ==
  /\ waiting # {}
  /\ waiting' = waiting \ {Oldest(waiting)}
  /\ running' = running \cup {Oldest(waiting)}
  /\ UNCHANGED <<offered, open>>

Finish(n) ==
  /\ running' = running \ {n}
  /\ UNCHANGED <<offered, open, waiting>>

(***************************************************************************)
(* Start and Stop: what is waiting is thrown away.                         *)
(***************************************************************************)
Discard ==
  /\ waiting' = {}
  /\ open' \in BOOLEAN
  /\ UNCHANGED <<offered, running>>

Next == Offer \/ Take \/ (\E n \in running : Finish(n)) \/ Discard

Spec == Init /\ [][Next]_vars
=============================================================================
