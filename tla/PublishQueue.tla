---------------------------- MODULE PublishQueue ----------------------------
(***************************************************************************)
(* The sensor publish queue of bridge_node_ros2.cpp (ROS2 only): SDK       *)
(* callbacks and the depth worker hand finished messages to a pool of      *)
(* worker threads through a bounded deque, a mutex and a condition         *)
(* variable.                                                               *)
(*                                                                         *)
(* A step is one critical section of publish_queue_mutex_, or what a       *)
(* thread does between two of them.  The condition variable is explicit:   *)
(* a worker that finds nothing to do waits and runs again only when it is  *)
(* notified, or spuriously.  A task is its number in the order of the      *)
(* calls of EnqueuePublishTask.                                            *)
(***************************************************************************)
EXTENDS Integers, Sequences, FiniteSets, Functions

CONSTANTS
  Workers,     \* publish_workers_: publish_worker_threads of them
  Producers,   \* threads that call EnqueuePublishTask
  Depth,       \* max_publish_queue_depth
  MaxTasks,    \* bound: calls of EnqueuePublishTask
  MaxLives     \* bound: calls of StartPublishWorkers

ASSUME QueueAssumption ==
  /\ Depth \in Nat \ {0}
  /\ MaxTasks \in Nat /\ MaxLives \in Nat
  /\ IsFiniteSet(Workers)

VARIABLES
  queue,       \* publish_queue_
  stop,        \* publish_workers_stop_
  dropped,     \* publish_tasks_dropped_
  pc,          \* worker -> where it is: no thread, about to look at the queue,
               \* in cv.wait, publishing, returned
  task,        \* worker -> task it publishes
  notifying,   \* producers between their unlock and notify_one
  main,        \* the thread that calls Start and Stop
  restart,     \* it is in the StopPublishWorkers that Start calls first
  lives,       \* starts so far
  offered,     \* calls of EnqueuePublishTask so far
  accepted,    \* history: tasks put into the queue since the last start
  published    \* history: tasks published since then, in order

vars == <<queue, stop, dropped, pc, task, notifying, main, restart, lives,
          offered, accepted, published>>

Init ==
  /\ queue = << >> /\ stop = FALSE /\ dropped = 0
  /\ pc = [w \in Workers |-> "none"]
  /\ task = [w \in Workers |-> 0]
  /\ notifying = {}
  /\ main = "stopped" /\ restart = FALSE /\ lives = 0
  /\ offered = 0 /\ accepted = 0 /\ published = << >>

-----------------------------------------------------------------------------
(***************************************************************************)
(* EnqueuePublishTask.  Nothing here assumes that the SDK has no callback  *)
(* in flight when Stop has returned from stopping the subscriptions.       *)
(***************************************************************************)
Full == Len(queue) >= Depth

Admit(n) == Append(IF Full THEN Tail(queue) ELSE queue, n)

Refuse ==
  /\ offered < MaxTasks
  /\ stop
  /\ offered' = offered + 1
  /\ UNCHANGED <<queue, stop, dropped, pc, task, notifying, main, restart, lives,
                 accepted, published>>

\* Mutated form of Enqueue: a refused or replaced task is not counted.
EnqueueUncounted(p) ==
  /\ p \notin notifying /\ offered < MaxTasks
  /\ ~stop
  /\ offered' = offered + 1
  /\ accepted' = accepted + 1
  /\ queue' = Admit(offered + 1)
  /\ notifying' = notifying \cup {p}
  /\ UNCHANGED <<stop, dropped, pc, task, main, restart, lives, published>>

Enqueue(p) ==
  /\ p \notin notifying /\ offered < MaxTasks
  /\ ~stop
  /\ offered' = offered + 1
  /\ accepted' = accepted + 1
  /\ queue' = Admit(offered + 1)
  /\ dropped' = IF Full THEN dropped + 1 ELSE dropped
  /\ notifying' = notifying \cup {p}
  /\ UNCHANGED <<stop, pc, task, main, restart, lives, published>>

Waiting == {w \in Workers : pc[w] = "wait"}

NotifyOne(p) ==
  /\ p \in notifying
  /\ notifying' = notifying \ {p}
  /\ IF Waiting = {} THEN UNCHANGED pc
     ELSE \E w \in Waiting : pc' = [pc EXCEPT ![w] = "look"]
  /\ UNCHANGED <<queue, stop, dropped, task, main, restart, lives, offered,
                 accepted, published>>

-----------------------------------------------------------------------------
(***************************************************************************)
(* PublishWorkerLoop.                                                      *)
(***************************************************************************)
Goes(w, place) ==
  /\ pc' = [pc EXCEPT ![w] = place]
  /\ UNCHANGED <<stop, dropped, notifying, main, restart, lives, offered, accepted>>

\* Mutated form of Sleep: cv.wait without a predicate.
SleepUnchecked(w) ==
  /\ pc[w] = "look" /\ ~stop
  /\ Goes(w, "wait")
  /\ UNCHANGED <<queue, task, published>>

Sleep(w) ==
  /\ pc[w] = "look" /\ ~stop /\ queue = << >>
  /\ Goes(w, "wait")
  /\ UNCHANGED <<queue, task, published>>

WakeSpuriously(w) ==
  /\ pc[w] = "wait"
  /\ Goes(w, "look")
  /\ UNCHANGED <<queue, task, published>>

\* Mutated form of Take: the freshest task first.
TakeNewest(w) ==
  /\ pc[w] = "look" /\ queue # << >>
  /\ task' = [task EXCEPT ![w] = queue[Len(queue)]]
  /\ queue' = SubSeq(queue, 1, Len(queue) - 1)
  /\ Goes(w, "publish")
  /\ UNCHANGED published

Take(w) ==
  /\ pc[w] = "look" /\ queue # << >>
  /\ task' = [task EXCEPT ![w] = Head(queue)]
  /\ queue' = Tail(queue)
  /\ Goes(w, "publish")
  /\ UNCHANGED published

Publish(w) ==
  /\ pc[w] = "publish"
  /\ published' = Append(published, task[w])
  /\ Goes(w, "look")
  /\ UNCHANGED <<queue, task>>

Return(w) ==
  /\ pc[w] = "look" /\ stop /\ queue = << >>
  /\ Goes(w, "returned")
  /\ UNCHANGED <<queue, task, published>>

Work(w) == Sleep(w) \/ Take(w) \/ Publish(w) \/ Return(w)

-----------------------------------------------------------------------------
(***************************************************************************)
(* StopPublishWorkers: refuse and clear; notify_all; join; accept again.   *)
(* StartPublishWorkers runs it first, then clears once more and spawns.    *)
(***************************************************************************)
Close ==
  /\ main \in {"stopped", "started"}
  /\ main' = "closed"
  /\ restart' \in IF lives < MaxLives THEN BOOLEAN ELSE {FALSE}
  /\ stop' = TRUE
  /\ queue' = << >>
  /\ UNCHANGED <<dropped, pc, task, notifying, lives, offered, accepted, published>>

\* Mutated form of NotifyAll: one waiting worker is woken.
NotifyAnyOne ==
  /\ main = "closed"
  /\ main' = "joining"
  /\ IF Waiting = {} THEN UNCHANGED pc
     ELSE \E w \in Waiting : pc' = [pc EXCEPT ![w] = "look"]
  /\ UNCHANGED <<queue, stop, dropped, task, notifying, restart, lives, offered,
                 accepted, published>>

NotifyAll ==
  /\ main = "closed"
  /\ main' = "joining"
  /\ pc' = [w \in Workers |-> IF w \in Waiting THEN "look" ELSE pc[w]]
  /\ UNCHANGED <<queue, stop, dropped, task, notifying, restart, lives, offered,
                 accepted, published>>

Joined ==
  /\ main = "joining"
  /\ \A w \in Workers : pc[w] \in {"none", "returned"}
  /\ pc' = [w \in Workers |-> "none"]
  /\ stop' = FALSE
  /\ main' = IF restart THEN "opening" ELSE "stopped"
  /\ UNCHANGED <<queue, dropped, task, notifying, restart, lives, offered, accepted,
                 published>>

Open ==
  /\ main = "opening"
  /\ main' = "started"
  /\ restart' = FALSE
  /\ lives' = lives + 1
  /\ stop' = FALSE
  /\ queue' = << >>
  /\ dropped' = 0
  /\ pc' = [w \in Workers |-> "look"]
  /\ accepted' = 0
  /\ published' = << >>
  /\ UNCHANGED <<task, notifying, offered>>

Next ==
  \/ Refuse
  \/ \E p \in Producers : Enqueue(p) \/ NotifyOne(p)
  \/ \E w \in Workers : Work(w) \/ WakeSpuriously(w)
  \/ Close \/ NotifyAll \/ Joined \/ Open

Spec == Init /\ [][Next]_vars

(***************************************************************************)
(* Fairness: every thread that can run does, and publish() returns.  No    *)
(* fairness is assumed of callbacks, of calls of Start and Stop, or of     *)
(* spurious wakeups.                                                       *)
(***************************************************************************)
Fairness ==
  /\ \A w \in Workers : WF_vars(Work(w))
  /\ \A p \in Producers : WF_vars(NotifyOne(p))
  /\ WF_vars(NotifyAll) /\ WF_vars(Joined) /\ WF_vars(Open)

FairSpec == Spec /\ Fairness

-----------------------------------------------------------------------------
Places == {"none", "look", "wait", "publish", "returned"}
Publishing == {task[w] : w \in {v \in Workers : pc[v] = "publish"}}

(***************************************************************************)
(* The queue keeps the promise of DropOldest, through every stop and       *)
(* restart and whatever the workers and the callbacks do at that moment.   *)
(***************************************************************************)
Promise == INSTANCE DropOldest WITH
  open <- ~stop, waiting <- Range(queue), running <- Publishing

Refines == Promise!Spec

(***************************************************************************)
(* Every task accepted since the start is queued, being published,         *)
(* published once, or counted in the warning about dropped tasks, and the  *)
(* queue is never longer than max_publish_queue_depth.                     *)
(***************************************************************************)
Accounted ==
  /\ Len(queue) <= Depth
  /\ main = "started" =>
       accepted = dropped + Len(queue) + Cardinality(Publishing) + Len(published)

(***************************************************************************)
(* Workers publish messages of one topic side by side, so a message may    *)
(* overtake others; but only those that were in the hands of the other     *)
(* workers.  One worker keeps the order of the callbacks.                  *)
(***************************************************************************)
OvertakesFew ==
  \A i \in DOMAIN published :
    Cardinality({j \in DOMAIN published : i < j /\ published[j] < published[i]})
      < Cardinality(Workers)

(***************************************************************************)
(* No wakeup is lost: the latest task is published unless the queue is     *)
(* stopped, without any further callback to help it along.                 *)
(***************************************************************************)
LatestPublished ==
  \A n \in 1 .. MaxTasks :
    (main = "started" /\ queue # << >> /\ queue[Len(queue)] = n)
      ~> (n \in Range(published) \/ main # "started" \/ offered > n)

(***************************************************************************)
(* Stop and Start return, with no worker left behind in its wait.          *)
(***************************************************************************)
StopReturns == main \in {"closed", "joining"} ~> main \in {"stopped", "started"}
=============================================================================
