---------------------------- MODULE PriorityQueue ----------------------------
(***************************************************************************)
(* PriorityQueue of internal/engine/queue.go: one InMemoryQueue per level. *)
(* Every method holds pq.mu for reading while it calls the level queues,   *)
(* Dequeue also while it is blocked; Close needs pq.mu for writing, and a  *)
(* waiting writer keeps new readers out (sync.RWMutex).  A level queue is  *)
(* the TaskQueue of one priority, reduced to its order and its waiters.    *)
(***************************************************************************)
EXTENDS Integers, Sequences, FiniteSets

CONSTANTS
  Tasks,
  TopLevel,    \* levels are 1..TopLevel, ascending as in pq.levels
  LevelOf,     \* [Tasks -> the level Enqueue picks for the task's priority]
  Consumers,
  None

VARIABLES
  queue,       \* [level -> tasks of that level's queue]
  processing,  \* [level -> keys of that queue's processing map]
  pc,          \* [Consumers -> control point inside Dequeue]
  level,       \* [Consumers -> the level Dequeue looks at or waits on]
  held,        \* [Consumers -> task returned by Dequeue]
  closePc,     \* "no", "waiting" for the write lock, "closed"
  submitted,   \* history: tasks that Enqueue accepted
  nacked,      \* history: tasks given back with Nack
  done         \* history: tasks that were acknowledged

vars == <<queue, processing, pc, level, held, closePc, submitted, nacked, done>>

Levels == 1..TopLevel
Readers == {c \in Consumers : pc[c] \notin {"idle", "busy"}}
Closed == closePc = "closed"

TypeOK ==
  /\ queue \in [Levels -> Seq(Tasks)]
  /\ processing \in [Levels -> SUBSET Tasks]
  /\ pc \in [Consumers -> {"idle", "peek", "receive", "wait", "busy"}]
  /\ level \in [Consumers -> Levels]
  /\ held \in [Consumers -> Tasks \cup {None}]
  /\ closePc \in {"no", "waiting", "closed"}
  /\ submitted \subseteq Tasks /\ nacked \subseteq Tasks /\ done \subseteq Tasks

Init ==
  /\ queue = [l \in Levels |-> << >>]
  /\ processing = [l \in Levels |-> {}]
  /\ pc = [c \in Consumers |-> "idle"]
  /\ level = [c \in Consumers |-> TopLevel]
  /\ held = [c \in Consumers |-> None]
  /\ closePc = "no"
  /\ submitted = {} /\ nacked = {} /\ done = {}

----------------------------------------------------------------------------

Waiters(l) == {c \in Consumers : pc[c] = "wait" /\ level[c] = l}

\* Enqueue: the level queue appends and signals one waiter of that level.
Enqueue(t) ==
  LET l == LevelOf[t] IN
  /\ t \notin submitted
  /\ closePc = "no"
  /\ queue' = [queue EXCEPT ![l] = Append(@, t)]
  /\ submitted' = submitted \cup {t}
  /\ IF Waiters(l) = {} THEN UNCHANGED pc
     ELSE \E c \in Waiters(l) : pc' = [pc EXCEPT ![c] = "receive"]
  /\ UNCHANGED <<processing, level, held, closePc, nacked, done>>

\* Dequeue takes the read lock and starts with the highest level.
Dequeue(c) ==
  /\ pc[c] = "idle"
  /\ closePc # "waiting"
  /\ pc' = [pc EXCEPT ![c] = "peek"]
  /\ level' = [level EXCEPT ![c] = TopLevel]
  /\ UNCHANGED <<queue, processing, held, closePc, submitted, nacked, done>>

\* for i := len(pq.levels) - 1; i >= 0; i--
AtLowest(c) == level[c] = 1

\* Peek at one level; when all are empty, the lowest one is waited on.
Peek(c) ==
  /\ pc[c] = "peek"
  /\ IF queue[level[c]] # << >> \/ AtLowest(c)
       THEN pc' = [pc EXCEPT ![c] = "receive"] /\ UNCHANGED level
       ELSE level' = [level EXCEPT ![c] = @ - 1] /\ UNCHANGED pc
  /\ UNCHANGED <<queue, processing, held, closePc, submitted, nacked, done>>

\* The level queue records the task in its own processing map.
Delivered(c) == [processing EXCEPT ![level[c]] = @ \cup {Head(queue[level[c]])}]

\* The level queue's Dequeue: another consumer may have emptied the level
\* since the Peek, and then this one waits there.
Receive(c) ==
  LET l == level[c] IN
  /\ pc[c] = "receive"
  /\ \/ /\ queue[l] # << >>
        /\ held' = [held EXCEPT ![c] = Head(queue[l])]
        /\ queue' = [queue EXCEPT ![l] = Tail(@)]
        /\ processing' = Delivered(c)
        /\ pc' = [pc EXCEPT ![c] = "busy"]
     \/ /\ queue[l] = << >>
        /\ pc' = [pc EXCEPT ![c] = IF Closed THEN "idle" ELSE "wait"]
        /\ UNCHANGED <<queue, processing, held>>
  /\ UNCHANGED <<level, closePc, submitted, nacked, done>>

Acked_LowestOnly(t) == [processing EXCEPT ![1] = @ \ {t}]

\* Ack is passed to every level.
Acked(t) == [l \in Levels |-> processing[l] \ {t}]

Ack(c) ==
  /\ pc[c] = "busy"
  /\ closePc # "waiting"
  /\ processing' = Acked(held[c])
  /\ done' = done \cup {held[c]}
  /\ held' = [held EXCEPT ![c] = None]
  /\ pc' = [pc EXCEPT ![c] = "idle"]
  /\ UNCHANGED <<queue, level, closePc, submitted, nacked>>

\* Nack does nothing: the task stays in processing and is never queued again.
Nack(c) ==
  /\ pc[c] = "busy"
  /\ nacked' = nacked \cup {held[c]}
  /\ held' = [held EXCEPT ![c] = None]
  /\ pc' = [pc EXCEPT ![c] = "idle"]
  /\ UNCHANGED <<queue, processing, level, closePc, submitted, done>>

\* Close asks for the write lock, gets it when no reader is left, closes the
\* level queues and wakes their waiters.
RequestClose ==
  /\ closePc = "no"
  /\ closePc' = "waiting"
  /\ UNCHANGED <<queue, processing, pc, level, held, submitted, nacked, done>>

Close ==
  /\ closePc = "waiting"
  /\ Readers = {}
  /\ closePc' = "closed"
  /\ UNCHANGED <<queue, processing, pc, level, held, submitted, nacked, done>>

Next ==
  \/ \E t \in Tasks : Enqueue(t)
  \/ \E c \in Consumers : Dequeue(c) \/ Peek(c) \/ Receive(c) \/ Ack(c) \/ Nack(c)
  \/ RequestClose \/ Close

Spec == Init /\ [][Next]_vars

----------------------------------------------------------------------------
(* Properties *)

\* A submitted task is in exactly one place: one slot of its own level's
\* queue, the processing map of that level, or among the acknowledged; and a
\* task in a consumer's hands, no other's, is in that map.
OneHolder ==
  /\ \A l \in Levels : \A i, j \in 1..Len(queue[l]) :
       /\ LevelOf[queue[l][i]] = l
       /\ queue[l][i] = queue[l][j] => i = j
       /\ queue[l][i] \notin done
       /\ \A k \in Levels : queue[l][i] \notin processing[k]
  /\ \A l \in Levels : done \cap processing[l] = {}
  /\ \A t \in submitted :
       \/ \E i \in 1..Len(queue[LevelOf[t]]) : queue[LevelOf[t]][i] = t
       \/ t \in processing[LevelOf[t]]
       \/ t \in done
  /\ \A c \in Consumers :
       held[c] # None => held[c] \in processing[LevelOf[held[c]]]
  /\ \A c, d \in Consumers : held[c] = held[d] /\ held[c] # None => c = d

\* A processing map lists the tasks in consumers' hands and those given back
\* with Nack, whose entry nothing ever removes: they are lost, and no others.
ProcessingExplained ==
  \A l \in Levels : processing[l] \subseteq {held[c] : c \in Consumers} \cup nacked

\* "Dequeue gets the next task from highest priority queue" (queue.go:421): a
\* queued task is handed out, given consumers that keep asking.
QueuedIsDelivered ==
  \A t \in Tasks :
    (\E i \in 1..Len(queue[LevelOf[t]]) : queue[LevelOf[t]][i] = t)
      ~> (closePc # "no" \/ \A i \in 1..Len(queue[LevelOf[t]]) : queue[LevelOf[t]][i] # t)
=============================================================================
