------------------------------ MODULE TaskQueue ------------------------------
(***************************************************************************)
(* InMemoryQueue of internal/engine/queue.go: a slice of tasks kept in     *)
(* order of priority, the tasks being processed, and consumers that wait   *)
(* on a condition variable.  Every method is one critical section of q.mu  *)
(* except Dequeue, which releases the lock while it waits.                 *)
(***************************************************************************)
EXTENDS Integers, Sequences, FiniteSets, SequencesExt

CONSTANTS
  Tasks,
  Priority,   \* [Tasks -> priority given to Enqueue]
  Consumers,
  Nackers,    \* the consumers that may give a task back with Nack
  MaxNacks,   \* bound: Nacks of one task
  None

VARIABLES
  tasks,       \* q.tasks
  processing,  \* keys of q.processing
  closed,      \* q.closed
  prio,        \* [Tasks -> task.Priority]
  retryCount,  \* [Tasks -> task.RetryCount]
  waiting,     \* consumers inside q.cond.Wait
  awake,       \* consumers signalled and not yet back in the critical section
  held,        \* [Consumers -> the task Dequeue returned, not yet acknowledged]
  submitted,   \* history: tasks that Enqueue accepted
  done         \* history: tasks that were acknowledged

vars == <<tasks, processing, closed, prio, retryCount, waiting, awake, held, submitted, done>>

TypeOK ==
  /\ tasks \in Seq(Tasks)
  /\ processing \subseteq Tasks
  /\ closed \in BOOLEAN
  /\ prio \in [Tasks -> Int]
  /\ retryCount \in [Tasks -> 0..MaxNacks]
  /\ waiting \subseteq Consumers /\ awake \subseteq Consumers
  /\ held \in [Consumers -> Tasks \cup {None}]
  /\ submitted \subseteq Tasks /\ done \subseteq Tasks

Init ==
  /\ tasks = << >> /\ processing = {} /\ closed = FALSE
  /\ prio = Priority
  /\ retryCount = [t \in Tasks |-> 0]
  /\ waiting = {} /\ awake = {}
  /\ held = [c \in Consumers |-> None]
  /\ submitted = {} /\ done = {}

----------------------------------------------------------------------------
(* A suffixed name is a faulty variant.                                    *)

\* q.cond.Signal
Signal ==
  IF waiting = {} THEN UNCHANGED <<waiting, awake>>
  ELSE \E c \in waiting : waiting' = waiting \ {c} /\ awake' = awake \cup {c}

\* q.cond.Broadcast
Broadcast == waiting' = {} /\ awake' = awake \cup waiting

SignalEnqueue_IfEmpty == IF tasks = << >> THEN Signal ELSE UNCHANGED <<waiting, awake>>

\* Enqueue signals on every task.
SignalEnqueue == Signal

Position_Last(t) == Len(tasks) + 1

\* The first task of lower priority, or the end.
Position(t) ==
  LET lower == {i \in 1..Len(tasks) : prio[tasks[i]] < prio[t]}
  IN IF lower = {} THEN Len(tasks) + 1 ELSE CHOOSE i \in lower : \A j \in lower : i <= j

Enqueue(t) ==
  /\ t \notin submitted
  /\ ~closed
  /\ tasks' = InsertAt(tasks, Position(t), t)
  /\ submitted' = submitted \cup {t}
  /\ SignalEnqueue
  /\ UNCHANGED <<processing, closed, prio, retryCount, held, done>>

\* The part of Dequeue behind the wait loop, and the wait itself.
Receive(c) ==
  \/ /\ tasks # << >>
     /\ held' = [held EXCEPT ![c] = Head(tasks)]
     /\ processing' = processing \cup {Head(tasks)}
     /\ tasks' = Tail(tasks)
     /\ UNCHANGED <<closed, prio, retryCount, waiting, submitted, done>>
  \/ /\ tasks = << >> /\ closed
     /\ UNCHANGED <<tasks, processing, closed, prio, retryCount, waiting, held, submitted, done>>
  \/ /\ tasks = << >> /\ ~closed
     /\ waiting' = waiting \cup {c}
     /\ UNCHANGED <<tasks, processing, closed, prio, retryCount, held, submitted, done>>

\* A consumer calls Dequeue.
Dequeue(c) ==
  /\ held[c] = None /\ c \notin waiting \cup awake
  /\ Receive(c)
  /\ UNCHANGED awake

\* A signalled consumer has the lock again and tests the condition again.
Wake(c) ==
  /\ c \in awake
  /\ Receive(c)
  /\ awake' = awake \ {c}

Ack(c) ==
  /\ held[c] # None
  /\ processing' = processing \ {held[c]}
  /\ done' = done \cup {held[c]}
  /\ held' = [held EXCEPT ![c] = None]
  /\ UNCHANGED <<tasks, closed, prio, retryCount, waiting, awake, submitted>>

\* delete(q.processing, taskID) of Nack
Remaining(t) == processing \ {t}

\* task.RetryCount++
Retried(t) == retryCount[t] + 1

Returned_Lost(t) == tasks

\* append(q.tasks, task)
Returned(t) == Append(tasks, t)

\* The task goes to the end, also of a closed queue; nobody is signalled.
Nack(c) ==
  LET t == held[c] IN
  /\ c \in Nackers /\ t # None
  /\ retryCount[t] < MaxNacks
  /\ processing' = Remaining(t)
  /\ retryCount' = [retryCount EXCEPT ![t] = Retried(t)]
  /\ prio' = [prio EXCEPT ![t] = @ - 1]
  /\ tasks' = Returned(t)
  /\ held' = [held EXCEPT ![c] = None]
  /\ UNCHANGED <<closed, waiting, awake, submitted, done>>

Close ==
  /\ ~closed
  /\ closed' = TRUE
  /\ Broadcast
  /\ UNCHANGED <<tasks, processing, prio, retryCount, held, submitted, done>>

Next ==
  \/ \E t \in Tasks : Enqueue(t)
  \/ \E c \in Consumers : Dequeue(c) \/ Wake(c) \/ Ack(c) \/ Nack(c)
  \/ Close

Spec == Init /\ [][Next]_vars

----------------------------------------------------------------------------
(* Properties *)

\* No task is lost or handed out twice: what Enqueue accepted is in exactly one
\* place, one slot of the queue, the hands of one consumer that processing
\* lists, or among the acknowledged.
OneHolder ==
  /\ \A i, j \in 1..Len(tasks) : tasks[i] = tasks[j] => i = j
  /\ \A c, d \in Consumers : held[c] = held[d] /\ held[c] # None => c = d
  /\ processing = {held[c] : c \in Consumers} \ {None}
  /\ processing \cap ToSet(tasks) = {}
  /\ done \cap (processing \cup ToSet(tasks)) = {}
  /\ submitted = processing \cup ToSet(tasks) \cup done

\* Tasks that were never given back leave in order of priority, whatever
\* returned tasks are queued between them.
FreshInPriorityOrder ==
  \A i, j \in 1..Len(tasks) :
    i < j /\ retryCount[tasks[i]] = 0 /\ retryCount[tasks[j]] = 0
      => prio[tasks[i]] >= prio[tasks[j]]

\* As long as no task was given back, no wake-up is lost, however Enqueue,
\* Dequeue and the woken consumers interleave: while a consumer sleeps in
\* Dequeue, a signalled one is under way for every queued task.  (Nack signals
\* nobody: behind it a consumer may sleep on although a task is queued.)
WakesUntilNack ==
  (\A t \in Tasks : retryCount[t] = 0) /\ waiting # {} => Len(tasks) <= Cardinality(awake)
=============================================================================
