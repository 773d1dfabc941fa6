----------------------------- MODULE RedisQueue -----------------------------
(***************************************************************************)
(* RedisQueue (internal/engine/queue.go): a sorted set of waiting tasks, a *)
(* hash of the tasks being processed and a list of dead letters, shared by *)
(* the consumers of several processes.  Every Redis command is one step;   *)
(* between two of them a process can die, and a command can fail.  Redis   *)
(* itself (ZADD, ZPOPMIN, HSET, HDEL, LPUSH, RPOP) is external.            *)
(***************************************************************************)
EXTENDS Integers, Sequences, FiniteSets

CONSTANTS QTasks, Consumers,
          PriorityOf,      \* task -> its priority
          RetriesOf,       \* task -> its MaxRetries
          PriorityWeight,  \* ticks one level of priority is worth
          AddBound,        \* bound: members ever added to the sorted set
          FaultBound,      \* bound: crashes and failed commands
          NoTask

VARIABLES zset,        \* the waiting tasks, with the time they were added
          processing,  \* task -> the task as it was taken, or NoTask
          deadLetters, \* the list, newest first
          cons,        \* each consumer: the command it is at, and its task
          accepted,    \* tasks that were enqueued
          acked,       \* tasks that were acknowledged
          harmed,      \* tasks a crash or a failed command struck
          added,       \* members added so far: the clock of the scores
          faults

redisVars == <<zset, processing, deadLetters, cons, accepted, acked, harmed,
               added, faults>>

Idle == [pc |-> "idle", task |-> NoTask]
At(c, pc) == cons[c].pc = pc
Goto(c, pc, t) == cons' = [cons EXCEPT ![c] = [pc |-> pc, task |-> t]]

(* The score: the time, less the priority. *)
Score(m) == m.at - m.prio * PriorityWeight

ZAdd(t) == /\ added < AddBound
           /\ zset' = zset \cup {[id |-> t.id, prio |-> t.prio,
                                  retry |-> t.retry, at |-> added]}
           /\ added' = added + 1

Strike(t) == harmed' = harmed \cup {t.id} /\ faults' = faults + 1
NoStrike == UNCHANGED <<harmed, faults>>

Enqueue(t) ==
    /\ t \notin accepted
    /\ ZAdd([id |-> t, prio |-> PriorityOf[t], retry |-> 0])
    /\ accepted' = accepted \cup {t}
    /\ UNCHANGED <<processing, deadLetters, cons, acked, harmed, faults>>

(* ZPOPMIN *)
Dequeue(c) ==
    /\ At(c, "idle")
    /\ \E m \in zset :
         /\ \A n \in zset : Score(m) <= Score(n)
         /\ zset' = zset \ {m}
         /\ Goto(c, "popped", [id |-> m.id, prio |-> m.prio, retry |-> m.retry])
    /\ UNCHANGED <<processing, deadLetters, accepted, acked, added>> /\ NoStrike

(* HSET, whose error nobody looks at.  The EXPIRE that follows names a key *)
(* that does not exist: nothing ever comes back from the hash by itself.   *)
DequeueRecords(c) ==
    LET t == cons[c].task IN
    /\ At(c, "popped")
    /\ \/ processing' = [processing EXCEPT ![t.id] = t] /\ NoStrike
       \/ faults < FaultBound /\ Strike(t) /\ UNCHANGED processing
    /\ Goto(c, "held", t)
    /\ UNCHANGED <<zset, deadLetters, accepted, acked, added>>

Ack(c) ==
    LET t == cons[c].task IN
    /\ At(c, "held")
    /\ processing' = [processing EXCEPT ![t.id] = NoTask]
    /\ acked' = acked \cup {t.id}
    /\ cons' = [cons EXCEPT ![c] = Idle]
    /\ UNCHANGED <<zset, deadLetters, accepted, added>> /\ NoStrike

(* HGET: without an entry the call ends, and so does the task. *)
Nack(c) ==
    LET t == cons[c].task IN
    /\ At(c, "held")
    /\ IF processing[t.id] = NoTask THEN cons' = [cons EXCEPT ![c] = Idle]
       ELSE Goto(c, "found", processing[t.id])
    /\ UNCHANGED <<zset, processing, deadLetters, accepted, acked, added>> /\ NoStrike

(* HDEL, whose error nobody looks at. *)
NackRemoves(c) ==
    LET t == cons[c].task IN
    /\ At(c, "found")
    /\ \/ processing' = [processing EXCEPT ![t.id] = NoTask] /\ NoStrike
       \/ faults < FaultBound /\ Strike(t) /\ UNCHANGED processing
    /\ Goto(c, "removed", [t EXCEPT !.retry = @ + 1])
    /\ UNCHANGED <<zset, deadLetters, accepted, acked, added>>

Retries_Swallowed(c, t) ==
    IF t.retry > RetriesOf[t.id]
    THEN UNCHANGED <<deadLetters, zset, added>>
    ELSE ZAdd([t EXCEPT !.prio = @ - 1]) /\ UNCHANGED deadLetters

(* LPUSH for a task out of retries, ZADD with a lower priority otherwise.  *)
Retries(c, t) ==
    IF t.retry > RetriesOf[t.id]
    THEN deadLetters' = <<t>> \o deadLetters /\ UNCHANGED <<zset, added>>
    ELSE ZAdd([t EXCEPT !.prio = @ - 1]) /\ UNCHANGED deadLetters

NackReturns(c) ==
    /\ At(c, "removed")
    /\ Retries(c, cons[c].task)
    /\ cons' = [cons EXCEPT ![c] = Idle]
    /\ UNCHANGED <<processing, accepted, acked>> /\ NoStrike

(* RPOP *)
ReprocessDeadLetter(c) ==
    /\ At(c, "idle") /\ deadLetters # << >> /\ added < AddBound
    /\ Goto(c, "revived", [deadLetters[Len(deadLetters)] EXCEPT !.retry = 0])
    /\ deadLetters' = SubSeq(deadLetters, 1, Len(deadLetters) - 1)
    /\ UNCHANGED <<zset, processing, accepted, acked, added>> /\ NoStrike

(* ZADD; when it fails the letter goes back to the list. *)
Reenqueue(c) ==
    LET t == cons[c].task IN
    /\ At(c, "revived")
    /\ \/ ZAdd(t) /\ UNCHANGED <<deadLetters, faults>>
       \/ /\ faults < FaultBound /\ faults' = faults + 1
          /\ deadLetters' = <<t>> \o deadLetters
          /\ UNCHANGED <<zset, added>>
    /\ cons' = [cons EXCEPT ![c] = Idle]
    /\ UNCHANGED <<processing, accepted, acked, harmed>>

(* The process of a consumer dies, with what it had in memory only. *)
Crash(c) ==
    LET t == cons[c].task IN
    /\ ~ At(c, "idle") /\ faults < FaultBound
    /\ cons' = [cons EXCEPT ![c] = Idle]
    /\ IF At(c, "popped") \/ At(c, "removed") \/ At(c, "revived")
       THEN Strike(t) ELSE faults' = faults + 1 /\ UNCHANGED harmed
    /\ UNCHANGED <<zset, processing, deadLetters, accepted, acked, added>>

Init == /\ zset = {} /\ deadLetters = << >>
        /\ processing = [t \in QTasks |-> NoTask]
        /\ cons = [c \in Consumers |-> Idle]
        /\ accepted = {} /\ acked = {} /\ harmed = {} /\ added = 0 /\ faults = 0

Next == \/ \E t \in QTasks : Enqueue(t)
        \/ \E c \in Consumers :
             \/ Dequeue(c) \/ DequeueRecords(c) \/ Ack(c)
             \/ Nack(c) \/ NackRemoves(c) \/ NackReturns(c)
             \/ ReprocessDeadLetter(c) \/ Reenqueue(c) \/ Crash(c)

Spec == Init /\ [][Next]_redisVars

------------------------------------------------------------------------
InHand(t) == {c \in Consumers : cons[c].task # NoTask /\ cons[c].task.id = t}

(* The hash and the consumer that put the task there count as one place.   *)
Places(t) ==
    Cardinality({m \in zset : m.id = t})
    + Cardinality({i \in DOMAIN deadLetters : deadLetters[i].id = t})
    + Cardinality(InHand(t))
    + (IF InHand(t) = {} /\ processing[t] # NoTask THEN 1 ELSE 0)
    + (IF t \in acked THEN 1 ELSE 0)

(* A task that was accepted is in exactly one place, waiting, in the hands *)
(* of one consumer, among the dead letters, stranded in the processing     *)
(* hash, or acknowledged, unless a process died between two commands on it *)
(* or a command on it failed unnoticed (queue.go:249-271, 318-326).        *)
ExactlyOnePlace ==
    \A t \in accepted \ harmed : Places(t) = 1
=============================================================================
