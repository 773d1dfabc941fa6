------------------------------ MODULE MCQueues ------------------------------
(***************************************************************************)
(* The queues between the engine and its workers, side by side: the pool   *)
(* of internal/engine/worker.go and the three queues of queue.go.  They    *)
(* share no state; each behaviour runs one of them (focus) and leaves the  *)
(* others as they start.                                                   *)
(***************************************************************************)
EXTENDS Integers, Sequences, FiniteSets

CONSTANTS
  \* of the pool
  PoolTasks, NodeTasks, InitialWorkers, MaxWorkers, PoolSize, PoolRetries,
  Scalers, WorkerCap, CountLag,
  \* of the in-memory queue
  Tasks, Priority, Consumers, Nackers, MaxNacks,
  \* of the levelled queue
  LevelTasks, TopLevel, LevelOf, LevelConsumers,
  \* of the Redis queue
  QTasks, RedisConsumers, PriorityOf, RetriesOf, PriorityWeight, AddBound, FaultBound,
  None

VARIABLES
  focus,
  nWorkers, wpc, wstatus, wtask, taskQueue, results, consuming, stopPc, toAdd,
  sleeping, poolRetryCount, untotalled, unqueued, metrics, outcome, attempts, panicked,
  tasks, processing, closed, prio, retryCount, waiting, awake, held, submitted, done,
  queue, levelProcessing, pc, level, levelHeld, closePc, levelSubmitted, nacked, levelDone,
  zset, redisProcessing, deadLetters, cons, accepted, acked, harmed, added, faults

poolVars   == <<nWorkers, wpc, wstatus, wtask, taskQueue, results, consuming, stopPc, toAdd,
                sleeping, poolRetryCount, untotalled, unqueued, metrics, outcome, attempts, panicked>>
memoryVars == <<tasks, processing, closed, prio, retryCount, waiting, awake, held, submitted, done>>
levelsVars == <<queue, levelProcessing, pc, level, levelHeld, closePc, levelSubmitted, nacked, levelDone>>
redisVars  == <<zset, redisProcessing, deadLetters, cons, accepted, acked, harmed, added, faults>>
vars == <<focus, poolVars, memoryVars, levelsVars, redisVars>>

Pool == INSTANCE WorkerPool WITH
  Tasks <- PoolTasks, QueueSize <- PoolSize, MaxRetries <- PoolRetries,
  retryCount <- poolRetryCount

Memory == INSTANCE TaskQueue

Levels == INSTANCE PriorityQueue WITH
  Tasks <- LevelTasks, Consumers <- LevelConsumers,
  processing <- levelProcessing, held <- levelHeld, submitted <- levelSubmitted,
  done <- levelDone

Redis == INSTANCE RedisQueue WITH
  Consumers <- RedisConsumers, NoTask <- None, processing <- redisProcessing

(* Start(InitialWorkers) starts goroutines this model has room for; None is  *)
(* nothing the code handles.                                               *)
ASSUME PoolAssumption ==
  /\ WorkerCap \in Nat /\ InitialWorkers \in 0..WorkerCap /\ MaxWorkers \in Nat
  /\ PoolSize \in Nat /\ PoolRetries \in Nat /\ None \notin PoolTasks

ASSUME MemoryAssumption ==
  Priority \in [Tasks -> Int] /\ MaxNacks \in Nat /\ None \notin Tasks

ASSUME LevelsAssumption ==
  TopLevel \in Nat \ {0} /\ LevelOf \in [LevelTasks -> 1..TopLevel] /\ None \notin LevelTasks

ASSUME RedisAssumption ==
  /\ AddBound \in Nat /\ FaultBound \in Nat /\ PriorityOf \in [QTasks -> Int]
  /\ None \notin [id : QTasks, prio : Int, retry : Int]

-----------------------------------------------------------------------------
Init ==
  /\ focus \in {"pool", "memory", "levels", "redis"}
  /\ Pool!Init /\ Memory!Init /\ Levels!Init /\ Redis!Init

PoolRuns(step)   == focus = "pool"   /\ step /\ UNCHANGED <<focus, memoryVars, levelsVars, redisVars>>
MemoryRuns(step) == focus = "memory" /\ step /\ UNCHANGED <<focus, poolVars, levelsVars, redisVars>>
LevelsRuns(step) == focus = "levels" /\ step /\ UNCHANGED <<focus, poolVars, memoryVars, redisVars>>
RedisRuns(step)  == focus = "redis"  /\ step /\ UNCHANGED <<focus, poolVars, memoryVars, levelsVars>>

Next ==
  \/ PoolRuns(Pool!Next)
  \/ MemoryRuns(Memory!Next)
  \/ LevelsRuns(Levels!Next)
  \/ RedisRuns(Redis!Next)

Spec == Init /\ [][Next]_vars

(* The goroutines of the pool run, its sleeps end and its tasks return; the *)
(* other queues are checked for safety only.                                *)
FairSpec ==
  /\ Spec
  /\ \A w \in Pool!Workers : WF_vars(PoolRuns(Pool!Alive /\ Pool!WorkerStep(w)))
  /\ \A t \in PoolTasks : WF_vars(PoolRuns(Pool!Alive /\ Pool!Resubmit(t)))
  /\ \A s \in Scalers : WF_vars(PoolRuns(Pool!Alive /\ Pool!AddWorker(s)))

(* The levelled queue alone: goroutines that are not blocked run, consumers *)
(* ask for the next task, and a free lock is given to the writer.          *)
LevelsSpec ==
  /\ Init /\ focus = "levels" /\ [][LevelsRuns(Levels!Next)]_vars
  /\ \A c \in LevelConsumers :
       /\ WF_vars(LevelsRuns(Levels!Peek(c)))
       /\ WF_vars(LevelsRuns(Levels!Receive(c)))
       /\ WF_vars(LevelsRuns(Levels!Dequeue(c)))
       /\ WF_vars(LevelsRuns(Levels!Ack(c) \/ Levels!Nack(c)))
  /\ WF_vars(LevelsRuns(Levels!Close))

-----------------------------------------------------------------------------
(* No queue hands a task out twice, and none is lost but where it is named, *)
(* the fields keeping their types: in the pool (worker.go:366) and the      *)
(* in-memory queues (queue.go:148, 434) an accepted task is in exactly one  *)
(* place until it is settled.  Lost are the retry that meets a full queue   *)
(* (worker.go:368), the task given back to the levelled queue, whose Nack   *)
(* does nothing (queue.go:475), and in Redis the task a crash or a failed   *)
(* command strikes (queue.go:269).                                          *)
InOnePlace ==
  /\ Pool!TypeOK /\ Pool!OneHolder /\ Pool!LostOnRetryOnly
  /\ Memory!TypeOK /\ Memory!OneHolder
  /\ Levels!TypeOK /\ Levels!OneHolder /\ Levels!ProcessingExplained
  /\ Redis!ExactlyOnePlace

(* Each queue serves its tasks as it promises: a task of the pool is given  *)
(* up only after all its retries and never runs more often (worker.go:366), *)
(* and the metrics agree with the queue but for the goroutines between a    *)
(* channel operation and its counter (worker.go:216, 290); tasks never      *)
(* given back leave the in-memory queue in order of priority, although      *)
(* returned ones are appended out of order, and until a task is given back  *)
(* no wake-up of a consumer is lost (queue.go:148).                         *)
ServedAsPromised ==
  /\ Pool!RetryBudget /\ Pool!SendsAccounted
  /\ Memory!FreshInPriorityOrder /\ Memory!WakesUntilNack

(* An accepted task of the pool is settled, if only by dropping its retry,  *)
(* unless the pool is stopped (worker.go:368).                              *)
AcceptedIsSettled == focus = "pool" => Pool!AcceptedIsSettled

(* After Stop every worker ends, although nobody reads the results any     *)
(* more (worker.go:297).                                                   *)
WorkersExit == focus = "pool" => Pool!WorkersExit

(* What the doc comment of Dequeue says, that the highest priority is      *)
(* handed out next (queue.go:421), so that a queued task is handed out at  *)
(* all; a consumer asleep on the lowest level misses it (queue.go:439).    *)
QueuedIsDelivered == Levels!QueuedIsDelivered

-----------------------------------------------------------------------------
(* The instances: in the pool two tasks, one of which always fails, compete *)
(* for a queue of one slot; the in-memory queue has two tasks of the same   *)
(* priority and one higher, and two of three consumers give tasks back;     *)
(* three tasks are on two of three levels; Redis has two tasks, one of them *)
(* without retries, and two crashes or failed commands.                     *)
MCPriority   == [t1 |-> 1, t2 |-> 1, t3 |-> 2]
MCLevelOf    == [t1 |-> 1, t2 |-> 3, t3 |-> 3]
MCPriorityOf == [t1 |-> 1, t2 |-> 0]
MCRetriesOf  == [t1 |-> 0, t2 |-> 1]
=============================================================================
