---------------------------- MODULE QueuesProofs ----------------------------
(***************************************************************************)
(* Proofs about the pool and the queues, for any tasks, consumers, sizes   *)
(* and bounds.  Each component has an inductive invariant of its own; the  *)
(* composition keeps the four because a step of one leaves the others.     *)
(***************************************************************************)
EXTENDS MCQueues, FiniteSetTheorems, SequenceTheorems, WellFoundedInduction, TLAPS

----------------------------------------------------------------------------
(* Places in a queue *)

In(q, t)   == \E i \in 1..Len(q) : q[i] = t
Once(q, t) == \A i, j \in 1..Len(q) : q[i] = t /\ q[j] = t => i = j

\* A set without two elements has none or one.
LEMMA AtMostOne ==
  ASSUME NEW S, \A x, y \in S : x = y
  PROVE  IsFiniteSet(S) /\ Cardinality(S) = IF S = {} THEN 0 ELSE 1
<1>1. CASE S = {}
  BY <1>1, FS_EmptySet
<1>2. CASE S # {}
  <2>1. PICK x \in S : TRUE
    BY <1>2
  <2>2. S = {x}
    BY <2>1
  <2> QED
    BY <1>2, <2>2, FS_Singleton
<1> QED
  BY <1>1, <1>2

\* A task that is queued at most once is counted as one slot or none.
LEMMA InCount ==
  ASSUME NEW S, NEW q \in Seq(S), NEW t, Once(q, t)
  PROVE  Cardinality({i \in 1..Len(q) : q[i] = t}) = IF In(q, t) THEN 1 ELSE 0
<1> DEFINE P == {i \in 1..Len(q) : q[i] = t}
<1>1. \A x, y \in P : x = y
  BY DEF Once
<1>2. Cardinality(P) = IF P = {} THEN 0 ELSE 1
  BY <1>1, AtMostOne
<1>3. P = {} <=> ~In(q, t)
  BY DEF In
<1> QED
  BY <1>2, <1>3

\* A channel takes a value at its end,
LEMMA AppendIn ==
  ASSUME NEW S, NEW q \in Seq(S), NEW x \in S, NEW t
  PROVE  /\ Append(q, x) \in Seq(S) /\ Len(Append(q, x)) = Len(q) + 1
         /\ In(Append(q, x), t) <=> In(q, t) \/ x = t
         /\ Once(q, t) /\ ~(x = t /\ In(q, t)) => Once(Append(q, x), t)
<1> DEFINE r == Append(q, x)
<1>1. /\ r \in Seq(S) /\ Len(q) \in Nat /\ Len(r) = Len(q) + 1 /\ r[Len(q) + 1] = x
      /\ \A i \in 1..Len(q) : r[i] = q[i]
  OBVIOUS
<1> HIDE DEF r
<1>2. In(r, t) <=> In(q, t) \/ x = t
  BY <1>1 DEF In
<1>3. Once(q, t) /\ ~(x = t /\ In(q, t)) => Once(r, t)
  BY <1>1 DEF In, Once
<1> QED
  BY <1>1, <1>2, <1>3 DEF r

\* and gives the first one.
LEMMA TailIn ==
  ASSUME NEW S, NEW q \in Seq(S), q # << >>, NEW t
  PROVE  /\ Head(q) \in S /\ Tail(q) \in Seq(S) /\ Len(Tail(q)) = Len(q) - 1 /\ Len(q) > 0
         /\ In(q, t) <=> Head(q) = t \/ In(Tail(q), t)
         /\ Once(q, t) => Once(Tail(q), t) /\ ~(Head(q) = t /\ In(Tail(q), t))
<1> DEFINE r == Tail(q)
<1>1. /\ r \in Seq(S) /\ Len(q) \in Nat /\ Len(q) > 0 /\ Head(q) = q[1] /\ Head(q) \in S
      /\ Len(r) = Len(q) - 1 /\ \A i \in 1..Len(r) : r[i] = q[i + 1]
  OBVIOUS
<1> HIDE DEF r
<1>2. \A i \in 1..Len(r) : i + 1 \in 1..Len(q) /\ r[i] = q[i + 1]
  BY <1>1
<1>3. In(r, t) \/ Head(q) = t => In(q, t)
  BY <1>1, <1>2 DEF In
<1>4. In(q, t) => In(r, t) \/ Head(q) = t
  <2> SUFFICES ASSUME NEW i \in 1..Len(q), q[i] = t, i # 1 PROVE In(r, t)
    BY <1>1 DEF In
  <2>1. i - 1 \in 1..Len(r) /\ r[i - 1] = t
    BY <1>1, <1>2
  <2> QED
    BY <2>1 DEF In
<1>5. Once(q, t) => Once(r, t)
  BY <1>1, <1>2 DEF Once
<1>6. Once(q, t) => ~(Head(q) = t /\ In(r, t))
  BY <1>1, <1>2 DEF Once, In
<1> QED
  BY <1>1, <1>3, <1>4, <1>5, <1>6 DEF r

----------------------------------------------------------------------------
(* WorkerPool *)

PoolRunning(t) == \E w \in Pool!Workers : wpc[w] \in {"taken", "run"} /\ wtask[w] = t
RunsOnce(t) ==
  \A v, w \in Pool!Workers :
    wpc[v] \in {"taken", "run"} /\ wtask[v] = t /\ wpc[w] \in {"taken", "run"} /\ wtask[w] = t => v = w

\* A task is accepted while the queue, a worker or its retry goroutine has it,
\* and its attempts are its retries and the one that runs or decided it.
PoolTask(t) ==
  /\ Once(taskQueue, t) /\ RunsOnce(t)
  /\ ~(In(taskQueue, t) /\ PoolRunning(t))
  /\ t \in sleeping => ~In(taskQueue, t) /\ ~PoolRunning(t)
  /\ outcome[t] = "accepted" <=> In(taskQueue, t) \/ PoolRunning(t) \/ t \in sleeping
  /\ attempts[t] = poolRetryCount[t]
                     + (IF PoolRunning(t) \/ outcome[t] \in {"completed", "failed"} THEN 1 ELSE 0)
  /\ outcome[t] = "failed" => poolRetryCount[t] = PoolRetries
  /\ t \in sleeping \/ outcome[t] = "dropped" => poolRetryCount[t] > 0

\* Where a worker can be.
PoolPcs == {"none", "select", "taken", "run", "failed", "report", "exited"}

\* A send on a closed channel ends the process.
Panics == \E who \in {"caller", "retry", "worker"} : Pool!Panic(who)

PoolTyped ==
  /\ Pool!TypeOK
  /\ \A w \in Pool!Workers : /\ wpc[w] \in {"taken", "run", "failed"} => wtask[w] \in PoolTasks
                             /\ w > nWorkers => wpc[w] = "none"

PoolInv == PoolTyped /\ (\A t \in PoolTasks : PoolTask(t)) /\ Pool!SendsAccounted

\* The instance counts as FiniteSets does.
LEMMA PoolCardinality == ASSUME NEW S PROVE Pool!Cardinality(S) = Cardinality(S)
  BY DEF Pool!Cardinality, Cardinality, Pool!IsFiniteSet, IsFiniteSet

\* A pool that was just started satisfies its invariant.
LEMMA PoolInit == Pool!Init => PoolInv
<1> SUFFICES ASSUME Pool!Init PROVE PoolInv
  OBVIOUS
<1> USE PoolAssumption DEF Pool!Init, Pool!Workers
<1>1. Pool!TypeOK
  <2>1. /\ nWorkers \in 0..WorkerCap
        /\ wpc \in [Pool!Workers -> PoolPcs]
        /\ wstatus \in [Pool!Workers -> {"none", "idle", "busy", "stopped"}]
        /\ wtask \in [Pool!Workers -> PoolTasks \cup {None}]
    BY DEF PoolPcs
  <2>2. /\ taskQueue \in Seq(PoolTasks) /\ Len(taskQueue) <= PoolSize
        /\ results \in 0..PoolSize /\ consuming \in BOOLEAN
        /\ stopPc \in {"no", "waiting", "closing", "closed"}
        /\ toAdd \in [Scalers -> 0..MaxWorkers]
    OBVIOUS
  <2>3. /\ sleeping \subseteq PoolTasks
        /\ poolRetryCount \in [PoolTasks -> 0..PoolRetries]
        /\ untotalled \in Nat /\ unqueued \in Nat
        /\ metrics \in [{"total", "queued", "completed", "failed"} -> Int]
    OBVIOUS
  <2>4. /\ outcome \in [PoolTasks -> Pool!Settled \cup {"new", "refused", "accepted"}]
        /\ attempts \in [PoolTasks -> Nat]
        /\ panicked \in {"no", "caller", "retry", "worker"}
    BY DEF Pool!Settled
  <2> HIDE DEF Pool!Init, Pool!Workers
  <2> QED
    BY <2>1, <2>2, <2>3, <2>4 DEF Pool!TypeOK, PoolPcs
<1>2. PoolTyped
  BY <1>1 DEF PoolTyped
<1>3. ASSUME NEW t \in PoolTasks PROVE PoolTask(t)
  BY DEF PoolTask, In, Once, RunsOnce, PoolRunning
<1>4. Pool!SendsAccounted
  <2>1. Cardinality(Pool!Taken) = 0 /\ Cardinality(Pool!Unfinished) = 0
    <3>1. Pool!Taken = {} /\ Pool!Unfinished = {}
      BY DEF Pool!Taken, Pool!Unfinished
    <3> QED
      BY <3>1, FS_EmptySet
  <2>2. /\ Len(taskQueue) = 0 /\ untotalled = 0 /\ unqueued = 0
        /\ metrics["queued"] = 0 /\ metrics["total"] = 0
        /\ metrics["completed"] = 0 /\ metrics["failed"] = 0
    OBVIOUS
  <2> HIDE DEF Pool!Init, Pool!Workers
  <2> QED
    BY <2>1, <2>2, PoolCardinality DEF Pool!SendsAccounted
<1> QED
  BY <1>2, <1>3, <1>4 DEF PoolInv

\* Every step of the pool keeps the types.
LEMMA PoolTypeStep == PoolTyped /\ Pool!Next => PoolTyped'
<1> SUFFICES ASSUME PoolTyped, Pool!Next PROVE PoolTyped'
  OBVIOUS
<1> USE PoolAssumption DEF Pool!workerVars, Pool!queueVars, Pool!taskVars
<1>0. /\ nWorkers \in 0..WorkerCap /\ WorkerCap \in Nat
      /\ taskQueue \in Seq(PoolTasks) /\ Len(taskQueue) <= PoolSize /\ Len(taskQueue) \in Nat
      /\ results \in 0..PoolSize
  BY DEF PoolTyped, Pool!TypeOK
<1>a. /\ outcome \in [PoolTasks -> Pool!Settled \cup {"new", "refused", "accepted"}]
      /\ attempts \in [PoolTasks -> Nat] /\ untotalled \in Nat /\ unqueued \in Nat
      /\ metrics \in [{"total", "queued", "completed", "failed"} -> Int]
      /\ poolRetryCount \in [PoolTasks -> 0..PoolRetries] /\ sleeping \subseteq PoolTasks
  BY DEF PoolTyped, Pool!TypeOK
<1>1. ASSUME NEW t \in PoolTasks,
             \/ UNCHANGED <<taskQueue, untotalled, unqueued>>
             \/ Pool!Enqueue(t) /\ Pool!RoomFor(Len(taskQueue))
      PROVE  /\ taskQueue' \in Seq(PoolTasks) /\ Len(taskQueue') <= PoolSize
             /\ untotalled' \in Nat /\ unqueued' \in Nat
  <2>1. CASE UNCHANGED <<taskQueue, untotalled, unqueued>>
    BY <1>0, <1>a, <2>1
  <2>2. CASE Pool!Enqueue(t) /\ Pool!RoomFor(Len(taskQueue))
    <3>1. Len(taskQueue) < PoolSize /\ taskQueue' = Append(taskQueue, t)
      BY <2>2 DEF Pool!Enqueue, Pool!RoomFor
    <3>2. taskQueue' \in Seq(PoolTasks) /\ Len(taskQueue') <= PoolSize
      BY <1>0, <3>1, AppendIn
    <3>3. untotalled' = untotalled + 1 /\ unqueued' = unqueued + 1
      BY <2>2 DEF Pool!Enqueue
    <3> QED
      BY <1>a, <3>2, <3>3
  <2> QED
    BY <1>1, <2>1, <2>2
<1>2. CASE Panics
  BY <1>2 DEF Panics, Pool!Panic, PoolTyped, Pool!TypeOK
<1>3. ASSUME NEW t \in PoolTasks, Pool!Submit(t), ~Panics PROVE PoolTyped'
  <2>1. /\ UNCHANGED <<nWorkers, wpc, wstatus, wtask, results, consuming, sleeping, poolRetryCount,
                      attempts, stopPc, toAdd, metrics, panicked>>
        /\ \/ UNCHANGED <<taskQueue, untotalled, unqueued>>
           \/ Pool!Enqueue(t) /\ Pool!RoomFor(Len(taskQueue))
    BY <1>3 DEF Pool!Submit, Panics
  <2>2. outcome' \in [PoolTasks -> Pool!Settled \cup {"new", "refused", "accepted"}]
    <3>1. PICK o \in {"new", "refused", "accepted"} : outcome' = [outcome EXCEPT ![t] = o]
      BY <1>3 DEF Pool!Submit, Panics
    <3> QED
      BY <1>a, <3>1
  <2>3. /\ taskQueue' \in Seq(PoolTasks) /\ Len(taskQueue') <= PoolSize
        /\ untotalled' \in Nat /\ unqueued' \in Nat
    BY <1>1, <2>1
  <2> QED
    BY <2>1, <2>2, <2>3 DEF PoolTyped, Pool!TypeOK
<1>4. ASSUME NEW t \in PoolTasks, Pool!Resubmit(t), ~Panics PROVE PoolTyped'
  <2>1. /\ UNCHANGED <<nWorkers, wpc, wstatus, wtask, results, consuming, poolRetryCount,
                      attempts, stopPc, toAdd, metrics, panicked>>
        /\ \/ UNCHANGED <<taskQueue, untotalled, unqueued>>
           \/ Pool!Enqueue(t) /\ Pool!RoomFor(Len(taskQueue))
        /\ sleeping' \subseteq sleeping
    BY <1>4 DEF Pool!Resubmit, Pool!Woken, Panics
  <2>2. outcome' \in [PoolTasks -> Pool!Settled \cup {"new", "refused", "accepted"}]
    <3>1. outcome' = outcome \/ outcome' = [outcome EXCEPT ![t] = "dropped"]
      BY <1>4 DEF Pool!Resubmit, Panics
    <3> QED
      BY <1>a, <3>1 DEF Pool!Settled
  <2>3. /\ taskQueue' \in Seq(PoolTasks) /\ Len(taskQueue') <= PoolSize
        /\ untotalled' \in Nat /\ unqueued' \in Nat
    BY <1>1, <2>1
  <2> QED
    BY <2>1, <2>2, <2>3 DEF PoolTyped, Pool!TypeOK
<1>5. ASSUME NEW w \in Pool!Workers, Pool!Receive(w) PROVE PoolTyped'
  <2>1. Head(taskQueue) \in PoolTasks /\ taskQueue' \in Seq(PoolTasks) /\ Len(taskQueue') <= PoolSize
    BY <1>0, <1>5, TailIn DEF Pool!Receive
  <2>2. UNCHANGED <<nWorkers, wstatus, results, consuming, untotalled, unqueued, sleeping,
                    poolRetryCount, outcome, stopPc, toAdd, metrics, panicked>>
    BY <1>5 DEF Pool!Receive
  <2>3. /\ wpc' \in [Pool!Workers -> PoolPcs]
        /\ wtask' \in [Pool!Workers -> PoolTasks \cup {None}]
        /\ \A v \in Pool!Workers : /\ wpc'[v] \in {"taken", "run", "failed"} => wtask'[v] \in PoolTasks
                                   /\ v > nWorkers => wpc'[v] = "none"
    BY <1>5, <2>1 DEF Pool!Receive, PoolTyped, Pool!TypeOK, PoolPcs
  <2>4. attempts' \in [PoolTasks -> Nat]
    <3>1. attempts' = [attempts EXCEPT ![Head(taskQueue)] = @ + 1]
      BY <1>5 DEF Pool!Receive
    <3> QED
      BY <1>a, <2>1, <3>1
  <2> QED
    BY <2>1, <2>2, <2>3, <2>4 DEF PoolTyped, Pool!TypeOK, PoolPcs
<1>15. ASSUME NEW w \in Pool!Workers, Pool!Begin(w) \/ Pool!CountFailed(w) PROVE PoolTyped'
  <2>1. UNCHANGED <<nWorkers, wtask, taskQueue, results, consuming, untotalled, unqueued, sleeping,
                    poolRetryCount, outcome, attempts, stopPc, toAdd, panicked>>
    BY <1>15 DEF Pool!Begin, Pool!CountFailed
  <2>2. /\ wpc' \in [Pool!Workers -> PoolPcs]
        /\ wstatus' \in [Pool!Workers -> {"none", "idle", "busy", "stopped"}]
        /\ \A v \in Pool!Workers : /\ wpc'[v] \in {"taken", "run", "failed"} => wpc[v] \in {"taken", "run", "failed"}
                                   /\ wpc[v] = "none" => wpc'[v] = "none"
    BY <1>15 DEF Pool!Begin, Pool!CountFailed, PoolTyped, Pool!TypeOK, PoolPcs
  <2>3. metrics' \in [{"total", "queued", "completed", "failed"} -> Int]
    BY <1>a, <1>15 DEF Pool!Begin, Pool!CountFailed, Pool!FailedMetrics
  <2> QED
    BY <2>1, <2>2, <2>3 DEF PoolTyped, Pool!TypeOK, PoolPcs
<1>6. ASSUME NEW w \in Pool!Workers, Pool!Exit(w) PROVE PoolTyped'
  BY <1>6 DEF Pool!Exit, PoolTyped, Pool!TypeOK, PoolPcs
<1>7. ASSUME NEW w \in Pool!Workers, Pool!ExecuteOk(w) PROVE PoolTyped'
  BY <1>7 DEF Pool!ExecuteOk, PoolTyped, Pool!TypeOK, Pool!Settled, PoolPcs
<1>8. ASSUME NEW w \in Pool!Workers, Pool!ExecuteFails(w) PROVE PoolTyped'
  <2>1. wtask[w] \in PoolTasks /\ poolRetryCount[wtask[w]] \in 0..PoolRetries
    BY <1>8 DEF Pool!ExecuteFails, PoolTyped, Pool!TypeOK
  <2>2. UNCHANGED <<nWorkers, wstatus, wtask, taskQueue, results, consuming, untotalled, unqueued,
                    attempts, stopPc, toAdd, metrics, panicked>>
    BY <1>8 DEF Pool!ExecuteFails
  <2>3. /\ wpc' \in [Pool!Workers -> PoolPcs]
        /\ \A v \in Pool!Workers : /\ wpc'[v] \in {"taken", "run", "failed"} => wpc[v] \in {"taken", "run", "failed"}
                                   /\ wpc[v] = "none" => wpc'[v] = "none"
    BY <1>8 DEF Pool!ExecuteFails, PoolTyped, Pool!TypeOK, PoolPcs
  <2>4. /\ poolRetryCount' \in [PoolTasks -> 0..PoolRetries] /\ sleeping' \subseteq PoolTasks
        /\ outcome' \in [PoolTasks -> Pool!Settled \cup {"new", "refused", "accepted"}]
    BY <1>a, <1>8, <2>1 DEF Pool!ExecuteFails, Pool!MayRetry, Pool!Settled
  <2> QED
    BY <2>2, <2>3, <2>4 DEF PoolTyped, Pool!TypeOK, PoolPcs
<1>9. ASSUME NEW w \in Pool!Workers, Pool!Report(w), ~Panics PROVE PoolTyped'
  <2>1. UNCHANGED <<nWorkers, taskQueue, consuming, untotalled, unqueued, sleeping, poolRetryCount, outcome,
                    attempts, stopPc, toAdd, metrics, panicked>>
    BY <1>9 DEF Pool!Report, Panics
  <2>2. results' \in 0..PoolSize
    BY <1>0, <1>9 DEF Pool!Report, Pool!RoomFor, Panics
  <2>3. /\ wpc' \in [Pool!Workers -> PoolPcs]
        /\ wstatus' \in [Pool!Workers -> {"none", "idle", "busy", "stopped"}]
        /\ wtask' \in [Pool!Workers -> PoolTasks \cup {None}]
        /\ \A v \in Pool!Workers : /\ wpc'[v] \in {"taken", "run", "failed"} => wtask'[v] \in PoolTasks
                                   /\ v > nWorkers => wpc'[v] = "none"
    <3>1. /\ wpc' = [wpc EXCEPT ![w] = "select"]
          /\ wstatus' = [wstatus EXCEPT ![w] = "idle"]
          /\ wtask' = [wtask EXCEPT ![w] = None] /\ wpc[w] = "report"
      BY <1>9 DEF Pool!Report, Panics
    <3> QED
      BY <3>1 DEF PoolTyped, Pool!TypeOK, PoolPcs
  <2> QED
    BY <2>1, <2>2, <2>3 DEF PoolTyped, Pool!TypeOK, PoolPcs
<1>10. CASE Pool!CountTotal \/ Pool!CountQueued \/ Pool!ProcessResult \/ Pool!ProcessResultsExits
  <2>1. /\ UNCHANGED <<nWorkers, wpc, wstatus, wtask, taskQueue, sleeping, poolRetryCount, outcome,
                      attempts, stopPc, toAdd, panicked>>
        /\ consuming' \in {consuming, FALSE}
    BY <1>10 DEF Pool!CountTotal, Pool!CountQueued, Pool!ProcessResult, Pool!ProcessResultsExits
  <2>2. results' \in 0..PoolSize /\ untotalled' \in Nat /\ unqueued' \in Nat
    <3>1. \/ UNCHANGED <<results, unqueued>> /\ untotalled' = untotalled - 1 /\ untotalled > 0
          \/ UNCHANGED <<results, untotalled>> /\ unqueued' = unqueued - 1 /\ unqueued > untotalled
          \/ UNCHANGED <<untotalled, unqueued>> /\ results' = results - 1 /\ results > 0
          \/ UNCHANGED <<results, untotalled, unqueued>>
      BY <1>10 DEF Pool!CountTotal, Pool!CountQueued, Pool!ProcessResult, Pool!ProcessResultsExits
    <3> QED
      BY <1>0, <1>a, <3>1
  <2>3. metrics' \in [{"total", "queued", "completed", "failed"} -> Int]
    BY <1>a, <1>10 DEF Pool!CountTotal, Pool!CountQueued, Pool!ProcessResult, Pool!ProcessResultsExits
  <2> QED
    BY <2>1, <2>2, <2>3 DEF PoolTyped, Pool!TypeOK
<1>11. CASE Pool!Stop \/ Pool!CloseTaskQueue \/ Pool!CloseResultQueue
  BY <1>11 DEF Pool!Stop, Pool!CloseTaskQueue, Pool!CloseResultQueue, PoolTyped, Pool!TypeOK
<1>12. ASSUME NEW s \in Scalers, NEW count \in 1..MaxWorkers, Pool!ScaleUp(s, count) PROVE PoolTyped'
  BY <1>12 DEF Pool!ScaleUp, Pool!Allowed, PoolTyped, Pool!TypeOK
<1>13. ASSUME NEW s \in Scalers, Pool!AddWorker(s) PROVE PoolTyped'
  BY <1>13 DEF Pool!AddWorker, Pool!Workers, PoolTyped, Pool!TypeOK, PoolPcs
<1>14. CASE Pool!ScaleDown
  <2>1. wstatus' \in [Pool!Workers -> {"none", "idle", "busy", "stopped"}]
    BY <1>14 DEF Pool!ScaleDown, PoolTyped, Pool!TypeOK
  <2> QED
    BY <1>14, <2>1 DEF Pool!ScaleDown, PoolTyped, Pool!TypeOK
<1> QED
  BY <1>2, <1>3, <1>4, <1>5, <1>6, <1>7, <1>8, <1>9, <1>10, <1>11, <1>12, <1>13, <1>14, <1>15
  DEF Pool!Next, Pool!PoolStep, Pool!WorkerStep

\* A task that a step does not touch keeps its place and its attempts.
LEMMA PoolTaskFrame ==
  ASSUME PoolTyped, NEW t \in PoolTasks, PoolTask(t),
         Once(taskQueue', t), In(taskQueue', t) <=> In(taskQueue, t),
         \A w \in Pool!Workers : wpc'[w] \in {"taken", "run"} /\ wtask'[w] = t <=> wpc[w] \in {"taken", "run"} /\ wtask[w] = t,
         t \in sleeping' <=> t \in sleeping,
         outcome'[t] = outcome[t], attempts'[t] = attempts[t],
         poolRetryCount'[t] = poolRetryCount[t]
  PROVE  PoolTask(t)'
<1>1. RunsOnce(t)' /\ (PoolRunning(t)' <=> PoolRunning(t))
  BY DEF PoolTask, RunsOnce, PoolRunning, Pool!Workers
<1> QED
  BY <1>1 DEF PoolTask

\* Submit and the retry goroutine put a task into the channel, or drop it.
LEMMA PoolSubmitStep ==
  ASSUME PoolTyped, \A u \in PoolTasks : PoolTask(u),
         NEW n \in PoolTasks, Pool!Submit(n) \/ Pool!Resubmit(n), ~Panics, NEW t \in PoolTasks
  PROVE  PoolTask(t)'
<1>1. /\ taskQueue \in Seq(PoolTasks) /\ sleeping \subseteq PoolTasks
      /\ outcome \in [PoolTasks -> Pool!Settled \cup {"new", "refused", "accepted"}]
      /\ attempts \in [PoolTasks -> Nat] /\ poolRetryCount \in [PoolTasks -> 0..PoolRetries]
  BY DEF PoolTyped, Pool!TypeOK
<1>2. /\ UNCHANGED <<wpc, wtask, attempts, poolRetryCount>>
      /\ \/ /\ outcome[n] = "new" /\ sleeping' = sleeping
            /\ \/ taskQueue' = Append(taskQueue, n) /\ outcome' = [outcome EXCEPT ![n] = "accepted"]
               \/ taskQueue' = taskQueue /\ outcome' = [outcome EXCEPT ![n] = "refused"]
         \/ /\ n \in sleeping /\ sleeping' = sleeping \ {n}
            /\ \/ taskQueue' = Append(taskQueue, n) /\ outcome' = outcome
               \/ taskQueue' = taskQueue /\ outcome' = [outcome EXCEPT ![n] = "dropped"]
  BY DEF Pool!Submit, Pool!Resubmit, Pool!Enqueue, Pool!Woken, Pool!workerVars, Panics
<1>3. PoolTask(t)
  OBVIOUS
<1>4. /\ In(Append(taskQueue, n), t) <=> In(taskQueue, t) \/ n = t
      /\ Once(taskQueue, t) /\ ~(n = t /\ In(taskQueue, t)) => Once(Append(taskQueue, n), t)
  BY <1>1, AppendIn
<1>5. CASE n # t
  <2>1. Once(taskQueue', t) /\ (In(taskQueue', t) <=> In(taskQueue, t))
    BY <1>2, <1>3, <1>4, <1>5 DEF PoolTask
  <2> QED
    BY <1>1, <1>2, <1>3, <1>5, <2>1, PoolTaskFrame
<1>6. CASE n = t
  <2>1. RunsOnce(t)' /\ (PoolRunning(t)' <=> PoolRunning(t))
    BY <1>2, <1>3 DEF PoolTask, RunsOnce, PoolRunning, Pool!Workers
  <2>2. ~In(taskQueue, t) /\ ~PoolRunning(t) /\ Once(taskQueue', t) /\ t \notin sleeping'
    BY <1>2, <1>3, <1>4, <1>6 DEF PoolTask
  <2>3. CASE taskQueue' = Append(taskQueue, n)
    <3>1. In(taskQueue', t) /\ outcome'[t] = "accepted"
      BY <1>1, <1>2, <1>3, <1>4, <1>6, <2>2, <2>3 DEF PoolTask, In
    <3> QED
      BY <1>2, <1>3, <1>6, <2>1, <2>2, <3>1 DEF PoolTask
  <2>4. CASE taskQueue' # Append(taskQueue, n)
    <3>1. /\ taskQueue' = taskQueue
          /\ outcome'[t] = "refused" \/ (outcome'[t] = "dropped" /\ t \in sleeping)
      BY <1>1, <1>2, <1>6, <2>4
    <3> QED
      BY <1>2, <1>3, <1>6, <2>1, <2>2, <3>1 DEF PoolTask
  <2> QED
    BY <2>3, <2>4
<1> QED
  BY <1>5, <1>6

\* A worker takes a task out of the channel.
LEMMA PoolReceiveStep ==
  ASSUME PoolTyped, \A u \in PoolTasks : PoolTask(u),
         NEW k \in Pool!Workers, Pool!Receive(k), NEW t \in PoolTasks
  PROVE  PoolTask(t)'
<1> DEFINE h == Head(taskQueue)
<1>1. /\ taskQueue \in Seq(PoolTasks) /\ taskQueue # << >>
      /\ wpc \in [Pool!Workers -> PoolPcs]
      /\ wtask \in [Pool!Workers -> PoolTasks \cup {None}]
      /\ attempts \in [PoolTasks -> Nat] /\ poolRetryCount \in [PoolTasks -> 0..PoolRetries]
  BY DEF PoolTyped, Pool!TypeOK, Pool!Receive, PoolPcs
<1>2. /\ UNCHANGED <<sleeping, poolRetryCount, outcome>> /\ taskQueue' = Tail(taskQueue)
      /\ wpc[k] = "select" /\ wpc' = [wpc EXCEPT ![k] = "taken"] /\ wtask' = [wtask EXCEPT ![k] = h]
      /\ attempts' = [attempts EXCEPT ![h] = @ + 1]
  BY DEF Pool!Receive
<1>3. PoolTask(t)
  OBVIOUS
<1>4. /\ h \in PoolTasks
      /\ In(taskQueue, t) <=> h = t \/ In(Tail(taskQueue), t)
      /\ Once(taskQueue, t) => Once(Tail(taskQueue), t) /\ ~(h = t /\ In(Tail(taskQueue), t))
  BY <1>1, TailIn
<1> HIDE DEF h
<1>5. /\ wpc'[k] = "taken" /\ wtask'[k] = h
      /\ \A w \in Pool!Workers \ {k} : wpc'[w] = wpc[w] /\ wtask'[w] = wtask[w]
  BY <1>1, <1>2
<1>6. CASE h # t
  <2>1. Once(taskQueue', t) /\ (In(taskQueue', t) <=> In(taskQueue, t))
    BY <1>2, <1>3, <1>4, <1>6 DEF PoolTask
  <2>2. attempts'[t] = attempts[t]
    BY <1>1, <1>2, <1>6
  <2> QED
    BY <1>2, <1>3, <1>5, <1>6, <2>1, <2>2, PoolTaskFrame
<1>7. CASE h = t
  <2>1. In(taskQueue, t) /\ ~PoolRunning(t) /\ t \notin sleeping
    BY <1>3, <1>4, <1>7 DEF PoolTask
  <2>2. Once(taskQueue', t) /\ ~In(taskQueue', t)
    BY <1>2, <1>3, <1>4, <1>7 DEF PoolTask
  <2>3. RunsOnce(t)' /\ PoolRunning(t)'
    BY <1>5, <1>7, <2>1 DEF RunsOnce, PoolRunning, Pool!Workers
  <2>4. attempts'[t] = attempts[t] + 1
    BY <1>1, <1>2, <1>7
  <2>5. outcome[t] = "accepted" /\ attempts[t] = poolRetryCount[t]
    BY <1>1, <1>3, <2>1 DEF PoolTask
  <2> QED
    BY <1>1, <1>2, <2>1, <2>2, <2>3, <2>4, <2>5 DEF PoolTask
<1> QED
  BY <1>6, <1>7

\* A run ends: the task is completed, given up or left to its retry goroutine.
LEMMA PoolExecuteStep ==
  ASSUME PoolTyped, \A u \in PoolTasks : PoolTask(u),
         NEW k \in Pool!Workers, Pool!ExecuteOk(k) \/ Pool!ExecuteFails(k), NEW t \in PoolTasks
  PROVE  PoolTask(t)'
<1> DEFINE n == wtask[k]
<1>1. /\ n \in PoolTasks
      /\ wpc \in [Pool!Workers -> PoolPcs]
      /\ outcome \in [PoolTasks -> Pool!Settled \cup {"new", "refused", "accepted"}]
      /\ attempts \in [PoolTasks -> Nat] /\ poolRetryCount \in [PoolTasks -> 0..PoolRetries]
  BY DEF PoolTyped, Pool!TypeOK, Pool!ExecuteOk, Pool!ExecuteFails, PoolPcs
<1>2. /\ UNCHANGED <<taskQueue, wtask, attempts>>
      /\ wpc[k] = "run" /\ \E p \in {"failed", "report"} : wpc' = [wpc EXCEPT ![k] = p]
      /\ \/ UNCHANGED <<sleeping, poolRetryCount>> /\ outcome' = [outcome EXCEPT ![n] = "completed"]
         \/ /\ poolRetryCount' = [poolRetryCount EXCEPT ![n] = @ + 1]
            /\ sleeping' = sleeping \cup {n} /\ outcome' = outcome
         \/ /\ ~(poolRetryCount[n] < PoolRetries) /\ UNCHANGED <<sleeping, poolRetryCount>>
            /\ outcome' = [outcome EXCEPT ![n] = "failed"]
  BY DEF Pool!ExecuteOk, Pool!ExecuteFails, Pool!MayRetry, Pool!queueVars
<1>3. PoolTask(t)
  OBVIOUS
<1>4. wpc'[k] \in {"failed", "report"} /\ \A w \in Pool!Workers \ {k} : wpc'[w] = wpc[w]
  BY <1>1, <1>2
<1>5. CASE n # t
  <2>1. /\ Once(taskQueue', t) /\ (In(taskQueue', t) <=> In(taskQueue, t))
        /\ \A w \in Pool!Workers : wpc'[w] \in {"taken", "run"} /\ wtask'[w] = t <=> wpc[w] \in {"taken", "run"} /\ wtask[w] = t
    BY <1>2, <1>3, <1>4, <1>5 DEF PoolTask
  <2>2. (t \in sleeping' <=> t \in sleeping) /\ attempts'[t] = attempts[t]
    BY <1>2, <1>5
  <2>3. outcome'[t] = outcome[t] /\ poolRetryCount'[t] = poolRetryCount[t]
    BY <1>1, <1>2, <1>5
  <2> QED
    BY <1>3, <2>1, <2>2, <2>3, PoolTaskFrame
<1>6. CASE n = t
  <2>1. PoolRunning(t) /\ ~In(taskQueue, t) /\ t \notin sleeping /\ outcome[t] = "accepted"
    BY <1>2, <1>3, <1>6 DEF PoolTask, PoolRunning
  <2>2. RunsOnce(t)' /\ ~PoolRunning(t)'
    BY <1>2, <1>3, <1>4, <1>6 DEF PoolTask, RunsOnce, PoolRunning, Pool!Workers
  <2>3. Once(taskQueue', t) /\ ~In(taskQueue', t)
    BY <1>2, <1>3, <2>1 DEF PoolTask
  <2>4. attempts[t] = poolRetryCount[t] + 1 /\ poolRetryCount[t] \in 0..PoolRetries /\ attempts'[t] = attempts[t]
    BY <1>1, <1>2, <1>3, <2>1 DEF PoolTask
  <2>5. \/ t \notin sleeping' /\ poolRetryCount'[t] = poolRetryCount[t] /\ outcome'[t] = "completed"
        \/ t \in sleeping' /\ poolRetryCount'[t] = poolRetryCount[t] + 1 /\ outcome'[t] = "accepted"
        \/ /\ t \notin sleeping' /\ poolRetryCount'[t] = poolRetryCount[t] /\ outcome'[t] = "failed"
           /\ ~(poolRetryCount[t] < PoolRetries)
    BY <1>1, <1>2, <1>6, <2>1
  <2> QED
    BY <2>2, <2>3, <2>4, <2>5, PoolAssumption DEF PoolTask
<1> QED
  BY <1>5, <1>6

\* A counter of the metrics moves by one, the others stay.
Moves(m, d) ==
  /\ metrics'[m] = metrics[m] + d
  /\ \A n \in {"total", "queued", "completed", "failed"} \ {m} : metrics'[n] = metrics[n]

\* The two sums of SendsAccounted, and what the steps of the pool do to them.
QueuedSum(queued, waits, late, taken) == queued = waits - late + taken
TotalSum(total, late, waits, runs, good, bad) == total + late = waits + runs + good + bad

LEMMA SumsMove ==
  ASSUME NEW q \in Int, NEW l \in Int, NEW u \in Int, NEW k \in Int, NEW a \in Int,
         NEW v \in Int, NEW r \in Int, NEW d \in Int, NEW g \in Int
  PROVE  /\ QueuedSum(q, l, u, k) =>
              /\ QueuedSum(q, l - 1, u, k + 1) /\ QueuedSum(q - 1, l, u, k - 1)
              /\ QueuedSum(q, l + 1, u + 1, k) /\ QueuedSum(q + 1, l, u - 1, k)
         /\ TotalSum(a, v, l, r, d, g) =>
              /\ TotalSum(a, v, l - 1, r + 1, d, g) /\ TotalSum(a + 1, v - 1, l, r, d, g)
              /\ TotalSum(a, v + 1, l + 1, r, d, g)
              /\ TotalSum(a, v, l, r - 1, d + 1, g) /\ TotalSum(a, v, l, r - 1, d, g + 1)
BY DEF QueuedSum, TotalSum

\* Every send is waiting, in a worker's hands or counted as finished.
LEMMA PoolAccountsStep ==
  ASSUME PoolTyped, PoolTyped', Pool!SendsAccounted, Pool!Next
  PROVE  Pool!SendsAccounted'
<1> DEFINE T == Pool!Taken
           R == Pool!Unfinished
           q == metrics["queued"]
           l == Len(taskQueue)
           k == Cardinality(T)
           a == metrics["total"]
           r == Cardinality(R)
           d == metrics["completed"]
           g == metrics["failed"]
<1> USE DEF Pool!workerVars, Pool!queueVars, Pool!taskVars
<1>1. Pool!SendsAccounted <=> QueuedSum(q, l, unqueued, k) /\ TotalSum(a, untotalled, l, r, d, g)
  BY PoolCardinality DEF Pool!SendsAccounted, QueuedSum, TotalSum
<1>2. QueuedSum(q', l', unqueued', k') /\ TotalSum(a', untotalled', l', r', d', g') => Pool!SendsAccounted'
  BY PoolCardinality DEF Pool!SendsAccounted, QueuedSum, TotalSum
<1>3. /\ taskQueue \in Seq(PoolTasks) /\ Len(taskQueue) \in Nat
      /\ wpc \in [Pool!Workers -> PoolPcs] /\ nWorkers \in 0..WorkerCap
      /\ metrics \in [{"total", "queued", "completed", "failed"} -> Int]
      /\ untotalled \in Int /\ unqueued \in Int
  BY DEF PoolTyped, Pool!TypeOK, PoolPcs
<1>5. IsFiniteSet(T) /\ IsFiniteSet(R) /\ IsFiniteSet(T') /\ IsFiniteSet(R')
  <2>1. IsFiniteSet(Pool!Workers)
    BY PoolAssumption, FS_Interval DEF Pool!Workers
  <2>2. T \subseteq Pool!Workers /\ R \subseteq Pool!Workers
        /\ T' \subseteq Pool!Workers /\ R' \subseteq Pool!Workers
    BY DEF Pool!Taken, Pool!Unfinished, Pool!Workers
  <2> QED
    BY <2>1, <2>2, FS_Subset
<1>6. k \in Int /\ r \in Int
  <2> HIDE DEF T, R
  <2> QED
    BY <1>5, FS_CardinalityType
<1>7. /\ q \in Int /\ l \in Int /\ a \in Int /\ d \in Int /\ g \in Int
      /\ untotalled \in Int /\ unqueued \in Int
  BY <1>3
<1>8. /\ QueuedSum(q, l, unqueued, k) /\ TotalSum(a, untotalled, l, r, d, g)
      /\ QueuedSum(q, l - 1, unqueued, k + 1) /\ QueuedSum(q - 1, l, unqueued, k - 1)
      /\ QueuedSum(q, l + 1, unqueued + 1, k) /\ QueuedSum(q + 1, l, unqueued - 1, k)
      /\ TotalSum(a, untotalled, l - 1, r + 1, d, g) /\ TotalSum(a + 1, untotalled - 1, l, r, d, g)
      /\ TotalSum(a, untotalled + 1, l + 1, r, d, g)
      /\ TotalSum(a, untotalled, l, r - 1, d + 1, g) /\ TotalSum(a, untotalled, l, r - 1, d, g + 1)
  <2> HIDE DEF q, l, k, a, r, d, g
  <2> QED
    BY <1>1, <1>6, <1>7, SumsMove
<1>9. ASSUME UNCHANGED metrics PROVE q' = q /\ a' = a /\ d' = d /\ g' = g
  BY <1>9
<1>10. /\ Moves("queued", -1) \/ Moves("queued", 1) => a' = a /\ d' = d /\ g' = g
       /\ Moves("queued", -1) => q' = q - 1
       /\ Moves("queued", 1) => q' = q + 1
       /\ Moves("total", 1) => a' = a + 1 /\ q' = q /\ d' = d /\ g' = g
       /\ Moves("completed", 1) => a' = a /\ q' = q /\ d' = d + 1 /\ g' = g
       /\ Moves("failed", 1) => a' = a /\ q' = q /\ d' = d /\ g' = g + 1
  BY <1>3, <1>7 DEF Moves
<1>a. ASSUME NEW w \in Pool!Workers, \A v \in Pool!Workers \ {w} : wpc'[v] = wpc[v]
      PROVE  /\ wpc[w] = "taken" /\ wpc'[w] # "taken" => k' = k - 1
             /\ wpc[w] # "taken" /\ wpc'[w] = "taken" => k' = k + 1
             /\ (wpc[w] = "taken" <=> wpc'[w] = "taken") => k' = k
  <2>1. /\ wpc[w] = "taken" /\ wpc'[w] # "taken" => w \in T /\ T' = T \ {w}
        /\ wpc[w] # "taken" /\ wpc'[w] = "taken" => w \notin T /\ T' = T \cup {w}
        /\ (wpc[w] = "taken" <=> wpc'[w] = "taken") => T' = T
    BY <1>a DEF Pool!Taken, Pool!Workers
  <2> HIDE DEF T
  <2> QED
    BY <1>5, <2>1, FS_AddElement, FS_RemoveElement
<1>b. ASSUME NEW w \in Pool!Workers, \A v \in Pool!Workers \ {w} : wpc'[v] = wpc[v]
      PROVE  LET Open == {"taken", "run", "failed"} IN
             /\ wpc[w] \in Open /\ wpc'[w] \notin Open => r' = r - 1
             /\ wpc[w] \notin Open /\ wpc'[w] \in Open => r' = r + 1
             /\ (wpc[w] \in Open <=> wpc'[w] \in Open) => r' = r
  <2> DEFINE Open == {"taken", "run", "failed"}
  <2>1. /\ wpc[w] \in Open /\ wpc'[w] \notin Open => w \in R /\ R' = R \ {w}
        /\ wpc[w] \notin Open /\ wpc'[w] \in Open => w \notin R /\ R' = R \cup {w}
        /\ (wpc[w] \in Open <=> wpc'[w] \in Open) => R' = R
    BY <1>b DEF Pool!Unfinished, Pool!Workers
  <2> HIDE DEF R
  <2> QED
    BY <1>5, <2>1, FS_AddElement, FS_RemoveElement
<1>c. ASSUME UNCHANGED wpc PROVE k' = k /\ r' = r
  BY <1>c DEF Pool!Taken, Pool!Unfinished, Pool!Workers
<1>11. ASSUME NEW w \in Pool!Workers, Pool!Receive(w) PROVE Pool!SendsAccounted'
  <2>1. /\ UNCHANGED <<metrics, untotalled, unqueued>> /\ wpc[w] = "select" /\ wpc'[w] = "taken"
        /\ \A v \in Pool!Workers \ {w} : wpc'[v] = wpc[v]
    BY <1>3, <1>11 DEF Pool!Receive
  <2>2. l' = l - 1
    BY <1>3, <1>11, TailIn DEF Pool!Receive
  <2>3. k' = k + 1 /\ r' = r + 1 /\ q' = q /\ a' = a /\ d' = d /\ g' = g
    BY <1>9, <1>a, <1>b, <2>1
  <2> HIDE DEF q, l, k, a, r, d, g
  <2> QED
    BY <1>2, <1>8, <2>1, <2>2, <2>3
<1>12. ASSUME NEW w \in Pool!Workers, Pool!Begin(w) PROVE Pool!SendsAccounted'
  <2>1. /\ UNCHANGED <<taskQueue, untotalled, unqueued>> /\ wpc[w] = "taken" /\ wpc'[w] = "run"
        /\ \A v \in Pool!Workers \ {w} : wpc'[v] = wpc[v]
    BY <1>3, <1>12 DEF Pool!Begin
  <2>2. Moves("queued", -1)
    BY <1>3, <1>12 DEF Pool!Begin, Moves
  <2>3. k' = k - 1 /\ r' = r /\ q' = q - 1 /\ a' = a /\ d' = d /\ g' = g /\ l' = l
    BY <1>10, <1>a, <1>b, <2>1, <2>2
  <2> HIDE DEF q, l, k, a, r, d, g
  <2> QED
    BY <1>2, <1>8, <2>1, <2>3
<1>13. ASSUME NEW w \in Pool!Workers, Pool!ExecuteOk(w) \/ Pool!CountFailed(w) PROVE Pool!SendsAccounted'
  <2>1. /\ UNCHANGED <<taskQueue, untotalled, unqueued>> /\ wpc[w] \in {"run", "failed"} /\ wpc'[w] = "report"
        /\ \A v \in Pool!Workers \ {w} : wpc'[v] = wpc[v]
    BY <1>3, <1>13 DEF Pool!ExecuteOk, Pool!CountFailed
  <2>2. Moves("completed", 1) \/ Moves("failed", 1)
    BY <1>3, <1>13 DEF Pool!ExecuteOk, Pool!CountFailed, Pool!FailedMetrics, Moves
  <2>3. /\ k' = k /\ r' = r - 1 /\ l' = l /\ a' = a /\ q' = q
        /\ (d' = d + 1 /\ g' = g) \/ (d' = d /\ g' = g + 1)
    BY <1>10, <1>a, <1>b, <2>1, <2>2
  <2> HIDE DEF q, l, k, a, r, d, g
  <2> QED
    BY <1>2, <1>8, <2>1, <2>3
<1>14. ASSUME NEW n \in PoolTasks, Pool!Submit(n) \/ Pool!Resubmit(n), ~Panics PROVE Pool!SendsAccounted'
  <2>1. /\ UNCHANGED <<metrics, wpc>>
        /\ \/ /\ taskQueue' = Append(taskQueue, n)
              /\ untotalled' = untotalled + 1 /\ unqueued' = unqueued + 1
           \/ UNCHANGED <<taskQueue, untotalled, unqueued>>
    BY <1>14 DEF Pool!Submit, Pool!Resubmit, Pool!Enqueue, Panics
  <2>2. Len(Append(taskQueue, n)) = Len(taskQueue) + 1
    BY <1>3, AppendIn
  <2>3. \/ l' = l + 1 /\ untotalled' = untotalled + 1 /\ unqueued' = unqueued + 1
        \/ l' = l /\ untotalled' = untotalled /\ unqueued' = unqueued
    BY <2>1, <2>2
  <2>4. k' = k /\ r' = r /\ q' = q /\ a' = a /\ d' = d /\ g' = g
    BY <1>9, <1>c, <2>1
  <2> HIDE DEF q, l, k, a, r, d, g
  <2> QED
    BY <1>2, <1>8, <2>3, <2>4
<1>15. CASE Pool!CountTotal \/ Pool!CountQueued
  <2>1. /\ UNCHANGED <<taskQueue, wpc>>
        /\ \/ Moves("total", 1) /\ untotalled' = untotalled - 1 /\ unqueued' = unqueued
           \/ Moves("queued", 1) /\ unqueued' = unqueued - 1 /\ untotalled' = untotalled
    BY <1>3, <1>15 DEF Pool!CountTotal, Pool!CountQueued, Moves
  <2>2. /\ k' = k /\ r' = r /\ l' = l /\ d' = d /\ g' = g
        /\ \/ a' = a + 1 /\ q' = q /\ untotalled' = untotalled - 1 /\ unqueued' = unqueued
           \/ a' = a /\ q' = q + 1 /\ unqueued' = unqueued - 1 /\ untotalled' = untotalled
    BY <1>10, <1>c, <2>1
  <2> HIDE DEF q, l, k, a, r, d, g
  <2> QED
    BY <1>2, <1>8, <2>2
<1>16. ASSUME UNCHANGED <<metrics, taskQueue, untotalled, unqueued>>, k' = k, r' = r
       PROVE  Pool!SendsAccounted'
  <2>1. q' = q /\ a' = a /\ d' = d /\ g' = g /\ l' = l
    BY <1>9, <1>16
  <2> HIDE DEF q, l, k, a, r, d, g
  <2> QED
    BY <1>2, <1>8, <1>16, <2>1
<1>17. ASSUME NEW w \in Pool!Workers,
              Pool!Exit(w) \/ Pool!ExecuteFails(w) \/ (Pool!Report(w) /\ ~Panics)
       PROVE  Pool!SendsAccounted'
  <2>1. /\ UNCHANGED <<metrics, taskQueue, untotalled, unqueued>>
        /\ \A v \in Pool!Workers \ {w} : wpc'[v] = wpc[v]
        /\ wpc[w] # "taken" /\ wpc'[w] # "taken"
        /\ wpc[w] \in {"taken", "run", "failed"} <=> wpc'[w] \in {"taken", "run", "failed"}
    BY <1>3, <1>17 DEF Pool!Exit, Pool!Report, Pool!ExecuteFails, Panics
  <2>2. k' = k /\ r' = r
    BY <1>a, <1>b, <2>1
  <2> QED
    BY <1>16, <2>1, <2>2
<1>18. CASE Panics \/ Pool!ProcessResult \/ Pool!ProcessResultsExits \/ Pool!Stop \/ Pool!CloseTaskQueue
              \/ Pool!CloseResultQueue \/ Pool!ScaleDown
              \/ \E s \in Scalers : \E count \in 1..MaxWorkers : Pool!ScaleUp(s, count)
  <2>1. UNCHANGED <<metrics, taskQueue, untotalled, unqueued, wpc>>
    BY <1>18 DEF Panics, Pool!Panic, Pool!ProcessResult, Pool!ProcessResultsExits, Pool!Stop,
                 Pool!CloseTaskQueue, Pool!CloseResultQueue, Pool!ScaleDown, Pool!ScaleUp
  <2> QED
    BY <1>16, <1>c, <2>1
<1>19. ASSUME NEW s \in Scalers, Pool!AddWorker(s) PROVE Pool!SendsAccounted'
  <2>1. /\ nWorkers + 1 \in Pool!Workers /\ wpc' = [wpc EXCEPT ![nWorkers + 1] = "select"]
        /\ UNCHANGED <<metrics, taskQueue, untotalled, unqueued>>
    BY <1>19 DEF Pool!AddWorker
  <2>2. wpc[nWorkers + 1] = "none" /\ wpc'[nWorkers + 1] = "select"
        /\ \A v \in Pool!Workers \ {nWorkers + 1} : wpc'[v] = wpc[v]
    BY <1>3, <2>1 DEF PoolTyped
  <2>3. k' = k /\ r' = r
    BY <1>a, <1>b, <2>1, <2>2
  <2> QED
    BY <1>16, <2>1, <2>3
<1> QED
  BY <1>11, <1>12, <1>13, <1>14, <1>15, <1>17, <1>18, <1>19
  DEF Pool!Next, Pool!PoolStep, Pool!WorkerStep

\* No step of the pool loses, duplicates or overspends a task.
LEMMA PoolTaskStep ==
  ASSUME PoolInv, Pool!Next, NEW t \in PoolTasks
  PROVE  PoolTask(t)'
<1> USE DEF Pool!workerVars, Pool!queueVars, Pool!taskVars
<1>1. PoolTyped /\ \A u \in PoolTasks : PoolTask(u)
  BY DEF PoolInv
<1>2. ASSUME UNCHANGED <<taskQueue, sleeping, poolRetryCount, outcome, attempts>>,
             \A w \in Pool!Workers : wpc'[w] \in {"taken", "run"} /\ wtask'[w] = t <=> wpc[w] \in {"taken", "run"} /\ wtask[w] = t
      PROVE  PoolTask(t)'
  <2>1. PoolTask(t)
    BY <1>1
  <2>2. Once(taskQueue', t) /\ (In(taskQueue', t) <=> In(taskQueue, t))
    BY <1>2, <2>1 DEF PoolTask
  <2> QED
    BY <1>1, <1>2, <2>1, <2>2, PoolTaskFrame
<1>3. /\ wpc \in [Pool!Workers -> PoolPcs]
      /\ wtask \in [Pool!Workers -> PoolTasks \cup {None}] /\ nWorkers \in 0..WorkerCap
  BY <1>1 DEF PoolTyped, Pool!TypeOK, PoolPcs
<1>4. CASE Panics \/ Pool!CountTotal \/ Pool!CountQueued \/ Pool!ProcessResult
             \/ Pool!ProcessResultsExits \/ Pool!Stop
             \/ Pool!CloseTaskQueue \/ Pool!CloseResultQueue \/ Pool!ScaleDown
             \/ \E s \in Scalers : \E count \in 1..MaxWorkers : Pool!ScaleUp(s, count)
  BY <1>2, <1>4 DEF Panics, Pool!Panic, Pool!CountTotal, Pool!CountQueued, Pool!ProcessResult,
                    Pool!ProcessResultsExits, Pool!Stop, Pool!CloseTaskQueue, Pool!CloseResultQueue,
                    Pool!ScaleDown, Pool!ScaleUp
<1>5. ASSUME NEW k \in Pool!Workers,
             Pool!Exit(k) \/ Pool!CountFailed(k) \/ (Pool!Report(k) /\ ~Panics)
      PROVE  PoolTask(t)'
  <2>1. /\ UNCHANGED <<taskQueue, sleeping, poolRetryCount, outcome, attempts>>
        /\ wpc[k] \notin {"taken", "run"} /\ wpc'[k] \notin {"taken", "run"}
        /\ \A w \in Pool!Workers \ {k} : wpc'[w] = wpc[w] /\ wtask'[w] = wtask[w]
    BY <1>3, <1>5 DEF Pool!Exit, Pool!Report, Pool!CountFailed, Panics
  <2> QED
    BY <1>2, <2>1
<1>7. ASSUME NEW k \in Pool!Workers, Pool!Begin(k) PROVE PoolTask(t)'
  <2>1. /\ UNCHANGED <<taskQueue, sleeping, poolRetryCount, outcome, attempts, wtask>>
        /\ wpc[k] = "taken" /\ wpc'[k] = "run" /\ \A w \in Pool!Workers \ {k} : wpc'[w] = wpc[w]
    BY <1>3, <1>7 DEF Pool!Begin
  <2> QED
    BY <1>2, <2>1
<1>6. ASSUME NEW s \in Scalers, Pool!AddWorker(s) PROVE PoolTask(t)'
  <2>1. /\ nWorkers + 1 \in Pool!Workers /\ wpc' = [wpc EXCEPT ![nWorkers + 1] = "select"]
        /\ UNCHANGED <<taskQueue, sleeping, poolRetryCount, outcome, attempts, wtask>>
    BY <1>6 DEF Pool!AddWorker
  <2>2. wpc[nWorkers + 1] = "none"
    BY <1>1, <1>3, <2>1 DEF PoolTyped
  <2> QED
    BY <1>2, <1>3, <2>1, <2>2
<1> QED
  BY <1>1, <1>4, <1>5, <1>6, <1>7, PoolSubmitStep, PoolReceiveStep, PoolExecuteStep
  DEF Pool!Next, Pool!PoolStep, Pool!WorkerStep

\* The invariant of the pool says what it promises.
LEMMA PoolPromise ==
  ASSUME PoolInv
  PROVE  /\ Pool!TypeOK /\ Pool!OneHolder /\ Pool!LostOnRetryOnly
         /\ Pool!RetryBudget /\ Pool!SendsAccounted
<1>1. Pool!OneHolder
  <2> SUFFICES ASSUME NEW t \in PoolTasks
               PROVE  Pool!Holders(t) = IF outcome[t] = "accepted" THEN 1 ELSE 0
    BY DEF Pool!OneHolder
  <2> DEFINE R == {w \in Pool!Running : wtask[w] = t}
  <2>1. PoolTask(t) /\ taskQueue \in Seq(PoolTasks)
    BY DEF PoolInv, PoolTyped, Pool!TypeOK
  <2>2. Cardinality({i \in 1..Len(taskQueue) : taskQueue[i] = t}) = IF In(taskQueue, t) THEN 1 ELSE 0
    BY <2>1, InCount DEF PoolTask
  <2>3. Cardinality(R) = IF PoolRunning(t) THEN 1 ELSE 0
    <3>1. \A x, y \in R : x = y
      BY <2>1 DEF PoolTask, RunsOnce, Pool!Running
    <3>2. R = {} <=> ~PoolRunning(t)
      BY DEF PoolRunning, Pool!Running
    <3> QED
      BY <3>1, <3>2, AtMostOne
  <2>4. Pool!Holders(t) = Cardinality({i \in 1..Len(taskQueue) : taskQueue[i] = t}) + Cardinality(R)
                            + (IF t \in sleeping THEN 1 ELSE 0)
    BY PoolCardinality DEF Pool!Holders
  <2> QED
    BY <2>1, <2>2, <2>3, <2>4 DEF PoolTask
<1>2. Pool!RetryBudget
  <2> SUFFICES ASSUME NEW t \in PoolTasks
               PROVE  /\ attempts[t] <= PoolRetries + 1
                      /\ outcome[t] = "failed" => attempts[t] = PoolRetries + 1
    BY DEF Pool!RetryBudget
  <2>1. PoolTask(t) /\ poolRetryCount[t] \in 0..PoolRetries
    BY DEF PoolInv, PoolTyped, Pool!TypeOK
  <2> QED
    BY <2>1, PoolAssumption DEF PoolTask
<1>3. Pool!LostOnRetryOnly
  <2> SUFFICES ASSUME NEW t \in PoolTasks, outcome[t] = "dropped"
               PROVE  poolRetryCount[t] > 0 /\ attempts[t] = poolRetryCount[t]
    BY DEF Pool!LostOnRetryOnly
  <2>1. PoolTask(t) /\ poolRetryCount[t] \in 0..PoolRetries
    BY DEF PoolInv, PoolTyped, Pool!TypeOK
  <2> QED
    BY <2>1, PoolAssumption DEF PoolTask
<1> QED
  BY <1>1, <1>2, <1>3 DEF PoolInv, PoolTyped

----------------------------------------------------------------------------
(* TaskQueue, the in-memory queue *)

\* Every set of naturals that is not empty has a least element.
LEMMA Least ==
  ASSUME NEW T, T \subseteq Nat, T # {}
  PROVE  \E m \in T : \A k \in T : m <= k
<1> DEFINE R == OpToRel(<, Nat)
<1>1. IsWellFoundedOn(R, Nat)
  BY NatLessThanWellFounded
<1>2. \A x, y \in Nat : <<x, y>> \in R <=> x < y
  BY DEF OpToRel
<1> HIDE DEF R
<1>3. PICK m \in T : \A y \in T : ~(<<y, m>> \in R)
  BY <1>1, WFMin
<1>4. ASSUME NEW k \in T PROVE m <= k
  <2>1. m \in Nat /\ k \in Nat
    OBVIOUS
  <2>2. ~(k < m)
    BY <1>2, <1>3, <2>1
  <2> QED
    BY <2>1, <2>2
<1> QED
  BY <1>4

\* What InsertAt of the community modules returns.
Inserted(r, q, p, x) ==
  /\ Len(r) = Len(q) + 1 /\ r[p] = x
  /\ \A i \in 1..p - 1 : r[i] = q[i]
  /\ \A i \in p + 1..Len(q) + 1 : r[i] = q[i - 1]

\* InsertAt puts one element at the position and shifts the rest,
LEMMA InsertIn ==
  ASSUME NEW S, NEW q \in Seq(S), NEW x \in S, NEW p \in 1..Len(q) + 1, NEW r, r = Memory!InsertAt(q, p, x)
  PROVE  r \in Seq(S) /\ Inserted(r, q, p, x)
<1> DEFINE a == SubSeq(q, 1, p - 1)
           b == SubSeq(q, p, Len(q))
<1>1. /\ Len(q) \in Nat /\ p \in Nat
      /\ a \in Seq(S) /\ Len(a) = p - 1 /\ \A i \in 1..p - 1 : a[i] = q[i]
  OBVIOUS
<1>2. /\ b \in Seq(S) /\ Len(b) = Len(q) - p + 1
      /\ \A i \in 1..Len(q) - p + 1 : b[i] = q[p + i - 1]
  BY <1>1
<1> HIDE DEF a, b
<1>3. r = a \o <<x>> \o b
  BY DEF Memory!InsertAt, a, b
<1>4. /\ r \in Seq(S) /\ Len(r) = Len(q) + 1
      /\ \A i \in 1..p - 1 : r[i] = a[i]
      /\ r[p] = x
      /\ \A i \in p + 1..Len(q) + 1 : r[i] = b[i - p]
  <2> DEFINE c == Append(a, x)
  <2>1. c \in Seq(S) /\ Len(c) = p /\ c[p] = x /\ \A i \in 1..p - 1 : c[i] = a[i]
    BY <1>1
  <2>2. r = c \o b
    BY <1>1, <1>2, <1>3
  <2> HIDE DEF c
  <2>3. /\ r \in Seq(S) /\ Len(r) = p + Len(b)
        /\ \A i \in 1..p : r[i] = c[i]
        /\ \A i \in p + 1..p + Len(b) : r[i] = b[i - p]
    BY <1>1, <1>2, <2>1, <2>2
  <2>4. p + Len(b) = Len(q) + 1 /\ p \in 1..p /\ \A i \in 1..p - 1 : i \in 1..p
    BY <1>1, <1>2
  <2> QED
    BY <2>1, <2>3, <2>4
<1>5. ASSUME NEW i \in p + 1..Len(q) + 1 PROVE r[i] = q[i - 1]
  <2>1. i - p \in 1..Len(q) - p + 1 /\ p + (i - p) - 1 = i - 1
    BY <1>1
  <2> QED
    BY <1>2, <1>4, <2>1
<1> QED
  BY <1>1, <1>4, <1>5 DEF Inserted

\* so that it adds that element and no other.
LEMMA InsertKeeps ==
  ASSUME NEW S, NEW q \in Seq(S), NEW x \in S, NEW p \in 1..Len(q) + 1, NEW r, r = Memory!InsertAt(q, p, x), NEW t
  PROVE  /\ In(r, t) <=> In(q, t) \/ x = t
         /\ Once(q, t) /\ ~(x = t /\ In(q, t)) => Once(r, t)
<1>1. /\ Len(q) \in Nat /\ p \in Nat /\ Len(r) = Len(q) + 1 /\ r[p] = x
      /\ \A i \in 1..p - 1 : r[i] = q[i]
      /\ \A i \in p + 1..Len(q) + 1 : r[i] = q[i - 1]
  <2>1. Inserted(r, q, p, x)
    BY InsertIn
  <2>2. Len(q) \in Nat /\ p \in Nat
    OBVIOUS
  <2>3. /\ Len(r) = Len(q) + 1 /\ r[p] = x
        /\ \A i \in 1..p - 1 : r[i] = q[i]
        /\ \A i \in p + 1..Len(q) + 1 : r[i] = q[i - 1]
    BY <2>1, Zenon DEF Inserted
  <2> QED
    BY <2>2, <2>3
<1> DEFINE from(i) == IF i < p THEN i ELSE i - 1
<1>2. \A i \in 1..Len(r) : i # p => from(i) \in 1..Len(q) /\ r[i] = q[from(i)]
  BY <1>1
<1>3. \A i, j \in 1..Len(r) : i # p /\ j # p /\ from(i) = from(j) => i = j
  BY <1>1
<1>4. In(q, t) => In(r, t)
  <2> SUFFICES ASSUME NEW i \in 1..Len(q), q[i] = t PROVE In(r, t)
    BY DEF In
  <2>1. CASE i < p
    BY <1>1, <2>1 DEF In
  <2>2. CASE ~(i < p)
    <3>1. i + 1 \in p + 1..Len(q) + 1 /\ i + 1 \in 1..Len(r) /\ (i + 1) - 1 = i
      BY <1>1, <2>2
    <3>2. r[i + 1] = t
      BY <1>1, <3>1
    <3> QED
      BY <3>1, <3>2 DEF In
  <2> QED
    BY <2>1, <2>2
<1>5. p \in 1..Len(r)
  BY <1>1
<1> HIDE DEF from
<1>6. In(r, t) <=> In(q, t) \/ x = t
  BY <1>1, <1>2, <1>4, <1>5 DEF In
<1>7. ASSUME Once(q, t), ~(x = t /\ In(q, t)), NEW i \in 1..Len(r), NEW j \in 1..Len(r), r[i] = t, r[j] = t
      PROVE  i = j
  <2>1. CASE x = t
    BY <1>1, <1>2, <1>7, <2>1 DEF In
  <2>2. CASE x # t
    BY <1>1, <1>2, <1>3, <1>7, <2>2 DEF Once
  <2> QED
    BY <2>1, <2>2
<1> QED
  BY <1>6, <1>7 DEF Once

\* Position is behind every task of at least this priority, before any lower one.
LEMMA PositionIs ==
  ASSUME Memory!TypeOK, NEW t \in Tasks, NEW p, p = Memory!Position(t)
  PROVE  /\ p \in 1..Len(tasks) + 1
         /\ \A i \in 1..p - 1 : prio[tasks[i]] >= prio[t]
         /\ p <= Len(tasks) => prio[tasks[p]] < prio[t]
<1> DEFINE lower == {i \in 1..Len(tasks) : prio[tasks[i]] < prio[t]}
<1>1. /\ Len(tasks) \in Nat /\ prio[t] \in Int
      /\ \A i \in 1..Len(tasks) : prio[tasks[i]] \in Int
  BY DEF Memory!TypeOK
<1>2. p = IF lower = {} THEN Len(tasks) + 1 ELSE CHOOSE i \in lower : \A j \in lower : i <= j
  BY DEF Memory!Position
<1>3. CASE lower = {}
  BY <1>1, <1>2, <1>3
<1>4. CASE lower # {}
  <2>1. lower \subseteq Nat
    BY <1>1
  <2>2. \E i \in lower : \A j \in lower : i <= j
    BY <1>4, <2>1, Least
  <2> HIDE DEF lower
  <2>3. p \in lower /\ \A j \in lower : p <= j
    BY <1>2, <1>4, <2>2
  <2>4. p \in 1..Len(tasks) /\ prio[tasks[p]] < prio[t]
    BY <2>3 DEF lower
  <2>5. ASSUME NEW i \in 1..p - 1 PROVE prio[tasks[i]] >= prio[t]
    <3>1. i \in 1..Len(tasks) /\ i \notin lower
      BY <1>1, <2>3, <2>4
    <3> QED
      BY <1>1, <3>1 DEF lower
  <2> QED
    BY <1>1, <2>4, <2>5
<1> QED
  BY <1>3, <1>4

MemoryHolders ==
  /\ \A t : Once(tasks, t)
  /\ \A c, d \in Consumers : held[c] = held[d] /\ held[c] # None => c = d
  /\ \A t : t \in processing <=> t # None /\ \E c \in Consumers : held[c] = t
  /\ \A t : In(tasks, t) => t \notin processing /\ t \in submitted
  /\ processing \subseteq submitted
  /\ \A c \in waiting \cup awake : held[c] = None
  /\ waiting \cap awake = {} /\ IsFiniteSet(waiting) /\ IsFiniteSet(awake)
  /\ \A t \in Tasks \ submitted : retryCount[t] = 0

\* A submitted task is queued, in a consumer's hands or acknowledged.
MemoryAccounted ==
  /\ done \subseteq submitted
  /\ \A t \in done : t \notin processing /\ ~In(tasks, t)
  /\ \A t \in submitted : In(tasks, t) \/ t \in processing \/ t \in done

\* Only a task that was given back can be behind one of lower priority.
MemoryOrdered ==
  \A i, j \in 1..Len(tasks) : i < j /\ retryCount[tasks[j]] = 0 => prio[tasks[i]] >= prio[tasks[j]]

MemoryInv == Memory!TypeOK /\ MemoryHolders /\ MemoryAccounted /\ MemoryOrdered /\ Memory!WakesUntilNack

\* The instance counts as FiniteSets does.
LEMMA MemoryCardinality == ASSUME NEW S PROVE Memory!Cardinality(S) = Cardinality(S)
  BY DEF Memory!Cardinality, Cardinality, Memory!IsFiniteSet, IsFiniteSet

\* The invariant of the in-memory queue gives the properties that the runs check.
LEMMA MemoryPromise ==
  ASSUME MemoryInv
  PROVE  Memory!TypeOK /\ Memory!OneHolder /\ Memory!FreshInPriorityOrder /\ Memory!WakesUntilNack
<1>1. Memory!TypeOK /\ MemoryHolders /\ MemoryAccounted /\ MemoryOrdered /\ Memory!WakesUntilNack
  BY DEF MemoryInv
<1>2. DOMAIN tasks = 1..Len(tasks)
  BY <1>1 DEF Memory!TypeOK
<1>3. \A t : t \in Memory!ToSet(tasks) <=> In(tasks, t)
  BY <1>2 DEF Memory!ToSet, In
<1>4. \A i, j \in 1..Len(tasks) : tasks[i] = tasks[j] => i = j
  BY <1>1 DEF MemoryHolders, Once
<1>5. processing = {held[c] : c \in Consumers} \ {None}
  BY <1>1 DEF MemoryHolders
<1>6. Memory!OneHolder
  <2> DEFINE Q == Memory!ToSet(tasks)
  <2>1. processing \cap Q = {} /\ done \cap (processing \cup Q) = {}
    BY <1>1, <1>3 DEF MemoryHolders, MemoryAccounted
  <2>2. submitted = processing \cup Q \cup done
    BY <1>1, <1>3 DEF MemoryHolders, MemoryAccounted
  <2>3. \A c, d \in Consumers : held[c] = held[d] /\ held[c] # None => c = d
    BY <1>1 DEF MemoryHolders
  <2> HIDE DEF Q
  <2> QED
    BY <1>4, <1>5, <2>1, <2>2, <2>3 DEF Memory!OneHolder, Q
<1>7. Memory!FreshInPriorityOrder
  BY <1>1 DEF Memory!FreshInPriorityOrder, MemoryOrdered
<1> QED
  BY <1>1, <1>6, <1>7

\* An empty in-memory queue satisfies its invariant.
LEMMA MemoryInit == Memory!Init => MemoryInv
<1> SUFFICES ASSUME Memory!Init PROVE MemoryInv
  OBVIOUS
<1> USE DEF Memory!Init
<1>1. Memory!TypeOK
  <2>1. prio \in [Tasks -> Int] /\ 0 \in 0..MaxNacks
    BY MemoryAssumption
  <2>2. retryCount \in [Tasks -> 0..MaxNacks] /\ held \in [Consumers -> Tasks \cup {None}]
    BY <2>1
  <2>3. tasks \in Seq(Tasks)
    OBVIOUS
  <2> QED
    BY <2>1, <2>2, <2>3 DEF Memory!TypeOK
<1>2. Len(tasks) = 0 /\ \A t : ~In(tasks, t) /\ Once(tasks, t)
  BY DEF In, Once
<1>3. IsFiniteSet(waiting) /\ IsFiniteSet(awake)
  BY FS_EmptySet
<1>4. MemoryHolders
  BY <1>2, <1>3 DEF MemoryHolders
<1>5. MemoryOrdered
  BY <1>2 DEF MemoryOrdered
<1>6. Memory!WakesUntilNack
  BY DEF Memory!WakesUntilNack
<1>7. MemoryAccounted
  BY DEF MemoryAccounted
<1> QED
  BY <1>1, <1>4, <1>5, <1>6, <1>7 DEF MemoryInv

\* Enqueue inserts by priority and signals one waiting consumer.
LEMMA MemoryEnqueueStep ==
  ASSUME MemoryInv, NEW t \in Tasks, Memory!Enqueue(t)
  PROVE  MemoryInv'
<1> DEFINE p == Memory!Position(t)
<1>1. Memory!TypeOK /\ MemoryHolders /\ MemoryAccounted /\ MemoryOrdered /\ Memory!WakesUntilNack
  BY DEF MemoryInv
<1>2. /\ t \notin submitted /\ ~closed
      /\ tasks' = Memory!InsertAt(tasks, p, t)
      /\ submitted' = submitted \cup {t}
      /\ \/ waiting = {} /\ UNCHANGED <<waiting, awake>>
         \/ \E c \in waiting : waiting' = waiting \ {c} /\ awake' = awake \cup {c}
      /\ UNCHANGED <<processing, closed, prio, retryCount, held, done>>
  BY DEF Memory!Enqueue, Memory!SignalEnqueue, Memory!Signal
<1>3. /\ p \in 1..Len(tasks) + 1
      /\ \A i \in 1..p - 1 : prio[tasks[i]] >= prio[t]
      /\ p <= Len(tasks) => prio[tasks[p]] < prio[t]
  BY <1>1, PositionIs
<1> HIDE DEF p
<1>4. /\ tasks \in Seq(Tasks) /\ Len(tasks) \in Nat
      /\ prio \in [Tasks -> Int] /\ waiting \subseteq Consumers /\ awake \subseteq Consumers
  BY <1>1 DEF Memory!TypeOK
<1>5. /\ tasks' \in Seq(Tasks) /\ Len(tasks') = Len(tasks) + 1 /\ tasks'[p] = t
      /\ \A i \in 1..p - 1 : tasks'[i] = tasks[i]
      /\ \A i \in p + 1..Len(tasks) + 1 : tasks'[i] = tasks[i - 1]
  <2>1. tasks' = Memory!InsertAt(tasks, p, t)
    BY <1>2
  <2>2. t \in Tasks /\ p \in 1..Len(tasks) + 1 /\ tasks \in Seq(Tasks)
    BY <1>3, <1>4
  <2>3. tasks' \in Seq(Tasks) /\ Inserted(tasks', tasks, p, t)
    BY <2>1, <2>2, InsertIn
  <2> QED
    BY <2>3 DEF Inserted
<1>6. \A u : /\ In(tasks', u) <=> In(tasks, u) \/ t = u
             /\ Once(tasks, u) /\ ~(t = u /\ In(tasks, u)) => Once(tasks', u)
  BY <1>2, <1>3, <1>4, InsertKeeps
<1>7. Memory!TypeOK'
  BY <1>1, <1>2, <1>5 DEF Memory!TypeOK
<1>8. MemoryHolders'
  <2>1. /\ \A u : Once(tasks', u)
        /\ \A u : In(tasks', u) => u \notin processing' /\ u \in submitted'
        /\ processing' \subseteq submitted'
    BY <1>1, <1>2, <1>6 DEF MemoryHolders
  <2>2. /\ \A c \in waiting' \cup awake' : held'[c] = None
        /\ waiting' \cap awake' = {} /\ IsFiniteSet(waiting') /\ IsFiniteSet(awake')
    BY <1>1, <1>2, FS_AddElement, FS_RemoveElement DEF MemoryHolders
  <2> QED
    BY <1>1, <1>2, <2>1, <2>2 DEF MemoryHolders
<1>9. MemoryOrdered'
  <2> SUFFICES ASSUME NEW i \in 1..Len(tasks) + 1, NEW j \in 1..Len(tasks) + 1, i < j, retryCount[tasks'[j]] = 0
               PROVE  prio[tasks'[i]] >= prio[tasks'[j]]
    BY <1>2, <1>5 DEF MemoryOrdered
  <2>1. p \in Nat /\ 1 <= p /\ p <= Len(tasks) + 1 /\ i \in Nat /\ j \in Nat
    BY <1>3, <1>4
  <2>2. prio[t] \in Int /\ \A k \in 1..Len(tasks) : prio[tasks[k]] \in Int
    BY <1>4
  <2>3. \A k \in 1..Len(tasks) + 1 : /\ k < p => k \in 1..Len(tasks) /\ tasks'[k] = tasks[k]
                                     /\ k > p => k - 1 \in 1..Len(tasks) /\ tasks'[k] = tasks[k - 1]
    <3> SUFFICES ASSUME NEW k \in 1..Len(tasks) + 1
                 PROVE  /\ k < p => k \in 1..Len(tasks) /\ tasks'[k] = tasks[k]
                        /\ k > p => k - 1 \in 1..Len(tasks) /\ tasks'[k] = tasks[k - 1]
      OBVIOUS
    <3>1. /\ k < p => k \in 1..Len(tasks) /\ k \in 1..p - 1
          /\ k > p => k - 1 \in 1..Len(tasks) /\ k \in p + 1..Len(tasks) + 1
      BY <1>4, <2>1
    <3> QED
      BY <1>5, <3>1
  <2>4. CASE j < p
    <3>1. i < p
      BY <2>1, <2>4
    <3> QED
      BY <1>1, <2>3, <2>4, <3>1 DEF MemoryOrdered
  <2>5. CASE j = p
    <3>1. i \in 1..p - 1 /\ i < p
      BY <2>1, <2>5
    <3> QED
      BY <1>3, <1>5, <2>3, <2>5, <3>1
  <2>6. CASE j > p
    <3>1. j - 1 \in 1..Len(tasks) /\ tasks'[j] = tasks[j - 1] /\ retryCount[tasks[j - 1]] = 0
      BY <2>3, <2>6
    <3>2. \A k \in 1..Len(tasks) : k < j - 1 => prio[tasks[k]] >= prio[tasks[j - 1]]
      BY <1>1, <3>1 DEF MemoryOrdered
    <3>3. CASE i < p
      <4>1. i \in 1..Len(tasks) /\ tasks'[i] = tasks[i] /\ i < j - 1
        BY <2>1, <2>3, <2>6, <3>3
      <4> QED
        BY <3>1, <3>2, <4>1
    <3>4. CASE i = p
      <4>1. p \in 1..Len(tasks) /\ prio[tasks[p]] < prio[t]
        <5>1. p <= Len(tasks)
          BY <1>4, <2>1, <2>6
        <5> QED
          BY <1>3, <1>4, <2>1, <5>1
      <4>2. p = j - 1 \/ p < j - 1
        BY <2>1, <2>6
      <4>3. prio[t] >= prio[tasks[j - 1]]
        BY <2>2, <3>1, <3>2, <4>1, <4>2
      <4> QED
        BY <1>5, <3>1, <3>4, <4>3
    <3>5. CASE i > p
      <4>1. i - 1 \in 1..Len(tasks) /\ tasks'[i] = tasks[i - 1] /\ i - 1 < j - 1
        BY <2>1, <2>3, <3>5
      <4> QED
        BY <3>1, <3>2, <4>1
    <3> QED
      BY <2>1, <3>3, <3>4, <3>5
  <2> QED
    BY <2>1, <2>4, <2>5, <2>6
<1>10. Memory!WakesUntilNack'
  <2> SUFFICES ASSUME \A u \in Tasks : retryCount[u] = 0, waiting' # {}
               PROVE  Len(tasks') <= Cardinality(awake')
    BY <1>2, MemoryCardinality DEF Memory!WakesUntilNack
  <2>1. PICK c \in waiting : awake' = awake \cup {c}
    BY <1>2
  <2>2. c \notin awake /\ IsFiniteSet(awake)
    BY <1>1 DEF MemoryHolders
  <2>3. Cardinality(awake') = Cardinality(awake) + 1 /\ Cardinality(awake) \in Nat
    BY <2>1, <2>2, FS_AddElement, FS_CardinalityType
  <2>4. Len(tasks) <= Cardinality(awake)
    BY <1>1, MemoryCardinality DEF Memory!WakesUntilNack
  <2> QED
    BY <1>4, <1>5, <2>3, <2>4
<1>11. MemoryAccounted'
  <2>1. t \notin processing /\ t \notin done
    BY <1>1, <1>2 DEF MemoryHolders, MemoryAccounted
  <2>2. /\ processing' = processing /\ done' = done
        /\ \A u : u \in submitted' <=> u \in submitted \/ t = u
    BY <1>2
  <2> QED
    BY <1>1, <1>6, <2>1, <2>2 DEF MemoryAccounted
<1> QED
  BY <1>7, <1>8, <1>9, <1>10, <1>11 DEF MemoryInv

\* The critical section of Dequeue takes the first task, gives up, or waits.
LEMMA MemoryReceiveStep ==
  ASSUME MemoryInv, NEW c \in Consumers, held[c] = None, c \notin waiting,
         Memory!Receive(c), awake' = awake \ {c}
  PROVE  MemoryInv'
<1>1. Memory!TypeOK /\ MemoryHolders /\ MemoryAccounted /\ MemoryOrdered /\ Memory!WakesUntilNack
  BY DEF MemoryInv
<1>2. /\ tasks \in Seq(Tasks) /\ Len(tasks) \in Nat /\ processing \subseteq Tasks
      /\ waiting \subseteq Consumers /\ awake \subseteq Consumers
      /\ held \in [Consumers -> Tasks \cup {None}]
  BY <1>1 DEF Memory!TypeOK
<1>3. IsFiniteSet(awake) /\ IsFiniteSet(awake') /\ Cardinality(awake) \in Nat /\ Cardinality(awake') \in Nat
      /\ Cardinality(awake') >= Cardinality(awake) - 1
  <2>1. IsFiniteSet(awake)
    BY <1>1 DEF MemoryHolders
  <2>2. IsFiniteSet(awake') /\ Cardinality(awake) \in Nat /\ Cardinality(awake') \in Nat
    BY <2>1, FS_RemoveElement, FS_CardinalityType
  <2>3. Cardinality(awake') = IF c \in awake THEN Cardinality(awake) - 1 ELSE Cardinality(awake)
    BY <2>1, FS_RemoveElement
  <2> QED
    BY <2>1, <2>2, <2>3
<1>4. CASE tasks # << >>
  <2>1. /\ held' = [held EXCEPT ![c] = Head(tasks)]
        /\ processing' = processing \cup {Head(tasks)}
        /\ tasks' = Tail(tasks)
        /\ UNCHANGED <<closed, prio, retryCount, waiting, submitted, done>>
    BY <1>4 DEF Memory!Receive
  <2>2. \A t : /\ Head(tasks) \in Tasks /\ tasks' \in Seq(Tasks) /\ Len(tasks') = Len(tasks) - 1 /\ Len(tasks) > 0
               /\ In(tasks, t) <=> Head(tasks) = t \/ In(tasks', t)
               /\ Once(tasks, t) => Once(tasks', t) /\ ~(Head(tasks) = t /\ In(tasks', t))
    BY <1>2, <1>4, <2>1, TailIn
  <2>3. Head(tasks) # None
    BY <2>2, MemoryAssumption
  <2>4. Memory!TypeOK'
    BY <1>1, <2>1, <2>2 DEF Memory!TypeOK
  <2>5. MemoryHolders'
    <3>1. held'[c] = Head(tasks) /\ \A d \in Consumers \ {c} : held'[d] = held[d]
      BY <1>2, <2>1
    <3>2. Head(tasks) \notin processing /\ Head(tasks) \in submitted
      BY <1>1, <2>2 DEF MemoryHolders
    <3>3. \A d, e \in Consumers : held'[d] = held'[e] /\ held'[d] # None => d = e
      BY <1>1, <3>1, <3>2, <2>3 DEF MemoryHolders
    <3>4. \A t : t \in processing' <=> t # None /\ \E d \in Consumers : held'[d] = t
      BY <1>1, <2>1, <2>3, <3>1 DEF MemoryHolders
    <3>5. /\ \A t : Once(tasks', t)
          /\ \A t : In(tasks', t) => t \notin processing' /\ t \in submitted'
          /\ processing' \subseteq submitted'
      BY <1>1, <2>1, <2>2, <3>2 DEF MemoryHolders
    <3>6. /\ \A d \in waiting' \cup awake' : held'[d] = None
          /\ waiting' \cap awake' = {}
      BY <1>1, <1>2, <2>1, <3>1 DEF MemoryHolders
    <3> QED
      BY <1>1, <1>3, <2>1, <3>3, <3>4, <3>5, <3>6 DEF MemoryHolders
  <2>6. MemoryOrdered'
    <3>1. \A i \in 1..Len(tasks') : i + 1 \in 1..Len(tasks) /\ tasks'[i] = tasks[i + 1]
      BY <1>2, <1>4, <2>1
    <3>2. \A i, j \in 1..Len(tasks') : i < j => i + 1 < j + 1
      OBVIOUS
    <3> QED
      BY <1>1, <2>1, <3>1, <3>2 DEF MemoryOrdered
  <2>7. Memory!WakesUntilNack'
    BY <1>1, <1>2, <1>3, <2>1, <2>2, MemoryCardinality DEF Memory!WakesUntilNack
  <2>8. MemoryAccounted'
    <3>1. Head(tasks) \notin done
      BY <1>1, <2>2 DEF MemoryAccounted
    <3> QED
      BY <1>1, <2>1, <2>2, <3>1 DEF MemoryAccounted
  <2> QED
    BY <2>4, <2>5, <2>6, <2>7, <2>8 DEF MemoryInv
<1>5. CASE tasks = << >>
  <2>1. /\ waiting' = waiting \/ waiting' = waiting \cup {c}
        /\ UNCHANGED <<tasks, processing, closed, prio, retryCount, held, submitted, done>>
    BY <1>5 DEF Memory!Receive
  <2>2. Memory!TypeOK'
    BY <1>1, <2>1 DEF Memory!TypeOK
  <2>3. MemoryHolders'
    <3>1. /\ \A d \in waiting' \cup awake' : held'[d] = None
          /\ waiting' \cap awake' = {} /\ IsFiniteSet(waiting')
      BY <1>1, <2>1, FS_AddElement DEF MemoryHolders
    <3> QED
      BY <1>1, <1>3, <2>1, <3>1 DEF MemoryHolders
  <2>4. MemoryOrdered'
    BY <1>1, <2>1 DEF MemoryOrdered
  <2>5. Len(tasks') <= Cardinality(awake')
    BY <1>3, <1>5, <2>1
  <2>6. Memory!WakesUntilNack'
    BY <2>5, MemoryCardinality DEF Memory!WakesUntilNack
  <2>7. MemoryAccounted'
    BY <1>1, <2>1 DEF MemoryAccounted
  <2> QED
    BY <2>2, <2>3, <2>4, <2>6, <2>7 DEF MemoryInv
<1> QED
  BY <1>4, <1>5

\* Ack gives up the task.
LEMMA MemoryAckStep ==
  ASSUME MemoryInv, NEW c \in Consumers, Memory!Ack(c)
  PROVE  MemoryInv'
<1>1. Memory!TypeOK /\ MemoryHolders /\ MemoryAccounted /\ MemoryOrdered /\ Memory!WakesUntilNack
  BY DEF MemoryInv
<1>2. /\ held[c] # None
      /\ processing' = processing \ {held[c]}
      /\ done' = done \cup {held[c]}
      /\ held' = [held EXCEPT ![c] = None]
      /\ UNCHANGED <<tasks, closed, prio, retryCount, waiting, awake, submitted>>
  BY DEF Memory!Ack
<1>3. Memory!TypeOK'
  <2>1. held[c] \in Tasks /\ held' \in [Consumers -> Tasks \cup {None}] /\ processing' \subseteq Tasks
    BY <1>1, <1>2 DEF Memory!TypeOK
  <2> QED
    BY <1>1, <1>2, <2>1 DEF Memory!TypeOK
<1>4. held \in [Consumers -> Tasks \cup {None}]
  BY <1>1 DEF Memory!TypeOK
<1>5. held'[c] = None /\ \A d \in Consumers \ {c} : held'[d] = held[d]
  BY <1>2, <1>4
<1>6. MemoryHolders'
  <2>1. /\ \A d, e \in Consumers : held'[d] = held'[e] /\ held'[d] # None => d = e
        /\ \A t : t \in processing' <=> t # None /\ \E d \in Consumers : held'[d] = t
    BY <1>1, <1>2, <1>5 DEF MemoryHolders
  <2>2. \A d \in waiting' \cup awake' : held'[d] = None
    BY <1>1, <1>2, <1>5 DEF MemoryHolders, Memory!TypeOK
  <2>3. \A t : Once(tasks', t) /\ (In(tasks', t) => t \notin processing' /\ t \in submitted')
    BY <1>1, <1>2 DEF MemoryHolders
  <2> QED
    BY <1>1, <1>2, <2>1, <2>2, <2>3 DEF MemoryHolders
<1>7. MemoryOrdered'
  BY <1>1, <1>2 DEF MemoryOrdered
<1>8. Memory!WakesUntilNack'
  BY <1>1, <1>2 DEF Memory!WakesUntilNack
<1>9. MemoryAccounted'
  <2>1. held[c] \in submitted /\ ~In(tasks, held[c])
    BY <1>1, <1>2 DEF MemoryHolders
  <2> QED
    BY <1>1, <1>2, <2>1 DEF MemoryAccounted
<1> QED
  BY <1>3, <1>6, <1>7, <1>8, <1>9 DEF MemoryInv

\* Nack appends the task with one retry more and wakes nobody.
LEMMA MemoryNackStep ==
  ASSUME MemoryInv, NEW c \in Consumers, Memory!Nack(c)
  PROVE  MemoryInv'
<1> DEFINE t == held[c]
<1>1. Memory!TypeOK /\ MemoryHolders /\ MemoryAccounted /\ MemoryOrdered /\ Memory!WakesUntilNack
  BY DEF MemoryInv
<1>2. /\ t # None /\ retryCount[t] < MaxNacks
      /\ processing' = processing \ {t}
      /\ retryCount' = [retryCount EXCEPT ![t] = retryCount[t] + 1]
      /\ prio' = [prio EXCEPT ![t] = @ - 1]
      /\ tasks' = Append(tasks, t)
      /\ held' = [held EXCEPT ![c] = None]
      /\ UNCHANGED <<closed, waiting, awake, submitted, done>>
  BY DEF Memory!Nack, Memory!Remaining, Memory!Retried, Memory!Returned
<1>3. /\ tasks \in Seq(Tasks) /\ Len(tasks) \in Nat /\ prio \in [Tasks -> Int]
      /\ held \in [Consumers -> Tasks \cup {None}] /\ retryCount \in [Tasks -> 0..MaxNacks]
  BY <1>1 DEF Memory!TypeOK
<1>4. t \in Tasks /\ t \in processing /\ ~In(tasks, t) /\ t \in submitted
  BY <1>1, <1>2, <1>3 DEF MemoryHolders
<1>5. held'[c] = None /\ \A d \in Consumers \ {c} : held'[d] = held[d]
  BY <1>2, <1>3
<1> HIDE DEF t
<1>6. /\ tasks' \in Seq(Tasks) /\ Len(tasks') = Len(tasks) + 1 /\ tasks'[Len(tasks) + 1] = t
      /\ \A i \in 1..Len(tasks) : tasks'[i] = tasks[i]
  BY <1>2, <1>3, <1>4
<1>7. \A u : /\ In(tasks', u) <=> In(tasks, u) \/ t = u
             /\ Once(tasks, u) /\ ~(t = u /\ In(tasks, u)) => Once(tasks', u)
  BY <1>2, <1>3, <1>4, AppendIn
<1>8. /\ retryCount' \in [Tasks -> 0..MaxNacks] /\ retryCount'[t] = retryCount[t] + 1
      /\ \A u \in Tasks : u # t => retryCount'[u] = retryCount[u] /\ prio'[u] = prio[u]
      /\ prio' \in [Tasks -> Int] /\ retryCount'[t] # 0
  BY <1>2, <1>3, <1>4, MemoryAssumption
<1>9. Memory!TypeOK'
  <2>1. processing' \subseteq Tasks /\ held' \in [Consumers -> Tasks \cup {None}]
    BY <1>1, <1>2, <1>3 DEF Memory!TypeOK
  <2> QED
    BY <1>1, <1>2, <1>6, <1>8, <2>1 DEF Memory!TypeOK
<1>10. MemoryHolders'
  <2>1. /\ \A d, e \in Consumers : held'[d] = held'[e] /\ held'[d] # None => d = e
        /\ \A u : u \in processing' <=> u # None /\ \E d \in Consumers : held'[d] = u
    BY <1>1, <1>2, <1>5 DEF MemoryHolders, t
  <2>2. \A d \in waiting' \cup awake' : held'[d] = None
    BY <1>1, <1>2, <1>5 DEF MemoryHolders, Memory!TypeOK
  <2>3. \A u : Once(tasks', u) /\ (In(tasks', u) => u \notin processing' /\ u \in submitted')
    BY <1>1, <1>2, <1>4, <1>7 DEF MemoryHolders
  <2>4. \A u \in Tasks \ submitted' : retryCount'[u] = 0
    BY <1>1, <1>2, <1>4, <1>8 DEF MemoryHolders
  <2> QED
    BY <1>1, <1>2, <2>1, <2>2, <2>3, <2>4 DEF MemoryHolders
<1>11. MemoryOrdered'
  <2> SUFFICES ASSUME NEW i \in 1..Len(tasks) + 1, NEW j \in 1..Len(tasks) + 1, i < j, retryCount'[tasks'[j]] = 0
               PROVE  prio'[tasks'[i]] >= prio'[tasks'[j]]
    BY <1>6 DEF MemoryOrdered
  <2>1. j # Len(tasks) + 1
    BY <1>6, <1>8
  <2>2. i \in 1..Len(tasks) /\ j \in 1..Len(tasks)
    BY <1>3, <2>1
  <2>3. tasks[i] \in Tasks \ {t} /\ tasks[j] \in Tasks \ {t}
    BY <1>3, <1>4, <2>2 DEF In
  <2>4. /\ tasks'[i] = tasks[i] /\ tasks'[j] = tasks[j] /\ retryCount'[tasks[j]] = retryCount[tasks[j]]
        /\ prio'[tasks[i]] = prio[tasks[i]] /\ prio'[tasks[j]] = prio[tasks[j]]
    BY <1>6, <1>8, <2>2, <2>3
  <2>5. prio[tasks[i]] >= prio[tasks[j]]
    BY <1>1, <2>2, <2>4 DEF MemoryOrdered
  <2> QED
    BY <2>4, <2>5
<1>12. Memory!WakesUntilNack'
  BY <1>4, <1>8 DEF Memory!WakesUntilNack
<1>13. MemoryAccounted'
  <2>1. t \notin done
    BY <1>1, <1>4 DEF MemoryAccounted
  <2> QED
    BY <1>1, <1>2, <1>4, <1>7, <2>1 DEF MemoryAccounted
<1> QED
  BY <1>9, <1>10, <1>11, <1>12, <1>13 DEF MemoryInv

\* Close wakes every waiting consumer.
LEMMA MemoryCloseStep ==
  ASSUME MemoryInv, Memory!Close
  PROVE  MemoryInv'
<1>1. Memory!TypeOK /\ MemoryHolders /\ MemoryAccounted /\ MemoryOrdered /\ Memory!WakesUntilNack
  BY DEF MemoryInv
<1>2. /\ closed' = TRUE /\ waiting' = {} /\ awake' = awake \cup waiting
      /\ UNCHANGED <<tasks, processing, prio, retryCount, held, submitted, done>>
  BY DEF Memory!Close, Memory!Broadcast
<1>3. Memory!TypeOK'
  BY <1>1, <1>2 DEF Memory!TypeOK
<1>4. MemoryHolders'
  <2>1. /\ IsFiniteSet(awake') /\ IsFiniteSet(waiting') /\ waiting' \cap awake' = {}
        /\ \A d \in waiting' \cup awake' : held'[d] = None
    BY <1>1, <1>2, FS_Union, FS_EmptySet DEF MemoryHolders
  <2> QED
    BY <1>1, <1>2, <2>1 DEF MemoryHolders
<1>5. MemoryOrdered'
  BY <1>1, <1>2 DEF MemoryOrdered
<1>6. Memory!WakesUntilNack'
  BY <1>2 DEF Memory!WakesUntilNack
<1>7. MemoryAccounted'
  BY <1>1, <1>2 DEF MemoryAccounted
<1> QED
  BY <1>3, <1>4, <1>5, <1>6, <1>7 DEF MemoryInv

\* Every step of the in-memory queue keeps its invariant.
LEMMA MemoryStep ==
  ASSUME MemoryInv, Memory!Next
  PROVE  MemoryInv'
<1>1. ASSUME NEW c \in Consumers, Memory!Dequeue(c) PROVE MemoryInv'
  <2>1. held[c] = None /\ c \notin waiting /\ Memory!Receive(c) /\ awake' = awake \ {c}
    BY <1>1 DEF Memory!Dequeue
  <2> QED
    BY <2>1, MemoryReceiveStep
<1>2. ASSUME NEW c \in Consumers, Memory!Wake(c) PROVE MemoryInv'
  <2>1. Memory!Receive(c) /\ awake' = awake \ {c} /\ c \in awake
    BY <1>2 DEF Memory!Wake
  <2>2. held[c] = None /\ c \notin waiting
    BY <2>1 DEF MemoryInv, MemoryHolders
  <2> QED
    BY <2>1, <2>2, MemoryReceiveStep
<1> QED
  BY <1>1, <1>2, MemoryEnqueueStep, MemoryAckStep, MemoryNackStep, MemoryCloseStep DEF Memory!Next

----------------------------------------------------------------------------
(* PriorityQueue, the levelled queue *)

\* A submitted task is queued or listed on its level, or acknowledged.
LevelsAccounted ==
  /\ \A t \in levelDone : \A l \in Levels!Levels : ~In(queue[l], t) /\ t \notin levelProcessing[l]
  /\ levelDone \subseteq levelSubmitted
  /\ \A t \in levelSubmitted :
       In(queue[LevelOf[t]], t) \/ t \in levelProcessing[LevelOf[t]] \/ t \in levelDone

\* A task is on its own level only, queued, or in processing because a
\* consumer holds it or gave it back.
LevelsHolders ==
  /\ \A l \in Levels!Levels : \A t :
       /\ Once(queue[l], t)
       /\ In(queue[l], t) => /\ LevelOf[t] = l /\ t \in levelSubmitted
                             /\ \A k \in Levels!Levels : t \notin levelProcessing[k]
  /\ \A c \in LevelConsumers :
       /\ pc[c] = "busy" <=> levelHeld[c] # None
       /\ levelHeld[c] # None => levelHeld[c] \in levelProcessing[LevelOf[levelHeld[c]]]
  /\ \A c, d \in LevelConsumers : levelHeld[c] = levelHeld[d] /\ levelHeld[c] # None => c = d
  /\ \A l \in Levels!Levels : \A t \in levelProcessing[l] :
       t \in levelSubmitted /\ (t \in nacked \/ \E c \in LevelConsumers : levelHeld[c] = t)

LevelsInv == Levels!TypeOK /\ LevelsHolders /\ LevelsAccounted

\* The invariant of the levelled queue gives the properties that the runs check.
LEMMA LevelsPromise ==
  ASSUME LevelsInv
  PROVE  Levels!TypeOK /\ Levels!OneHolder /\ Levels!ProcessingExplained
<1>1. Levels!TypeOK /\ LevelsHolders /\ LevelsAccounted
  BY DEF LevelsInv
<1>2. ASSUME NEW l \in Levels!Levels, NEW i \in 1..Len(queue[l]), NEW j \in 1..Len(queue[l])
      PROVE  /\ LevelOf[queue[l][i]] = l
             /\ queue[l][i] = queue[l][j] => i = j
             /\ \A k \in Levels!Levels : queue[l][i] \notin levelProcessing[k]
  <2> DEFINE t == queue[l][i]
  <2>1. In(queue[l], t)
    BY DEF In
  <2>2. Once(queue[l], t)
    BY <1>1 DEF LevelsHolders
  <2>3. t = queue[l][j] => i = j
    BY <2>2 DEF Once
  <2> QED
    BY <1>1, <2>1, <2>3 DEF LevelsHolders
<1>3. Levels!OneHolder
  <2>1. ASSUME NEW l \in Levels!Levels, NEW i \in 1..Len(queue[l]) PROVE queue[l][i] \notin levelDone
    <3>1. In(queue[l], queue[l][i])
      BY DEF In
    <3> QED
      BY <1>1, <3>1 DEF LevelsAccounted
  <2>2. ASSUME NEW t \in levelSubmitted
        PROVE  \/ \E i \in 1..Len(queue[LevelOf[t]]) : queue[LevelOf[t]][i] = t
               \/ t \in levelProcessing[LevelOf[t]]
               \/ t \in levelDone
    BY <1>1 DEF LevelsAccounted, In
  <2>3. \A l \in Levels!Levels : levelDone \cap levelProcessing[l] = {}
    BY <1>1 DEF LevelsAccounted
  <2>4. /\ \A c \in LevelConsumers :
             levelHeld[c] # None => levelHeld[c] \in levelProcessing[LevelOf[levelHeld[c]]]
        /\ \A c, d \in LevelConsumers : levelHeld[c] = levelHeld[d] /\ levelHeld[c] # None => c = d
    BY <1>1 DEF LevelsHolders
  <2> QED
    BY <1>2, <2>1, <2>2, <2>3, <2>4 DEF Levels!OneHolder
<1>4. Levels!ProcessingExplained
  BY <1>1 DEF Levels!ProcessingExplained, LevelsHolders
<1> QED
  BY <1>1, <1>3, <1>4

\* Empty levels satisfy the invariant.
LEMMA LevelsInit == Levels!Init => LevelsInv
<1> SUFFICES ASSUME Levels!Init PROVE LevelsInv
  OBVIOUS
<1> USE LevelsAssumption DEF Levels!Init, Levels!Levels
<1>1. Levels!TypeOK
  <2>1. /\ queue \in [Levels!Levels -> Seq(LevelTasks)]
        /\ levelProcessing \in [Levels!Levels -> SUBSET LevelTasks]
    OBVIOUS
  <2>2. /\ pc \in [LevelConsumers -> {"idle", "peek", "receive", "wait", "busy"}]
        /\ level \in [LevelConsumers -> Levels!Levels]
        /\ levelHeld \in [LevelConsumers -> LevelTasks \cup {None}]
    OBVIOUS
  <2> QED
    BY <2>1, <2>2 DEF Levels!TypeOK
<1>2. \A l \in Levels!Levels : queue[l] = << >> /\ levelProcessing[l] = {}
  OBVIOUS
<1>3. \A t : Once(<< >>, t) /\ ~In(<< >>, t)
  BY DEF Once, In
<1>4. LevelsHolders
  BY <1>2, <1>3 DEF LevelsHolders
<1>5. LevelsAccounted
  BY DEF LevelsAccounted
<1> QED
  BY <1>1, <1>4, <1>5 DEF LevelsInv

\* Enqueue appends to one level and wakes one of its waiters.
LEMMA LevelsEnqueueStep ==
  ASSUME LevelsInv, NEW t \in LevelTasks, Levels!Enqueue(t)
  PROVE  LevelsInv'
<1> DEFINE l == LevelOf[t]
<1>1. Levels!TypeOK /\ LevelsHolders /\ LevelsAccounted
  BY DEF LevelsInv
<1>2. /\ t \notin levelSubmitted
      /\ queue' = [queue EXCEPT ![l] = Append(@, t)]
      /\ levelSubmitted' = levelSubmitted \cup {t}
      /\ \/ pc' = pc
         \/ \E c \in LevelConsumers : pc[c] = "wait" /\ pc' = [pc EXCEPT ![c] = "receive"]
      /\ UNCHANGED <<levelProcessing, level, levelHeld, closePc, nacked, levelDone>>
  BY DEF Levels!Enqueue, Levels!Waiters
<1>3. /\ queue \in [Levels!Levels -> Seq(LevelTasks)] /\ l \in Levels!Levels
      /\ pc \in [LevelConsumers -> {"idle", "peek", "receive", "wait", "busy"}]
  BY <1>1, LevelsAssumption DEF Levels!TypeOK, Levels!Levels
<1>4. queue'[l] = Append(queue[l], t) /\ \A k \in Levels!Levels \ {l} : queue'[k] = queue[k]
  BY <1>2, <1>3
<1> HIDE DEF l
<1>5. \A u : /\ queue'[l] \in Seq(LevelTasks)
             /\ In(queue'[l], u) <=> In(queue[l], u) \/ t = u
             /\ Once(queue[l], u) /\ ~(t = u /\ In(queue[l], u)) => Once(queue'[l], u)
  BY <1>3, <1>4, AppendIn
<1>6. /\ pc' \in [LevelConsumers -> {"idle", "peek", "receive", "wait", "busy"}]
      /\ \A c \in LevelConsumers : pc'[c] = "busy" <=> pc[c] = "busy"
  BY <1>2, <1>3
<1>7. Levels!TypeOK'
  <2>1. queue' \in [Levels!Levels -> Seq(LevelTasks)]
    BY <1>2, <1>3
  <2> QED
    BY <1>1, <1>2, <1>6, <2>1 DEF Levels!TypeOK
<1>8. LevelsHolders'
  <2>1. t \notin levelSubmitted /\ l = LevelOf[t] /\ \A k \in Levels!Levels : t \notin levelProcessing[k] /\ ~In(queue[k], t)
    BY <1>1, <1>2 DEF LevelsHolders, l
  <2>2. \A k \in Levels!Levels : \A u :
          /\ Once(queue'[k], u)
          /\ In(queue'[k], u) => /\ LevelOf[u] = k /\ u \in levelSubmitted'
                                 /\ \A m \in Levels!Levels : u \notin levelProcessing'[m]
    <3> SUFFICES ASSUME NEW k \in Levels!Levels, NEW u
                 PROVE  /\ Once(queue'[k], u)
                        /\ In(queue'[k], u) => /\ LevelOf[u] = k /\ u \in levelSubmitted'
                                               /\ \A m \in Levels!Levels : u \notin levelProcessing'[m]
      OBVIOUS
    <3>1. /\ Once(queue[k], u)
          /\ In(queue[k], u) => /\ LevelOf[u] = k /\ u \in levelSubmitted
                                /\ \A m \in Levels!Levels : u \notin levelProcessing[m]
      BY <1>1 DEF LevelsHolders
    <3>2. CASE k = l
      BY <1>2, <1>5, <2>1, <3>1, <3>2
    <3>3. CASE k # l
      BY <1>2, <1>4, <3>1, <3>3
    <3> QED
      BY <3>2, <3>3
  <2> QED
    BY <1>1, <1>2, <1>6, <2>2 DEF LevelsHolders
<1>9. LevelsAccounted'
  <2>1. t \notin levelDone /\ LevelOf[t] = l
    BY <1>1, <1>2 DEF LevelsAccounted, l
  <2>2. \A k \in Levels!Levels : \A u : In(queue'[k], u) <=> In(queue[k], u) \/ (k = l /\ t = u)
    BY <1>4, <1>5
  <2>3. levelDone' = levelDone /\ levelProcessing' = levelProcessing /\ levelSubmitted' = levelSubmitted \cup {t}
    BY <1>2
  <2>4. \A u \in levelSubmitted' : LevelOf[u] \in Levels!Levels
    BY <1>1, <2>3, LevelsAssumption DEF Levels!TypeOK, Levels!Levels
  <2> QED
    BY <1>1, <1>3, <2>1, <2>2, <2>3, <2>4 DEF LevelsAccounted
<1> QED
  BY <1>7, <1>8, <1>9 DEF LevelsInv

\* A step that moves a consumer without a task.
LEMMA LevelsFrame ==
  ASSUME LevelsInv, UNCHANGED <<queue, levelProcessing, levelHeld, levelSubmitted, nacked, levelDone>>,
         \A c \in LevelConsumers : pc'[c] = "busy" <=> pc[c] = "busy"
  PROVE  LevelsHolders' /\ LevelsAccounted'
BY DEF LevelsInv, LevelsHolders, LevelsAccounted

\* The walk of Dequeue over the levels moves no task.
LEMMA LevelsWalkStep ==
  ASSUME LevelsInv, NEW c \in LevelConsumers, Levels!Dequeue(c) \/ Levels!Peek(c)
  PROVE  LevelsInv'
<1>1. Levels!TypeOK
  BY DEF LevelsInv
<1>2. /\ pc \in [LevelConsumers -> {"idle", "peek", "receive", "wait", "busy"}]
      /\ level \in [LevelConsumers -> Levels!Levels]
      /\ TopLevel \in Levels!Levels
  BY <1>1, LevelsAssumption DEF Levels!TypeOK, Levels!Levels
<1>3. /\ pc[c] # "busy"
      /\ \/ \E p \in {"peek", "receive"} : pc' = [pc EXCEPT ![c] = p]
         \/ pc' = pc
      /\ \/ level' = level
         \/ level' = [level EXCEPT ![c] = TopLevel]
         \/ level[c] # 1 /\ level' = [level EXCEPT ![c] = @ - 1]
      /\ UNCHANGED <<queue, levelProcessing, levelHeld, closePc, levelSubmitted, nacked, levelDone>>
  BY DEF Levels!Dequeue, Levels!Peek, Levels!AtLowest
<1>4. level' \in [LevelConsumers -> Levels!Levels]
  BY <1>2, <1>3, LevelsAssumption DEF Levels!Levels
<1>5. /\ pc' \in [LevelConsumers -> {"idle", "peek", "receive", "wait", "busy"}]
      /\ \A d \in LevelConsumers : pc'[d] = "busy" <=> pc[d] = "busy"
  BY <1>2, <1>3
<1>6. Levels!TypeOK'
  BY <1>1, <1>3, <1>4, <1>5 DEF Levels!TypeOK
<1>7. LevelsHolders' /\ LevelsAccounted'
  BY <1>3, <1>5, LevelsFrame
<1> QED
  BY <1>6, <1>7 DEF LevelsInv

\* A level hands out its first task and lists it, or lets the consumer wait.
LEMMA LevelsReceiveStep ==
  ASSUME LevelsInv, NEW c \in LevelConsumers, Levels!Receive(c)
  PROVE  LevelsInv'
<1> DEFINE l == level[c]
<1>1. Levels!TypeOK /\ LevelsHolders /\ LevelsAccounted
  BY DEF LevelsInv
<1>2. /\ queue \in [Levels!Levels -> Seq(LevelTasks)] /\ l \in Levels!Levels
      /\ levelProcessing \in [Levels!Levels -> SUBSET LevelTasks]
      /\ pc \in [LevelConsumers -> {"idle", "peek", "receive", "wait", "busy"}]
      /\ levelHeld \in [LevelConsumers -> LevelTasks \cup {None}]
  BY <1>1 DEF Levels!TypeOK
<1>3. pc[c] = "receive" /\ levelHeld[c] = None /\ UNCHANGED <<level, closePc, levelSubmitted, nacked, levelDone>>
  BY <1>1 DEF Levels!Receive, LevelsHolders
<1>4. CASE queue[l] = << >>
  <2>1. /\ \E p \in {"idle", "wait"} : pc' = [pc EXCEPT ![c] = p]
        /\ UNCHANGED <<queue, levelProcessing, levelHeld>>
    BY <1>4 DEF Levels!Receive
  <2>2. /\ pc' \in [LevelConsumers -> {"idle", "peek", "receive", "wait", "busy"}]
        /\ \A d \in LevelConsumers : pc'[d] = "busy" <=> pc[d] = "busy"
    BY <1>2, <1>3, <2>1
  <2>3. Levels!TypeOK'
    BY <1>1, <1>3, <2>1, <2>2 DEF Levels!TypeOK
  <2>4. LevelsHolders' /\ LevelsAccounted'
    BY <1>3, <2>1, <2>2, LevelsFrame
  <2> QED
    BY <2>3, <2>4 DEF LevelsInv
<1>5. CASE queue[l] # << >>
  <2> DEFINE h == Head(queue[l])
  <2>1. /\ levelHeld' = [levelHeld EXCEPT ![c] = h]
        /\ queue' = [queue EXCEPT ![l] = Tail(@)]
        /\ levelProcessing' = [levelProcessing EXCEPT ![l] = @ \cup {h}]
        /\ pc' = [pc EXCEPT ![c] = "busy"]
    BY <1>5 DEF Levels!Receive, Levels!Delivered
  <2>2. queue'[l] = Tail(queue[l]) /\ \A k \in Levels!Levels \ {l} : queue'[k] = queue[k]
    BY <1>2, <2>1
  <2>3. \A t : /\ h \in LevelTasks /\ queue'[l] \in Seq(LevelTasks)
               /\ In(queue[l], t) <=> h = t \/ In(queue'[l], t)
               /\ Once(queue[l], t) => Once(queue'[l], t) /\ ~(h = t /\ In(queue'[l], t))
    BY <1>2, <1>5, <2>2, TailIn
  <2>4. /\ levelHeld'[c] = h /\ \A d \in LevelConsumers \ {c} : levelHeld'[d] = levelHeld[d]
        /\ levelProcessing'[l] = levelProcessing[l] \cup {h}
        /\ \A k \in Levels!Levels \ {l} : levelProcessing'[k] = levelProcessing[k]
        /\ pc'[c] = "busy" /\ \A d \in LevelConsumers \ {c} : pc'[d] = pc[d]
    BY <1>2, <2>1
  <2>5. Levels!TypeOK'
    <3>1. /\ queue' \in [Levels!Levels -> Seq(LevelTasks)]
          /\ levelProcessing' \in [Levels!Levels -> SUBSET LevelTasks]
      <4>1. Tail(queue[l]) \in Seq(LevelTasks) /\ h \in LevelTasks
        BY <2>2, <2>3
      <4> HIDE DEF h, l
      <4> QED
        BY <1>2, <2>1, <2>2, <4>1
    <3>2. /\ levelHeld' \in [LevelConsumers -> LevelTasks \cup {None}]
          /\ pc' \in [LevelConsumers -> {"idle", "peek", "receive", "wait", "busy"}]
      BY <1>2, <2>1, <2>3
    <3> QED
      BY <1>1, <1>3, <3>1, <3>2 DEF Levels!TypeOK
  <2> HIDE DEF h, l
  <2>6. LevelsHolders'
    <3>1. /\ h # None /\ LevelOf[h] = l /\ h \in levelSubmitted
          /\ \A k \in Levels!Levels : h \notin levelProcessing[k] /\ (In(queue[k], h) => k = l)
      BY <1>1, <1>2, <2>3, LevelsAssumption DEF LevelsHolders
    <3>2. \A d \in LevelConsumers : levelHeld[d] # h
      BY <1>1, <1>2, <3>1 DEF LevelsHolders
    <3>3. \A k \in Levels!Levels : \A t :
            /\ Once(queue'[k], t)
            /\ In(queue'[k], t) => /\ LevelOf[t] = k /\ t \in levelSubmitted'
                                   /\ \A m \in Levels!Levels : t \notin levelProcessing'[m]
      <4> SUFFICES ASSUME NEW k \in Levels!Levels, NEW t
                   PROVE  /\ Once(queue'[k], t)
                          /\ In(queue'[k], t) => /\ LevelOf[t] = k /\ t \in levelSubmitted'
                                                 /\ \A m \in Levels!Levels : t \notin levelProcessing'[m]
        OBVIOUS
      <4>1. /\ Once(queue[k], t)
            /\ In(queue[k], t) => /\ LevelOf[t] = k /\ t \in levelSubmitted
                                  /\ \A m \in Levels!Levels : t \notin levelProcessing[m]
        BY <1>1 DEF LevelsHolders
      <4>2. Once(queue'[k], t) /\ (In(queue'[k], t) => In(queue[k], t) /\ t # h)
        BY <2>2, <2>3, <3>1, <4>1
      <4>3. \A m \in Levels!Levels : t \in levelProcessing'[m] => t = h \/ t \in levelProcessing[m]
        BY <1>2, <2>4
      <4> QED
        BY <1>3, <4>1, <4>2, <4>3
    <3>4. \A d \in LevelConsumers :
            /\ pc'[d] = "busy" <=> levelHeld'[d] # None
            /\ levelHeld'[d] # None => levelHeld'[d] \in levelProcessing'[LevelOf[levelHeld'[d]]]
      <4> SUFFICES ASSUME NEW d \in LevelConsumers
                   PROVE  /\ pc'[d] = "busy" <=> levelHeld'[d] # None
                          /\ levelHeld'[d] # None => levelHeld'[d] \in levelProcessing'[LevelOf[levelHeld'[d]]]
        OBVIOUS
      <4>1. CASE d = c
        BY <1>2, <2>4, <3>1, <4>1
      <4>2. CASE d # c
        <5>1. levelHeld[d] # None => LevelOf[levelHeld[d]] \in Levels!Levels
          BY <1>2, LevelsAssumption DEF Levels!Levels
        <5> QED
          BY <1>1, <1>2, <2>4, <4>2, <5>1 DEF LevelsHolders
      <4> QED
        BY <4>1, <4>2
    <3>5. \A d, e \in LevelConsumers : levelHeld'[d] = levelHeld'[e] /\ levelHeld'[d] # None => d = e
      BY <1>1, <2>4, <3>2 DEF LevelsHolders
    <3>6. \A k \in Levels!Levels : \A t \in levelProcessing'[k] :
            t \in levelSubmitted' /\ (t \in nacked' \/ \E d \in LevelConsumers : levelHeld'[d] = t)
      <4> SUFFICES ASSUME NEW k \in Levels!Levels, NEW t \in levelProcessing'[k]
                   PROVE  t \in levelSubmitted' /\ (t \in nacked' \/ \E d \in LevelConsumers : levelHeld'[d] = t)
        OBVIOUS
      <4>1. t = h \/ t \in levelProcessing[k]
        BY <1>2, <2>4
      <4>2. CASE t = h
        BY <1>3, <2>4, <3>1, <4>2
      <4>3. CASE t \in levelProcessing[k]
        <5>1. t \in levelSubmitted /\ (t \in nacked \/ \E d \in LevelConsumers : levelHeld[d] = t)
          BY <1>1, <4>3 DEF LevelsHolders
        <5>2. ASSUME NEW d \in LevelConsumers, levelHeld[d] = t PROVE levelHeld'[d] = t
          BY <1>3, <2>4, <4>3, <5>2, <1>2, LevelsAssumption
        <5> QED
          BY <1>3, <5>1, <5>2
      <4> QED
        BY <4>1, <4>2, <4>3
    <3> QED
      BY <3>3, <3>4, <3>5, <3>6 DEF LevelsHolders
  <2>7. LevelsAccounted'
    <3>1. LevelOf[h] = l /\ h \notin levelDone
      BY <1>1, <1>2, <2>3 DEF LevelsHolders, LevelsAccounted
    <3>2. \A k \in Levels!Levels : \A t :
            /\ In(queue'[k], t) => In(queue[k], t)
            /\ t \in levelProcessing'[k] => t \in levelProcessing[k] \/ t = h
            /\ In(queue[k], t) \/ t \in levelProcessing[k] =>
                 In(queue'[k], t) \/ t \in levelProcessing'[k]
      BY <1>2, <2>2, <2>3, <2>4
    <3>3. \A t \in levelSubmitted : LevelOf[t] \in Levels!Levels
      BY <1>1, LevelsAssumption DEF Levels!TypeOK, Levels!Levels
    <3> QED
      BY <1>1, <1>3, <3>1, <3>2, <3>3 DEF LevelsAccounted
  <2> QED
    BY <2>5, <2>6, <2>7 DEF LevelsInv
<1> QED
  BY <1>4, <1>5

\* Ack deletes the task from every level, Nack leaves it listed.
LEMMA LevelsSettleStep ==
  ASSUME LevelsInv, NEW c \in LevelConsumers, Levels!Ack(c) \/ Levels!Nack(c)
  PROVE  LevelsInv'
<1>1. Levels!TypeOK /\ LevelsHolders /\ LevelsAccounted
  BY DEF LevelsInv
<1>2. /\ levelProcessing \in [Levels!Levels -> SUBSET LevelTasks]
      /\ pc \in [LevelConsumers -> {"idle", "peek", "receive", "wait", "busy"}]
      /\ levelHeld \in [LevelConsumers -> LevelTasks \cup {None}]
      /\ nacked \subseteq LevelTasks
  BY <1>1 DEF Levels!TypeOK
<1>3. levelHeld[c] # None /\ levelHeld[c] \in LevelTasks
  BY <1>1, <1>2 DEF Levels!Ack, Levels!Nack, LevelsHolders
<1>4. /\ \/ /\ levelProcessing' = [l \in Levels!Levels |-> levelProcessing[l] \ {levelHeld[c]}]
            /\ nacked' = nacked /\ levelDone' = levelDone \cup {levelHeld[c]}
         \/ /\ nacked' = nacked \cup {levelHeld[c]} /\ levelProcessing' = levelProcessing
            /\ levelDone' = levelDone
      /\ levelHeld' = [levelHeld EXCEPT ![c] = None]
      /\ pc' = [pc EXCEPT ![c] = "idle"]
      /\ UNCHANGED <<queue, level, closePc, levelSubmitted>>
  BY DEF Levels!Ack, Levels!Acked, Levels!Nack
<1>5. /\ \A l \in Levels!Levels : levelProcessing'[l] \subseteq levelProcessing[l]
      /\ \A l \in Levels!Levels : \A t \in levelProcessing[l] : t # levelHeld[c] => t \in levelProcessing'[l]
      /\ \A l \in Levels!Levels : levelHeld[c] \in levelProcessing'[l] => levelHeld[c] \in nacked'
      /\ nacked \subseteq nacked'
  BY <1>2, <1>4
<1>6. /\ levelHeld'[c] = None /\ \A d \in LevelConsumers \ {c} : levelHeld'[d] = levelHeld[d]
      /\ pc'[c] = "idle" /\ \A d \in LevelConsumers \ {c} : pc'[d] = pc[d]
  BY <1>2, <1>4
<1>7. Levels!TypeOK'
  <2>1. levelProcessing' \in [Levels!Levels -> SUBSET LevelTasks]
    BY <1>2, <1>4
  <2>2. /\ levelHeld' \in [LevelConsumers -> LevelTasks \cup {None}]
        /\ pc' \in [LevelConsumers -> {"idle", "peek", "receive", "wait", "busy"}]
        /\ nacked' \subseteq LevelTasks /\ levelDone' \subseteq LevelTasks
    BY <1>1, <1>2, <1>3, <1>4 DEF Levels!TypeOK
  <2> QED
    BY <1>1, <1>4, <2>1, <2>2 DEF Levels!TypeOK
<1>8. LevelsHolders'
  <2>1. \A l \in Levels!Levels : \A t :
          /\ Once(queue'[l], t)
          /\ In(queue'[l], t) => /\ LevelOf[t] = l /\ t \in levelSubmitted'
                                 /\ \A k \in Levels!Levels : t \notin levelProcessing'[k]
    BY <1>1, <1>4, <1>5 DEF LevelsHolders
  <2>2. ASSUME NEW d \in LevelConsumers
        PROVE  /\ pc'[d] = "busy" <=> levelHeld'[d] # None
               /\ levelHeld'[d] # None => levelHeld'[d] \in levelProcessing'[LevelOf[levelHeld'[d]]]
    <3>1. CASE d = c
      BY <1>6, <3>1
    <3>2. CASE d # c
      <4>1. levelHeld[d] # None => LevelOf[levelHeld[d]] \in Levels!Levels /\ levelHeld[d] # levelHeld[c]
        BY <1>1, <1>2, <1>3, <3>2, LevelsAssumption DEF Levels!Levels, LevelsHolders
      <4> QED
        BY <1>1, <1>5, <1>6, <3>2, <4>1 DEF LevelsHolders
    <3> QED
      BY <3>1, <3>2
  <2>3. \A d, e \in LevelConsumers : levelHeld'[d] = levelHeld'[e] /\ levelHeld'[d] # None => d = e
    BY <1>1, <1>6 DEF LevelsHolders
  <2>4. ASSUME NEW l \in Levels!Levels, NEW t \in levelProcessing'[l]
        PROVE  t \in levelSubmitted' /\ (t \in nacked' \/ \E d \in LevelConsumers : levelHeld'[d] = t)
    <3>1. t \in levelSubmitted /\ (t \in nacked \/ \E d \in LevelConsumers : levelHeld[d] = t)
      BY <1>1, <1>5 DEF LevelsHolders
    <3>2. CASE t = levelHeld[c]
      BY <1>4, <1>5, <3>1, <3>2
    <3>3. CASE t # levelHeld[c]
      BY <1>4, <1>5, <1>6, <3>1, <3>3
    <3> QED
      BY <3>2, <3>3
  <2> QED
    BY <2>1, <2>2, <2>3, <2>4 DEF LevelsHolders
<1>9. LevelsAccounted'
  <2>1. /\ levelHeld[c] \in levelProcessing[LevelOf[levelHeld[c]]]
        /\ LevelOf[levelHeld[c]] \in Levels!Levels
    BY <1>1, <1>3, LevelsAssumption DEF LevelsHolders, Levels!Levels
  <2>2. levelHeld[c] \in levelSubmitted /\ \A l \in Levels!Levels : ~In(queue[l], levelHeld[c])
    BY <1>1, <2>1 DEF LevelsHolders
  <2>3. CASE levelProcessing' = levelProcessing /\ levelDone' = levelDone
    BY <1>1, <1>4, <2>3 DEF LevelsAccounted
  <2>4. CASE /\ levelProcessing' = [l \in Levels!Levels |-> levelProcessing[l] \ {levelHeld[c]}]
             /\ levelDone' = levelDone \cup {levelHeld[c]}
    <3>1. \A l \in Levels!Levels : levelProcessing'[l] = levelProcessing[l] \ {levelHeld[c]}
      BY <2>4
    <3>2. \A t \in levelSubmitted : LevelOf[t] \in Levels!Levels
      BY <1>1, LevelsAssumption DEF Levels!TypeOK, Levels!Levels
    <3> QED
      BY <1>1, <1>4, <2>2, <2>4, <3>1, <3>2 DEF LevelsAccounted
  <2> QED
    BY <1>4, <2>3, <2>4
<1> QED
  BY <1>7, <1>8, <1>9 DEF LevelsInv

\* Every step of the levelled queue keeps its invariant.
LEMMA LevelsStep ==
  ASSUME LevelsInv, Levels!Next
  PROVE  LevelsInv'
<1>1. ASSUME Levels!RequestClose \/ Levels!Close PROVE LevelsInv'
  <2>1. /\ closePc' \in {"waiting", "closed"}
        /\ UNCHANGED <<queue, levelProcessing, pc, level, levelHeld, levelSubmitted, nacked, levelDone>>
    BY <1>1 DEF Levels!RequestClose, Levels!Close
  <2>2. Levels!TypeOK'
    BY <2>1 DEF LevelsInv, Levels!TypeOK
  <2>3. LevelsHolders' /\ LevelsAccounted'
    BY <2>1, LevelsFrame
  <2> QED
    BY <2>2, <2>3 DEF LevelsInv
<1> QED
  BY <1>1, LevelsEnqueueStep, LevelsWalkStep, LevelsReceiveStep, LevelsSettleStep DEF Levels!Next

----------------------------------------------------------------------------
(* RedisQueue *)

HasId(q, t)  == \E i \in 1..Len(q) : q[i].id = t
OnceId(q, t) == \A i, j \in 1..Len(q) : q[i].id = t /\ q[j].id = t => i = j

Pushed(q, x) == <<x>> \o q
Popped(q) == SubSeq(q, 1, Len(q) - 1)

\* LPUSH,
LEMMA PushId ==
  ASSUME NEW S, NEW q \in Seq(S), NEW x \in S, NEW r, r = Pushed(q, x), NEW t
  PROVE  /\ r \in Seq(S)
         /\ HasId(r, t) <=> HasId(q, t) \/ x.id = t
         /\ OnceId(q, t) /\ ~(x.id = t /\ HasId(q, t)) => OnceId(r, t)
<1>1. /\ Len(q) \in Nat /\ r \in Seq(S) /\ Len(r) = Len(q) + 1 /\ r[1] = x
      /\ \A i \in 2..Len(q) + 1 : r[i] = q[i - 1]
  BY DEF Pushed
<1>2. /\ 1 \in 1..Len(r)
      /\ \A i \in 1..Len(r) : i # 1 => i - 1 \in 1..Len(q) /\ r[i] = q[i - 1]
  BY <1>1
<1>3. ASSUME HasId(q, t) PROVE HasId(r, t)
  <2>1. PICK i \in 1..Len(q) : q[i].id = t
    BY <1>3 DEF HasId
  <2>2. i + 1 \in 1..Len(r) /\ r[i + 1] = q[i]
    BY <1>1
  <2> QED
    BY <2>1, <2>2 DEF HasId
<1>4. HasId(r, t) <=> HasId(q, t) \/ x.id = t
  BY <1>1, <1>2, <1>3 DEF HasId
<1>5. ASSUME OnceId(q, t), ~(x.id = t /\ HasId(q, t)) PROVE OnceId(r, t)
  <2> SUFFICES ASSUME NEW i \in 1..Len(r), NEW j \in 1..Len(r), r[i].id = t, r[j].id = t PROVE i = j
    BY DEF OnceId
  <2>1. CASE i = 1 \/ j = 1
    BY <1>1, <1>2, <1>5, <2>1 DEF HasId
  <2>2. CASE i # 1 /\ j # 1
    <3>1. i - 1 = j - 1
      BY <1>2, <1>5, <2>2 DEF OnceId
    <3> QED
      BY <3>1
  <2> QED
    BY <2>1, <2>2
<1> QED
  BY <1>1, <1>4, <1>5

\* and RPOP.
LEMMA PopId ==
  ASSUME NEW S, NEW q \in Seq(S), q # << >>, NEW r, r = Popped(q), NEW l, l = q[Len(q)], NEW t
  PROVE  /\ r \in Seq(S) /\ l \in S
         /\ HasId(q, t) <=> HasId(r, t) \/ l.id = t
         /\ OnceId(q, t) => OnceId(r, t) /\ ~(HasId(r, t) /\ l.id = t)
<1>1. Len(q) \in Nat /\ Len(q) > 0 /\ q[Len(q)] \in S
  OBVIOUS
<1>2. r \in Seq(S) /\ Len(r) = Len(q) - 1
  <2> DEFINE n == Len(q) - 1
  <2>1. n \in Nat /\ \A i \in 1..n : q[i] \in S
    BY <1>1
  <2>2. r = SubSeq(q, 1, n)
    BY DEF Popped
  <2> HIDE DEF n
  <2>3. r \in Seq(S) /\ Len(r) = IF 1 <= n THEN n - 1 + 1 ELSE 0
    BY <2>1, <2>2, SubSeqProperties
  <2>4. Len(r) = n
    BY <2>1, <2>3
  <2> QED
    BY <2>3, <2>4 DEF n
<1>3. \A i \in 1..Len(q) - 1 : r[i] = q[i]
  BY <1>1 DEF Popped
<1>4. /\ Len(q) \in 1..Len(q)
      /\ \A i \in 1..Len(r) : i \in 1..Len(q) /\ i # Len(q) /\ r[i] = q[i]
      /\ \A i \in 1..Len(q) : i # Len(q) => i \in 1..Len(r)
  BY <1>1, <1>2, <1>3
<1>5. HasId(q, t) <=> HasId(r, t) \/ q[Len(q)].id = t
  BY <1>4 DEF HasId
<1>6. OnceId(q, t) => OnceId(r, t)
  BY <1>4 DEF OnceId
<1>7. OnceId(q, t) => ~(HasId(r, t) /\ q[Len(q)].id = t)
  BY <1>4 DEF OnceId, HasId
<1> QED
  BY <1>1, <1>2, <1>5, <1>6, <1>7

RedisRecord == [id : QTasks, prio : Int, retry : Int]
RedisPcs == {"idle", "popped", "held", "found", "removed", "revived"}

ZsetTyped  == /\ added \in Nat
              /\ \A m \in zset : m.id \in QTasks /\ m.prio \in Int /\ m.retry \in Int
                                 /\ m.at \in Nat /\ m.at < added
HashTyped  == /\ redisProcessing \in [QTasks -> RedisRecord \cup {None}]
              /\ \A t \in QTasks : redisProcessing[t] # None => redisProcessing[t].id = t
ConsTyped  == /\ cons \in [RedisConsumers -> [pc : RedisPcs, task : RedisRecord \cup {None}]]
              /\ \A c \in RedisConsumers : cons[c].pc = "idle" <=> cons[c].task = None
RedisTyped == /\ ZsetTyped /\ HashTyped /\ ConsTyped
              /\ deadLetters \in Seq(RedisRecord) /\ accepted \subseteq QTasks

Waits(t)     == \E m \in zset : m.id = t
HandOf(c, t) == cons[c].task # None /\ cons[c].task.id = t
Held(t)      == \E c \in RedisConsumers : HandOf(c, t)
Hashed(t)    == redisProcessing[t] # None

\* A task nobody accepted is nowhere; one that no fault struck is in one place,
\* and the hash knows it exactly between Dequeue's HSET and Nack's HDEL.
RedisTask(t) ==
  /\ t \notin accepted => ~Waits(t) /\ ~HasId(deadLetters, t) /\ ~Held(t) /\ ~Hashed(t) /\ t \notin acked
  /\ t \in accepted \ harmed =>
       /\ Waits(t) \/ HasId(deadLetters, t) \/ Held(t) \/ Hashed(t) \/ t \in acked
       /\ Waits(t) => ~HasId(deadLetters, t) /\ ~Held(t) /\ ~Hashed(t) /\ t \notin acked
       /\ HasId(deadLetters, t) => ~Held(t) /\ ~Hashed(t) /\ t \notin acked
       /\ Held(t) \/ Hashed(t) => t \notin acked
       /\ \A c \in RedisConsumers : HandOf(c, t) => (Hashed(t) <=> cons[c].pc \in {"held", "found"})
       /\ \A m, n \in zset : m.id = t /\ n.id = t => m = n
       /\ OnceId(deadLetters, t)
       /\ \A c, d \in RedisConsumers : HandOf(c, t) /\ HandOf(d, t) => c = d

RedisInv == RedisTyped /\ \A t \in QTasks : RedisTask(t)

\* The instance counts as FiniteSets does.
LEMMA RedisCardinality == ASSUME NEW S PROVE Redis!Cardinality(S) = Cardinality(S)
  BY DEF Redis!Cardinality, Cardinality, Redis!IsFiniteSet, IsFiniteSet

\* The invariant of the Redis queue gives the property that the runs check.
LEMMA RedisPromise ==
  ASSUME RedisInv
  PROVE  Redis!ExactlyOnePlace
<1> SUFFICES ASSUME NEW t \in accepted \ harmed PROVE Redis!Places(t) = 1
  BY DEF Redis!ExactlyOnePlace
<1> DEFINE Z == {m \in zset : m.id = t}
           D == {i \in DOMAIN deadLetters : deadLetters[i].id = t}
           H == Redis!InHand(t)
<1>1. RedisTask(t) /\ DOMAIN deadLetters = 1..Len(deadLetters)
  BY DEF RedisInv, RedisTyped
<1>2. H = {c \in RedisConsumers : HandOf(c, t)}
  BY DEF Redis!InHand, HandOf
<1>3. Cardinality(Z) = IF Waits(t) THEN 1 ELSE 0
  <2>1. \A x, y \in Z : x = y
    BY <1>1 DEF RedisTask
  <2>2. Z = {} <=> ~Waits(t)
    BY DEF Waits
  <2> QED
    BY <2>1, <2>2, AtMostOne
<1>4. Cardinality(D) = IF HasId(deadLetters, t) THEN 1 ELSE 0
  <2>1. \A x, y \in D : x = y
    BY <1>1 DEF RedisTask, OnceId
  <2>2. D = {} <=> ~HasId(deadLetters, t)
    BY <1>1 DEF HasId
  <2> QED
    BY <2>1, <2>2, AtMostOne
<1>5. Cardinality(H) = IF Held(t) THEN 1 ELSE 0
  <2>1. \A x, y \in H : x = y
    BY <1>1, <1>2 DEF RedisTask
  <2>2. H = {} <=> ~Held(t)
    BY <1>2 DEF Held
  <2> QED
    BY <2>1, <2>2, AtMostOne
<1>6. Redis!Places(t) = Cardinality(Z) + Cardinality(D) + Cardinality(H)
                          + (IF ~Held(t) /\ Hashed(t) THEN 1 ELSE 0) + (IF t \in acked THEN 1 ELSE 0)
  <2>1. H = {} <=> ~Held(t)
    BY <1>2 DEF Held
  <2> QED
    BY <2>1, RedisCardinality DEF Redis!Places, Hashed
<1> HIDE DEF Z, D, H
<1> QED
  BY <1>1, <1>3, <1>4, <1>5, <1>6 DEF RedisTask

\* An empty Redis satisfies the invariant.
LEMMA RedisInit == Redis!Init => RedisInv
<1> SUFFICES ASSUME Redis!Init PROVE RedisInv
  OBVIOUS
<1> USE DEF Redis!Init
<1>1. ZsetTyped /\ HashTyped /\ deadLetters \in Seq(RedisRecord) /\ accepted \subseteq QTasks
  BY DEF ZsetTyped, HashTyped
<1>2. ConsTyped
  BY DEF ConsTyped, Redis!Idle, RedisPcs
<1>3. \A t \in QTasks : ~Waits(t) /\ ~HasId(deadLetters, t) /\ ~Held(t) /\ ~Hashed(t)
  BY DEF Waits, HasId, Held, HandOf, Hashed, Redis!Idle
<1>4. \A t \in QTasks : RedisTask(t)
  BY <1>3 DEF RedisTask
<1> QED
  BY <1>1, <1>2, <1>4 DEF RedisInv, RedisTyped

\* A consumer goes to its next command.
LEMMA RedisGoto ==
  ASSUME ConsTyped, NEW c \in RedisConsumers, NEW p \in RedisPcs, NEW u \in RedisRecord \cup {None},
         p = "idle" <=> u = None, Redis!Goto(c, p, u)
  PROVE  ConsTyped' /\ cons'[c].pc = p /\ cons'[c].task = u /\ \A d \in RedisConsumers \ {c} : cons'[d] = cons[d]
<1>1. cons' = [cons EXCEPT ![c] = [pc |-> p, task |-> u]]
  BY DEF Redis!Goto
<1>2. [pc |-> p, task |-> u] \in [pc : RedisPcs, task : RedisRecord \cup {None}]
  OBVIOUS
<1>3. cons \in [RedisConsumers -> [pc : RedisPcs, task : RedisRecord \cup {None}]]
  BY DEF ConsTyped
<1>4. /\ cons' \in [RedisConsumers -> [pc : RedisPcs, task : RedisRecord \cup {None}]]
      /\ cons'[c] = [pc |-> p, task |-> u]
      /\ \A d \in RedisConsumers \ {c} : cons'[d] = cons[d]
  BY <1>1, <1>2, <1>3
<1>5. cons'[c].pc = p /\ cons'[c].task = u
  BY <1>4
<1> QED
  BY <1>4, <1>5 DEF ConsTyped

\* ZADD adds a member that was not there.
LEMMA RedisZAdd ==
  ASSUME ZsetTyped, NEW u, u.id \in QTasks, u.prio \in Int, u.retry \in Int, Redis!ZAdd(u)
  PROVE  ZsetTyped' /\ \E m : zset' = zset \cup {m} /\ m.id = u.id
<1> DEFINE m == [id |-> u.id, prio |-> u.prio, retry |-> u.retry, at |-> added]
<1>1. zset' = zset \cup {m} /\ added' = added + 1
  BY DEF Redis!ZAdd
<1>2. m.id = u.id /\ m.prio = u.prio /\ m.retry = u.retry /\ m.at = added
  OBVIOUS
<1> HIDE DEF m
<1> QED
  BY <1>1, <1>2 DEF ZsetTyped

\* What a step does not touch stays in its place.
LEMMA RedisFrame ==
  ASSUME NEW t, RedisTask(t),
         \A m : m.id = t => (m \in zset' <=> m \in zset),
         HasId(deadLetters', t) <=> HasId(deadLetters, t), OnceId(deadLetters, t) => OnceId(deadLetters', t),
         \A c \in RedisConsumers : HandOf(c, t)' <=> HandOf(c, t),
         \A c \in RedisConsumers : HandOf(c, t) => cons'[c].pc = cons[c].pc,
         Hashed(t)' <=> Hashed(t), t \in acked' <=> t \in acked,
         t \in accepted' <=> t \in accepted, harmed \subseteq harmed'
  PROVE  RedisTask(t)'
<1>1. Waits(t)' <=> Waits(t)
  BY DEF Waits
<1>2. Held(t)' <=> Held(t)
  BY DEF Held
<1>3. ASSUME \A m, n \in zset : m.id = t /\ n.id = t => m = n
      PROVE  \A m, n \in zset' : m.id = t /\ n.id = t => m = n
  BY <1>3
<1> QED
  BY <1>1, <1>2, <1>3 DEF RedisTask

\* Enqueue puts a new task into the sorted set.
LEMMA RedisEnqueueStep ==
  ASSUME RedisInv, NEW u \in QTasks, Redis!Enqueue(u)
  PROVE  RedisInv'
<1>1. RedisTyped /\ ZsetTyped /\ HashTyped /\ ConsTyped /\ \A t \in QTasks : RedisTask(t)
  BY DEF RedisInv, RedisTyped
<1>2. /\ u \notin accepted /\ accepted' = accepted \cup {u}
      /\ Redis!ZAdd([id |-> u, prio |-> PriorityOf[u], retry |-> 0])
      /\ UNCHANGED <<redisProcessing, deadLetters, cons, acked, harmed, faults>>
  BY DEF Redis!Enqueue
<1>3. ZsetTyped' /\ \E m : zset' = zset \cup {m} /\ m.id = u
  <2> DEFINE r == [id |-> u, prio |-> PriorityOf[u], retry |-> 0]
  <2>1. r.id = u /\ r.id \in QTasks /\ r.prio \in Int /\ r.retry \in Int /\ Redis!ZAdd(r)
    BY <1>2, RedisAssumption
  <2> HIDE DEF r
  <2> QED
    BY <1>1, <2>1, RedisZAdd
<1>4. RedisTyped'
  BY <1>1, <1>2, <1>3 DEF RedisTyped, HashTyped, ConsTyped
<1>5. PICK m : zset' = zset \cup {m} /\ m.id = u
  BY <1>3
<1>6. ASSUME NEW t \in QTasks, t # u PROVE RedisTask(t)'
  <2>1. /\ \A n : n.id = t => (n \in zset' <=> n \in zset)
        /\ Hashed(t)' <=> Hashed(t)
        /\ \A c \in RedisConsumers : HandOf(c, t)' <=> HandOf(c, t)
        /\ t \in accepted' <=> t \in accepted
    BY <1>2, <1>5, <1>6 DEF Hashed, HandOf
  <2> QED
    BY <1>1, <1>2, <2>1, RedisFrame
<1>7. RedisTask(u)'
  <2>1. ~Waits(u) /\ ~HasId(deadLetters, u) /\ ~Held(u) /\ ~Hashed(u) /\ u \notin acked
    BY <1>1, <1>2 DEF RedisTask
  <2>2. Waits(u)' /\ \A n, o \in zset' : n.id = u /\ o.id = u => n = o
    BY <1>5, <2>1 DEF Waits
  <2>3. ~HasId(deadLetters', u) /\ ~Held(u)' /\ ~Hashed(u)' /\ u \notin acked' /\ OnceId(deadLetters', u)
    BY <1>2, <2>1 DEF HasId, OnceId, Held, HandOf, Hashed
  <2> QED
    BY <1>2, <2>2, <2>3 DEF RedisTask, Held
<1> QED
  BY <1>4, <1>6, <1>7 DEF RedisInv

\* ZPOPMIN moves the task from the sorted set into a consumer's hands.
LEMMA RedisDequeueStep ==
  ASSUME RedisInv, NEW c \in RedisConsumers, Redis!Dequeue(c)
  PROVE  RedisInv'
<1>1. RedisTyped /\ ZsetTyped /\ HashTyped /\ ConsTyped /\ \A t \in QTasks : RedisTask(t)
  BY DEF RedisInv, RedisTyped
<1>2. /\ cons[c].pc = "idle" /\ cons[c].task = None
      /\ UNCHANGED <<redisProcessing, deadLetters, accepted, acked, added, harmed, faults>>
  BY <1>1 DEF Redis!Dequeue, Redis!At, Redis!NoStrike, ConsTyped
<1>3. PICK m \in zset : /\ zset' = zset \ {m}
                        /\ Redis!Goto(c, "popped", [id |-> m.id, prio |-> m.prio, retry |-> m.retry])
  BY DEF Redis!Dequeue
<1> DEFINE r == [id |-> m.id, prio |-> m.prio, retry |-> m.retry]
           u == m.id
<1>4. r \in RedisRecord /\ r.id = u /\ u \in QTasks /\ r # None
  BY <1>1, <1>3, RedisAssumption DEF ZsetTyped, RedisRecord
<1> HIDE DEF r, u
<1>5. ConsTyped' /\ cons'[c].pc = "popped" /\ cons'[c].task = r /\ \A d \in RedisConsumers \ {c} : cons'[d] = cons[d]
  BY <1>1, <1>3, <1>4, RedisGoto DEF r, RedisPcs
<1>6. RedisTyped'
  BY <1>1, <1>2, <1>3, <1>5 DEF RedisTyped, HashTyped, ZsetTyped
<1>7. \A t : /\ HandOf(c, t)' <=> u = t
             /\ ~HandOf(c, t)
             /\ \A d \in RedisConsumers \ {c} : HandOf(d, t)' <=> HandOf(d, t)
  BY <1>2, <1>4, <1>5 DEF HandOf
<1>8. ASSUME NEW t \in QTasks, t # u PROVE RedisTask(t)'
  <2>1. /\ \A n : n.id = t => (n \in zset' <=> n \in zset)
        /\ Hashed(t)' <=> Hashed(t)
        /\ \A d \in RedisConsumers : HandOf(d, t)' <=> HandOf(d, t)
        /\ \A d \in RedisConsumers : HandOf(d, t) => cons'[d].pc = cons[d].pc
    BY <1>2, <1>3, <1>5, <1>7, <1>8 DEF Hashed, u
  <2> QED
    BY <1>1, <1>2, <2>1, RedisFrame
<1>9. RedisTask(u)'
  <2>1. RedisTask(u) /\ Waits(u) /\ u \in accepted
    BY <1>1, <1>3, <1>4 DEF Waits, RedisTask, u
  <2>2. SUFFICES ASSUME u \notin harmed PROVE RedisTask(u)'
    BY <1>2, <2>1 DEF RedisTask
  <2>3. ~HasId(deadLetters, u) /\ ~Held(u) /\ ~Hashed(u) /\ u \notin acked
    BY <2>1, <2>2 DEF RedisTask
  <2>4. ~Waits(u)'
    BY <1>3, <2>1, <2>2 DEF RedisTask, Waits, u
  <2>5. \A d \in RedisConsumers : HandOf(d, u)' <=> d = c
    BY <1>7, <2>3 DEF Held
  <2>6. ~HasId(deadLetters', u) /\ ~Hashed(u)' /\ OnceId(deadLetters', u)
    BY <1>2, <2>3 DEF HasId, OnceId, Hashed
  <2> QED
    BY <1>2, <1>5, <2>1, <2>3, <2>4, <2>5, <2>6 DEF RedisTask, Held, Waits
<1> QED
  BY <1>4, <1>6, <1>8, <1>9 DEF RedisInv

\* The task a consumer holds.
LEMMA RedisHolder ==
  ASSUME RedisInv, NEW c \in RedisConsumers, cons[c].pc # "idle", NEW r, r = cons[c].task
  PROVE  /\ r \in RedisRecord /\ r # None /\ r.id \in QTasks /\ r.prio \in Int /\ r.retry \in Int
         /\ \A t : HandOf(c, t) <=> t = r.id
         /\ r.id \in accepted /\ Held(r.id)
         /\ r.id \notin harmed => /\ ~Waits(r.id) /\ ~HasId(deadLetters, r.id) /\ r.id \notin acked
                                  /\ Hashed(r.id) <=> cons[c].pc \in {"held", "found"}
                                  /\ \A d \in RedisConsumers : HandOf(d, r.id) => d = c
                                  /\ OnceId(deadLetters, r.id)
<1>1. ConsTyped /\ \A t \in QTasks : RedisTask(t)
  BY DEF RedisInv, RedisTyped
<1>2. cons[c].task \in RedisRecord \cup {None} /\ cons[c].task # None
  BY <1>1 DEF ConsTyped
<1>3. r \in RedisRecord /\ r # None
  BY <1>2
<1>4. r.id \in QTasks /\ r.prio \in Int /\ r.retry \in Int
  BY <1>3 DEF RedisRecord
<1>5. \A t : HandOf(c, t) <=> t = r.id
  BY <1>3 DEF HandOf
<1>6. Held(r.id) /\ RedisTask(r.id) /\ HandOf(c, r.id)
  BY <1>1, <1>4, <1>5 DEF Held
<1>7. r.id \in accepted
  BY <1>6 DEF RedisTask
<1>8. ASSUME r.id \notin harmed
      PROVE  /\ ~Waits(r.id) /\ ~HasId(deadLetters, r.id) /\ r.id \notin acked
             /\ Hashed(r.id) <=> cons[c].pc \in {"held", "found"}
             /\ \A d \in RedisConsumers : HandOf(d, r.id) => d = c
             /\ OnceId(deadLetters, r.id)
  BY <1>6, <1>7, <1>8 DEF RedisTask
<1> QED
  BY <1>3, <1>4, <1>5, <1>6, <1>7, <1>8

\* A step of a consumer on its task u leaves the other tasks alone.
LEMMA RedisOthers ==
  ASSUME RedisInv, NEW c \in RedisConsumers, NEW u,
         \A m : m.id # u => (m \in zset' <=> m \in zset),
         \A t : t # u => /\ HasId(deadLetters', t) <=> HasId(deadLetters, t)
                         /\ OnceId(deadLetters, t) => OnceId(deadLetters', t),
         \A d \in RedisConsumers \ {c} : cons'[d] = cons[d],
         \A t : t # u => ~HandOf(c, t) /\ ~HandOf(c, t)',
         \A t \in QTasks : t # u => redisProcessing'[t] = redisProcessing[t],
         acked' = acked \/ acked' = acked \cup {u},
         accepted' = accepted, harmed \subseteq harmed'
  PROVE  \A t \in QTasks : t # u => RedisTask(t)'
<1> SUFFICES ASSUME NEW t \in QTasks, t # u PROVE RedisTask(t)'
  OBVIOUS
<1>1. RedisTask(t)
  BY DEF RedisInv
<1>2. Hashed(t)' <=> Hashed(t)
  BY DEF Hashed
<1>3. ASSUME NEW d \in RedisConsumers
      PROVE  (HandOf(d, t)' <=> HandOf(d, t)) /\ (HandOf(d, t) => cons'[d].pc = cons[d].pc)
  <2>1. CASE d = c
    BY <2>1
  <2>2. CASE d # c
    BY <2>2 DEF HandOf
  <2> QED
    BY <2>1, <2>2
<1>4. /\ \A m : m.id = t => (m \in zset' <=> m \in zset)
      /\ HasId(deadLetters', t) <=> HasId(deadLetters, t)
      /\ OnceId(deadLetters, t) => OnceId(deadLetters', t)
      /\ t \in acked' <=> t \in acked
      /\ t \in accepted' <=> t \in accepted
  OBVIOUS
<1> QED
  BY <1>1, <1>2, <1>3, <1>4, RedisFrame

\* DequeueRecords, Nack and NackRemoves: the task stays in the same hands.
LEMMA RedisKeepsStep ==
  ASSUME RedisInv, NEW c \in RedisConsumers, cons[c].pc # "idle", NEW r, r = cons[c].task,
         NEW p \in RedisPcs \ {"idle"}, NEW v \in RedisRecord, v.id = r.id, Redis!Goto(c, p, v),
         UNCHANGED <<zset, deadLetters, accepted, acked, added>>,
         HashTyped', harmed \subseteq harmed',
         \A t \in QTasks : t # r.id => redisProcessing'[t] = redisProcessing[t],
         r.id \notin harmed' => (Hashed(r.id)' <=> p \in {"held", "found"})
  PROVE  RedisInv'
<1>1. ZsetTyped /\ ConsTyped /\ deadLetters \in Seq(RedisRecord) /\ accepted \subseteq QTasks
  BY DEF RedisInv, RedisTyped
<1>2. /\ r \in RedisRecord /\ r # None /\ r.id \in QTasks
      /\ \A t : HandOf(c, t) <=> t = r.id
      /\ r.id \in accepted
      /\ r.id \notin harmed => /\ ~Waits(r.id) /\ ~HasId(deadLetters, r.id) /\ r.id \notin acked
                               /\ \A d \in RedisConsumers : HandOf(d, r.id) => d = c
                               /\ OnceId(deadLetters, r.id)
  BY RedisHolder
<1>3. v # None
  BY RedisAssumption DEF RedisRecord
<1>4. ConsTyped' /\ cons'[c].pc = p /\ cons'[c].task = v /\ \A d \in RedisConsumers \ {c} : cons'[d] = cons[d]
  BY <1>1, <1>3, RedisGoto
<1>5. RedisTyped'
  BY <1>1, <1>4 DEF RedisTyped, ZsetTyped
<1>6. \A t : HandOf(c, t)' <=> t = r.id
  BY <1>3, <1>4 DEF HandOf
<1>7. \A t \in QTasks : t # r.id => RedisTask(t)'
  <2>1. /\ \A m : m.id # r.id => (m \in zset' <=> m \in zset)
        /\ \A t : t # r.id => /\ HasId(deadLetters', t) <=> HasId(deadLetters, t)
                              /\ OnceId(deadLetters, t) => OnceId(deadLetters', t)
        /\ \A t : t # r.id => ~HandOf(c, t) /\ ~HandOf(c, t)'
    BY <1>2, <1>6 DEF HasId, OnceId
  <2> QED
    BY <1>4, <2>1, RedisOthers
<1>8. RedisTask(r.id)'
  <2>1. r.id \in accepted'
    BY <1>2
  <2>2. SUFFICES ASSUME r.id \notin harmed' PROVE RedisTask(r.id)'
    BY <2>1 DEF RedisTask
  <2>3. \A d \in RedisConsumers : HandOf(d, r.id)' <=> d = c
    BY <1>2, <1>4, <1>6, <2>2 DEF HandOf
  <2>4. ~Waits(r.id)' /\ ~HasId(deadLetters', r.id) /\ OnceId(deadLetters', r.id) /\ r.id \notin acked'
    BY <1>2, <2>2 DEF Waits, HasId, OnceId
  <2> QED
    BY <1>4, <2>1, <2>2, <2>3, <2>4 DEF RedisTask, Held, Waits
<1> QED
  BY <1>5, <1>7, <1>8 DEF RedisInv

\* HSET enters it into the hash; when that fails, the task is struck.
LEMMA RedisRecordsStep ==
  ASSUME RedisInv, NEW c \in RedisConsumers, Redis!DequeueRecords(c)
  PROVE  RedisInv'
<1> PICK r : r = cons[c].task
  OBVIOUS
<1>1. /\ cons[c].pc = "popped"
      /\ \/ redisProcessing' = [redisProcessing EXCEPT ![r.id] = r] /\ harmed' = harmed
         \/ harmed' = harmed \cup {r.id} /\ redisProcessing' = redisProcessing
      /\ Redis!Goto(c, "held", r)
      /\ UNCHANGED <<zset, deadLetters, accepted, acked, added>>
  BY DEF Redis!DequeueRecords, Redis!At, Redis!Strike, Redis!NoStrike
<1>2. r \in RedisRecord /\ r # None /\ r.id \in QTasks
  BY <1>1, RedisHolder
<1>3. HashTyped
  BY DEF RedisInv, RedisTyped
<1>4. /\ HashTyped'
      /\ \A t \in QTasks : t # r.id => redisProcessing'[t] = redisProcessing[t]
      /\ r.id \notin harmed' => Hashed(r.id)'
  BY <1>1, <1>2, <1>3 DEF HashTyped, Hashed
<1>5. "held" \in RedisPcs \ {"idle"} /\ harmed \subseteq harmed'
  BY <1>1 DEF RedisPcs
<1> QED
  BY <1>1, <1>2, <1>4, <1>5, RedisKeepsStep

\* HDEL takes it out again; when that fails, the task is struck.
LEMMA RedisRemovesStep ==
  ASSUME RedisInv, NEW c \in RedisConsumers, Redis!NackRemoves(c)
  PROVE  RedisInv'
<1> PICK r : r = cons[c].task
  OBVIOUS
<1> DEFINE v == [r EXCEPT !.retry = @ + 1]
<1>1. /\ cons[c].pc = "found"
      /\ \/ redisProcessing' = [redisProcessing EXCEPT ![r.id] = None] /\ harmed' = harmed
         \/ harmed' = harmed \cup {r.id} /\ redisProcessing' = redisProcessing
      /\ Redis!Goto(c, "removed", v)
      /\ UNCHANGED <<zset, deadLetters, accepted, acked, added>>
  BY DEF Redis!NackRemoves, Redis!At, Redis!Strike, Redis!NoStrike
<1>2. r \in RedisRecord /\ r # None /\ r.id \in QTasks
  BY <1>1, RedisHolder
<1>3. v \in RedisRecord /\ v.id = r.id
  BY <1>2 DEF RedisRecord
<1> HIDE DEF v
<1>4. HashTyped
  BY DEF RedisInv, RedisTyped
<1>5. /\ HashTyped'
      /\ \A t \in QTasks : t # r.id => redisProcessing'[t] = redisProcessing[t]
      /\ r.id \notin harmed' => ~Hashed(r.id)'
  BY <1>1, <1>2, <1>4 DEF HashTyped, Hashed
<1>6. "removed" \in RedisPcs \ {"idle"} /\ harmed \subseteq harmed'
  BY <1>1 DEF RedisPcs
<1> QED
  BY <1>1, <1>2, <1>3, <1>5, <1>6, RedisKeepsStep

\* A consumer is done with its task: Ack, the end of a Nack, or a crash.
\* Where the task is afterwards is for the caller to say.
LEMMA RedisLeavesStep ==
  ASSUME RedisInv, NEW c \in RedisConsumers, cons[c].pc # "idle", NEW u, u = cons[c].task.id,
         cons' = [cons EXCEPT ![c] = Redis!Idle], accepted' = accepted,
         ZsetTyped', HashTyped', deadLetters' \in Seq(RedisRecord), harmed \subseteq harmed',
         \A m : m.id # u => (m \in zset' <=> m \in zset),
         \A t : t # u => /\ HasId(deadLetters', t) <=> HasId(deadLetters, t)
                         /\ OnceId(deadLetters, t) => OnceId(deadLetters', t),
         \A t \in QTasks : t # u => redisProcessing'[t] = redisProcessing[t],
         acked' = acked \/ acked' = acked \cup {u},
         u \notin harmed' =>
           /\ Waits(u)' \/ HasId(deadLetters', u) \/ Hashed(u)' \/ u \in acked'
           /\ Waits(u)' => ~HasId(deadLetters', u) /\ ~Hashed(u)' /\ u \notin acked'
           /\ HasId(deadLetters', u) => ~Hashed(u)' /\ u \notin acked'
           /\ Hashed(u)' => u \notin acked'
           /\ \A m, n \in zset' : m.id = u /\ n.id = u => m = n
           /\ OnceId(deadLetters', u)
  PROVE  RedisInv'
<1>1. ConsTyped /\ accepted \subseteq QTasks
  BY DEF RedisInv, RedisTyped
<1>2. /\ u \in QTasks /\ u \in accepted
      /\ \A t : HandOf(c, t) <=> t = u
      /\ u \notin harmed => \A d \in RedisConsumers : HandOf(d, u) => d = c
  BY RedisHolder
<1>3. ConsTyped' /\ cons'[c].pc = "idle" /\ cons'[c].task = None /\ \A d \in RedisConsumers \ {c} : cons'[d] = cons[d]
  BY <1>1, RedisGoto DEF Redis!Goto, Redis!Idle, RedisPcs
<1>4. RedisTyped'
  BY <1>1, <1>3 DEF RedisTyped
<1>5. \A t : ~HandOf(c, t)'
  BY <1>3 DEF HandOf
<1>6. \A t \in QTasks : t # u => RedisTask(t)'
  BY <1>2, <1>3, <1>5, RedisOthers
<1>7. RedisTask(u)'
  <2>1. SUFFICES ASSUME u \notin harmed' PROVE RedisTask(u)'
    BY <1>2 DEF RedisTask
  <2>2. ~Held(u)' /\ \A d \in RedisConsumers : ~HandOf(d, u)'
    BY <1>2, <1>3, <1>5, <2>1 DEF HandOf, Held
  <2> QED
    BY <1>2, <2>1, <2>2 DEF RedisTask
<1> QED
  BY <1>4, <1>6, <1>7 DEF RedisInv

\* Ack ends the task.
LEMMA RedisAckStep ==
  ASSUME RedisInv, NEW c \in RedisConsumers, Redis!Ack(c)
  PROVE  RedisInv'
<1> PICK u : u = cons[c].task.id
  OBVIOUS
<1>1. /\ cons[c].pc = "held"
      /\ redisProcessing' = [redisProcessing EXCEPT ![u] = None]
      /\ acked' = acked \cup {u}
      /\ cons' = [cons EXCEPT ![c] = Redis!Idle]
      /\ UNCHANGED <<zset, deadLetters, accepted, added, harmed>>
  BY DEF Redis!Ack, Redis!At, Redis!NoStrike
<1>2. /\ u \in QTasks
      /\ u \notin harmed => ~Waits(u) /\ ~HasId(deadLetters, u) /\ OnceId(deadLetters, u)
  BY <1>1, RedisHolder
<1>3. ZsetTyped /\ HashTyped /\ deadLetters \in Seq(RedisRecord)
  BY DEF RedisInv, RedisTyped
<1>4. ZsetTyped' /\ HashTyped' /\ deadLetters' \in Seq(RedisRecord) /\ ~Hashed(u)'
      /\ \A t \in QTasks : t # u => redisProcessing'[t] = redisProcessing[t]
  BY <1>1, <1>2, <1>3 DEF ZsetTyped, HashTyped, Hashed
<1>5. /\ \A t : HasId(deadLetters', t) <=> HasId(deadLetters, t)
      /\ \A t : OnceId(deadLetters, t) => OnceId(deadLetters', t)
      /\ u \notin harmed => ~Waits(u)'
      /\ u \notin harmed => \A m, n \in zset' : m.id = u /\ n.id = u => m = n
  BY <1>1, <1>2 DEF HasId, OnceId, Waits
<1>6. \A m : m.id # u => (m \in zset' <=> m \in zset)
  BY <1>1
<1>7. (u \in acked' /\ ~HasId(deadLetters', u)) \/ u \in harmed
  BY <1>1, <1>2, <1>5
<1>8. ASSUME u \notin harmed'
      PROVE  /\ Waits(u)' \/ HasId(deadLetters', u) \/ Hashed(u)' \/ u \in acked'
             /\ Waits(u)' => ~HasId(deadLetters', u) /\ ~Hashed(u)' /\ u \notin acked'
             /\ HasId(deadLetters', u) => ~Hashed(u)' /\ u \notin acked'
             /\ Hashed(u)' => u \notin acked'
             /\ \A m, n \in zset' : m.id = u /\ n.id = u => m = n
             /\ OnceId(deadLetters', u)
  BY <1>1, <1>2, <1>4, <1>5, <1>7, <1>8
<1>9. cons[c].pc # "idle" /\ harmed \subseteq harmed'
  BY <1>1
<1>10. /\ cons' = [cons EXCEPT ![c] = Redis!Idle] /\ accepted' = accepted
       /\ acked' = acked \/ acked' = acked \cup {u}
  BY <1>1
<1> QED
  BY <1>4, <1>5, <1>6, <1>8, <1>9, <1>10, RedisLeavesStep

\* HGET of Nack finds the entry, unless a failed HSET left none.
LEMMA RedisNackStep ==
  ASSUME RedisInv, NEW c \in RedisConsumers, Redis!Nack(c)
  PROVE  RedisInv'
<1> PICK r, v : r = cons[c].task /\ v = redisProcessing[r.id]
  OBVIOUS
<1>1. /\ cons[c].pc = "held"
      /\ UNCHANGED <<zset, redisProcessing, deadLetters, accepted, acked, added, harmed>>
  BY DEF Redis!Nack, Redis!At, Redis!NoStrike
<1>2. /\ r \in RedisRecord /\ r # None /\ r.id \in QTasks
      /\ r.id \notin harmed => Hashed(r.id)
  BY <1>1, RedisHolder
<1>3. ZsetTyped /\ HashTyped /\ deadLetters \in Seq(RedisRecord)
  BY DEF RedisInv, RedisTyped
<1>4. ZsetTyped' /\ HashTyped' /\ deadLetters' \in Seq(RedisRecord)
  BY <1>1, <1>3 DEF ZsetTyped, HashTyped
<1>5. CASE v = None
  <2>1. cons' = [cons EXCEPT ![c] = Redis!Idle] /\ r.id \in harmed'
    BY <1>1, <1>2, <1>5 DEF Redis!Nack, Hashed
  <2>2. /\ \A t : HasId(deadLetters', t) <=> HasId(deadLetters, t)
        /\ \A t : OnceId(deadLetters, t) => OnceId(deadLetters', t)
    BY <1>1 DEF HasId, OnceId
  <2> QED
    BY <1>1, <1>4, <2>1, <2>2, RedisLeavesStep
<1>6. CASE v # None
  <2>1. Redis!Goto(c, "found", v)
    BY <1>6 DEF Redis!Nack
  <2>2. v \in RedisRecord /\ v.id = r.id /\ Hashed(r.id)'
    BY <1>1, <1>2, <1>3, <1>6 DEF HashTyped, Hashed
  <2>3. "found" \in RedisPcs \ {"idle"}
    BY DEF RedisPcs
  <2> QED
    BY <1>1, <1>4, <2>1, <2>2, <2>3, RedisKeepsStep
<1> QED
  BY <1>5, <1>6

\* A consumer dies: its task stays in the hash, or is struck.
LEMMA RedisCrashStep ==
  ASSUME RedisInv, NEW c \in RedisConsumers, Redis!Crash(c)
  PROVE  RedisInv'
<1> PICK u : u = cons[c].task.id
  OBVIOUS
<1>1. /\ cons[c].pc # "idle"
      /\ cons' = [cons EXCEPT ![c] = Redis!Idle]
      /\ IF cons[c].pc \in {"popped", "removed", "revived"} THEN harmed' = harmed \cup {u} ELSE harmed' = harmed
      /\ UNCHANGED <<zset, redisProcessing, deadLetters, accepted, acked, added>>
  BY DEF Redis!Crash, Redis!At, Redis!Strike
<1>2. /\ u \in QTasks
      /\ u \notin harmed => /\ ~Waits(u) /\ ~HasId(deadLetters, u) /\ u \notin acked /\ OnceId(deadLetters, u)
                            /\ Hashed(u) <=> cons[c].pc \in {"held", "found"}
  BY <1>1, RedisHolder
<1>3. ZsetTyped /\ HashTyped /\ ConsTyped /\ deadLetters \in Seq(RedisRecord)
  BY DEF RedisInv, RedisTyped
<1>4. cons[c].pc \in RedisPcs
  BY <1>3 DEF ConsTyped
<1>5. ZsetTyped' /\ HashTyped' /\ deadLetters' \in Seq(RedisRecord)
  BY <1>1, <1>3 DEF ZsetTyped, HashTyped
<1>6. /\ \A t : HasId(deadLetters', t) <=> HasId(deadLetters, t)
      /\ \A t : OnceId(deadLetters, t) => OnceId(deadLetters', t)
      /\ u \notin harmed' => /\ u \notin harmed /\ Hashed(u)' /\ ~Waits(u)'
                             /\ \A m, n \in zset' : m.id = u /\ n.id = u => m = n
  BY <1>1, <1>2, <1>4 DEF HasId, OnceId, Waits, Hashed, RedisPcs
<1> QED
  BY <1>1, <1>2, <1>5, <1>6, RedisLeavesStep

\* The task goes back to the sorted set or to the dead letters.
LEMMA RedisReturnsStep ==
  ASSUME RedisInv, NEW c \in RedisConsumers, cons[c].pc \in {"removed", "revived"},
         NEW r, r = cons[c].task,
         \/ deadLetters' = <<r>> \o deadLetters /\ UNCHANGED <<zset, added>>
         \/ deadLetters' = deadLetters /\ \E v \in RedisRecord : v.id = r.id /\ Redis!ZAdd(v),
         cons' = [cons EXCEPT ![c] = Redis!Idle],
         UNCHANGED <<redisProcessing, accepted, acked, harmed>>
  PROVE  RedisInv'
<1>1. /\ r \in RedisRecord /\ r.id \in QTasks
      /\ r.id \notin harmed => /\ ~Waits(r.id) /\ ~HasId(deadLetters, r.id) /\ r.id \notin acked
                               /\ ~Hashed(r.id) /\ OnceId(deadLetters, r.id)
  BY RedisHolder
<1>2. ZsetTyped /\ HashTyped /\ deadLetters \in Seq(RedisRecord)
  BY DEF RedisInv, RedisTyped
<1>3. HashTyped' /\ (Hashed(r.id)' <=> Hashed(r.id))
  BY <1>2 DEF HashTyped, Hashed
<1>4. CASE deadLetters' = <<r>> \o deadLetters /\ UNCHANGED <<zset, added>>
  <2>1. \A t : /\ deadLetters' \in Seq(RedisRecord)
               /\ HasId(deadLetters', t) <=> HasId(deadLetters, t) \/ r.id = t
               /\ OnceId(deadLetters, t) /\ ~(r.id = t /\ HasId(deadLetters, t)) => OnceId(deadLetters', t)
    <3>1. deadLetters' = Pushed(deadLetters, r)
      BY <1>4 DEF Pushed
    <3>2. deadLetters' \in Seq(RedisRecord)
      BY <1>1, <1>2, <3>1, PushId
    <3>3. ASSUME NEW t PROVE HasId(deadLetters', t) <=> HasId(deadLetters, t) \/ r.id = t
      <4>1. r \in RedisRecord /\ deadLetters \in Seq(RedisRecord)
        BY <1>1, <1>2
      <4> QED
        BY <3>1, <4>1, PushId
    <3>4. \A t : OnceId(deadLetters, t) /\ ~(r.id = t /\ HasId(deadLetters, t)) => OnceId(deadLetters', t)
      BY <1>1, <1>2, <3>1, PushId
    <3> QED
      BY <3>2, <3>3, <3>4
  <2>2. ZsetTyped' /\ (Waits(r.id)' <=> Waits(r.id))
    BY <1>2, <1>4 DEF ZsetTyped, Waits
  <2>3. r.id \notin harmed' => \A m, n \in zset' : m.id = r.id /\ n.id = r.id => m = n
    BY <1>1, <1>4 DEF Waits
  <2> QED
    BY <1>1, <1>3, <1>4, <2>1, <2>2, <2>3, RedisLeavesStep
<1>5. CASE deadLetters' = deadLetters /\ \E v \in RedisRecord : v.id = r.id /\ Redis!ZAdd(v)
  <2>1. PICK v \in RedisRecord : v.id = r.id /\ Redis!ZAdd(v)
    BY <1>5
  <2>2. v.id \in QTasks /\ v.prio \in Int /\ v.retry \in Int
    BY DEF RedisRecord
  <2>3. ZsetTyped' /\ \E m : zset' = zset \cup {m} /\ m.id = r.id
    BY <1>2, <2>1, <2>2, RedisZAdd
  <2>4. PICK m : zset' = zset \cup {m} /\ m.id = r.id
    BY <2>3
  <2>5. /\ \A n : n.id # r.id => (n \in zset' <=> n \in zset)
        /\ Waits(r.id)'
        /\ r.id \notin harmed' => \A n, o \in zset' : n.id = r.id /\ o.id = r.id => n = o
    BY <1>1, <2>4 DEF Waits
  <2>6. /\ deadLetters' \in Seq(RedisRecord)
        /\ \A t : HasId(deadLetters', t) <=> HasId(deadLetters, t)
        /\ \A t : OnceId(deadLetters, t) => OnceId(deadLetters', t)
    BY <1>2, <1>5 DEF HasId, OnceId
  <2> QED
    BY <1>1, <1>3, <2>3, <2>5, <2>6, RedisLeavesStep
<1> QED
  BY <1>4, <1>5

\* Nack's and the reprocessing's last command.
LEMMA RedisNackReturnsStep ==
  ASSUME RedisInv, NEW c \in RedisConsumers, Redis!NackReturns(c) \/ Redis!Reenqueue(c)
  PROVE  RedisInv'
<1> PICK r : r = cons[c].task
  OBVIOUS
<1> DEFINE v == [r EXCEPT !.prio = @ - 1]
<1>1. /\ cons[c].pc \in {"removed", "revived"}
      /\ cons' = [cons EXCEPT ![c] = Redis!Idle]
      /\ UNCHANGED <<redisProcessing, accepted, acked, harmed>>
      /\ \/ deadLetters' = <<r>> \o deadLetters /\ UNCHANGED <<zset, added>>
         \/ deadLetters' = deadLetters /\ (Redis!ZAdd(v) \/ Redis!ZAdd(r))
  BY DEF Redis!NackReturns, Redis!Reenqueue, Redis!Retries, Redis!At, Redis!NoStrike
<1>2. r \in RedisRecord
  BY <1>1, RedisHolder
<1>3. v \in RedisRecord /\ v.id = r.id
  BY <1>2 DEF RedisRecord
<1> HIDE DEF v
<1>4. \/ deadLetters' = <<r>> \o deadLetters /\ UNCHANGED <<zset, added>>
      \/ deadLetters' = deadLetters /\ \E w \in RedisRecord : w.id = r.id /\ Redis!ZAdd(w)
  BY <1>1, <1>2, <1>3
<1> QED
  BY <1>1, <1>4, RedisReturnsStep

\* RPOP moves the oldest dead letter into a consumer's hands.
LEMMA RedisReviveStep ==
  ASSUME RedisInv, NEW c \in RedisConsumers, Redis!ReprocessDeadLetter(c)
  PROVE  RedisInv'
<1> PICK l, u : l = deadLetters[Len(deadLetters)] /\ u = l.id
  OBVIOUS
<1> DEFINE v == [l EXCEPT !.retry = 0]
<1>1. /\ cons[c].pc = "idle" /\ deadLetters # << >>
      /\ Redis!Goto(c, "revived", v)
      /\ deadLetters' = SubSeq(deadLetters, 1, Len(deadLetters) - 1)
      /\ UNCHANGED <<zset, redisProcessing, accepted, acked, added, harmed>>
  BY DEF Redis!ReprocessDeadLetter, Redis!At, Redis!NoStrike
<1>2. RedisTyped /\ ZsetTyped /\ HashTyped /\ ConsTyped /\ deadLetters \in Seq(RedisRecord)
      /\ \A t \in QTasks : RedisTask(t)
  BY DEF RedisInv, RedisTyped
<1>b. deadLetters' = Popped(deadLetters)
  BY <1>1 DEF Popped
<1>3. l \in RedisRecord /\ deadLetters' \in Seq(RedisRecord)
  BY <1>1, <1>2, <1>b, PopId
<1>a. \A t : /\ HasId(deadLetters, t) <=> HasId(deadLetters', t) \/ u = t
             /\ OnceId(deadLetters, t) => OnceId(deadLetters', t) /\ ~(HasId(deadLetters', t) /\ u = t)
  BY <1>1, <1>2, <1>b, PopId
<1>4. v \in RedisRecord /\ v.id = u /\ u \in QTasks
  BY <1>3 DEF RedisRecord
<1> HIDE DEF v
<1>5. v # None
  BY <1>4, RedisAssumption DEF RedisRecord
<1>6. ConsTyped' /\ cons'[c].pc = "revived" /\ cons'[c].task = v /\ \A d \in RedisConsumers \ {c} : cons'[d] = cons[d]
  BY <1>1, <1>2, <1>4, <1>5, RedisGoto DEF RedisPcs
<1>7. RedisTyped'
  BY <1>1, <1>2, <1>3, <1>6 DEF RedisTyped, HashTyped, ZsetTyped
<1>8. cons[c].task = None
  BY <1>1, <1>2 DEF ConsTyped
<1>9. \A t : ~HandOf(c, t) /\ (HandOf(c, t)' <=> t = u)
  BY <1>4, <1>5, <1>6, <1>8 DEF HandOf
<1>10. \A t \in QTasks : t # u => RedisTask(t)'
  <2>1. /\ \A m : m.id # u => (m \in zset' <=> m \in zset)
        /\ \A t : t # u => /\ HasId(deadLetters', t) <=> HasId(deadLetters, t)
                           /\ OnceId(deadLetters, t) => OnceId(deadLetters', t)
        /\ \A t : t # u => ~HandOf(c, t) /\ ~HandOf(c, t)'
    BY <1>1, <1>a, <1>9
  <2> QED
    BY <1>1, <1>6, <2>1, RedisOthers
<1>11. RedisTask(u)'
  <2>1. RedisTask(u) /\ HasId(deadLetters, u) /\ u \in accepted
    BY <1>2, <1>a, <1>4 DEF RedisTask
  <2>2. SUFFICES ASSUME u \notin harmed PROVE RedisTask(u)'
    BY <1>1, <2>1 DEF RedisTask
  <2>3. ~Waits(u) /\ ~Held(u) /\ ~Hashed(u) /\ u \notin acked /\ OnceId(deadLetters, u)
    BY <2>1, <2>2 DEF RedisTask
  <2>4. \A d \in RedisConsumers : HandOf(d, u)' <=> d = c
    BY <1>6, <1>9, <2>3 DEF Held, HandOf
  <2>5. ~Waits(u)' /\ ~Hashed(u)' /\ u \notin acked' /\ ~HasId(deadLetters', u) /\ OnceId(deadLetters', u)
    BY <1>1, <1>a, <2>3 DEF Waits, Hashed
  <2> QED
    BY <1>1, <1>6, <2>1, <2>4, <2>5 DEF RedisTask, Held, Waits
<1> QED
  BY <1>7, <1>10, <1>11 DEF RedisInv

\* Every step of the Redis queue keeps its invariant.
LEMMA RedisStep ==
  ASSUME RedisInv, Redis!Next
  PROVE  RedisInv'
BY RedisEnqueueStep, RedisDequeueStep, RedisRecordsStep, RedisAckStep, RedisNackStep, RedisRemovesStep,
   RedisNackReturnsStep, RedisReviveStep, RedisCrashStep DEF Redis!Next

----------------------------------------------------------------------------
(* The composition *)

IInv == PoolInv /\ MemoryInv /\ LevelsInv /\ RedisInv

\* A component that does not run keeps its invariant.
LEMMA PoolStays == ASSUME PoolInv, UNCHANGED poolVars PROVE PoolInv'
  BY DEF poolVars, PoolInv, PoolTyped, PoolTask, PoolRunning, RunsOnce, In, Once,
         Pool!TypeOK, Pool!SendsAccounted, Pool!Taken, Pool!Unfinished, Pool!Workers

\* (the same for the in-memory queue,
LEMMA MemoryStays == ASSUME MemoryInv, UNCHANGED memoryVars PROVE MemoryInv'
  BY DEF memoryVars, MemoryInv, MemoryHolders, MemoryAccounted, MemoryOrdered, In, Once, Memory!TypeOK, Memory!WakesUntilNack

\* the levelled queue
LEMMA LevelsStays == ASSUME LevelsInv, UNCHANGED levelsVars PROVE LevelsInv'
<1>1. /\ UNCHANGED <<queue, levelProcessing, pc, level, levelHeld, closePc, levelSubmitted, nacked, levelDone>>
      /\ Levels!TypeOK
  BY DEF levelsVars, LevelsInv
<1>2. Levels!TypeOK'
  BY <1>1 DEF Levels!TypeOK
<1>3. LevelsHolders' /\ LevelsAccounted'
  BY <1>1, LevelsFrame
<1> QED
  BY <1>2, <1>3 DEF LevelsInv

\* and the Redis queue)
LEMMA RedisStays == ASSUME RedisInv, UNCHANGED redisVars PROVE RedisInv'
  BY DEF redisVars, RedisInv, RedisTyped, ZsetTyped, HashTyped, ConsTyped, RedisTask, Waits, Held, HandOf, Hashed,
         HasId, OnceId

\* Every step of the pool keeps its invariant.
LEMMA PoolStep == ASSUME PoolInv, Pool!Next PROVE PoolInv'
  BY PoolTypeStep, PoolTaskStep, PoolAccountsStep DEF PoolInv

\* Every step is a step of one component.
LEMMA Step == IInv /\ [Next]_vars => IInv'
<1> SUFFICES ASSUME IInv, [Next]_vars PROVE IInv'
  OBVIOUS
<1>1. PoolInv /\ MemoryInv /\ LevelsInv /\ RedisInv
  BY DEF IInv
<1>2. CASE PoolRuns(Pool!Next)
  <2>1. Pool!Next /\ UNCHANGED memoryVars /\ UNCHANGED levelsVars /\ UNCHANGED redisVars
    BY <1>2 DEF PoolRuns
  <2> QED
    BY <1>1, <2>1, PoolStep, MemoryStays, LevelsStays, RedisStays DEF IInv
<1>3. CASE MemoryRuns(Memory!Next)
  <2>1. Memory!Next /\ UNCHANGED poolVars /\ UNCHANGED levelsVars /\ UNCHANGED redisVars
    BY <1>3 DEF MemoryRuns
  <2> QED
    BY <1>1, <2>1, PoolStays, MemoryStep, LevelsStays, RedisStays DEF IInv
<1>4. CASE LevelsRuns(Levels!Next)
  <2>1. Levels!Next /\ UNCHANGED poolVars /\ UNCHANGED memoryVars /\ UNCHANGED redisVars
    BY <1>4 DEF LevelsRuns
  <2> QED
    BY <1>1, <2>1, PoolStays, MemoryStays, LevelsStep, RedisStays DEF IInv
<1>5. CASE RedisRuns(Redis!Next)
  <2>1. Redis!Next /\ UNCHANGED poolVars /\ UNCHANGED memoryVars /\ UNCHANGED levelsVars
    BY <1>5 DEF RedisRuns
  <2> QED
    BY <1>1, <2>1, PoolStays, MemoryStays, LevelsStays, RedisStep DEF IInv
<1>6. CASE UNCHANGED vars
  <2>1. UNCHANGED poolVars /\ UNCHANGED memoryVars /\ UNCHANGED levelsVars /\ UNCHANGED redisVars
    BY <1>6 DEF vars
  <2> QED
    BY <1>1, <2>1, PoolStays, MemoryStays, LevelsStays, RedisStays DEF IInv
<1> QED
  BY <1>2, <1>3, <1>4, <1>5, <1>6 DEF Next

\* In the pool and in each queue, tasks stay in one place, in order and
\* accounted for.
THEOREM Inductive == Spec => []IInv
<1>1. Init => IInv
  BY PoolInit, MemoryInit, LevelsInit, RedisInit DEF Init, IInv
<1> QED
  BY <1>1, Step, PTL DEF Spec

\* No queue loses a task or hands it out twice: an accepted task is in one
\* place until it is settled (worker.go:366, queue.go:148, 269, 434).
THEOREM TasksAreInOnePlace == Spec => []InOnePlace
<1>1. IInv => InOnePlace
  BY PoolPromise, MemoryPromise, LevelsPromise, RedisPromise DEF IInv, InOnePlace
<1> QED
  BY <1>1, Inductive, PTL

\* The pool keeps to its retry budget and its metrics to its queue
\* (worker.go:216, 366), and the in-memory queue to its order and, until a
\* Nack, to its wake-ups (queue.go:148).
THEOREM TasksAreServed == Spec => []ServedAsPromised
<1>1. IInv => ServedAsPromised
  BY PoolPromise, MemoryPromise DEF IInv, ServedAsPromised
<1> QED
  BY <1>1, Inductive, PTL
=============================================================================
