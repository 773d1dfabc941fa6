----------------------------- MODULE WorkerPool -----------------------------
(***************************************************************************)
(* The worker pool of internal/engine/worker.go: worker goroutines that    *)
(* take tasks from a buffered channel, run them on the engine, send the    *)
(* result to a second buffered channel, and hand a failed task to a        *)
(* goroutine that sleeps and submits it again; Stop, ScaleUp and ScaleDown *)
(* run next to them.                                                       *)
(*                                                                         *)
(* A worker goroutine is an index into p.workers, which only grows.  A     *)
(* send on a closed channel panics and ends the process.  Left out: log    *)
(* entries, task payloads, and the gauges TotalWorkers and IdleWorkers     *)
(* (collectMetrics), which no operation reads.                             *)
(***************************************************************************)
EXTENDS Integers, Sequences, FiniteSets

CONSTANTS
  Tasks,
  NodeTasks,       \* tasks of type node_execution, which always fail
  InitialWorkers,  \* argument of Start
  MaxWorkers,      \* config.MaxWorkers
  QueueSize,       \* config.QueueSize, the capacity of both channels
  MaxRetries,      \* task.MaxRetries
  Scalers,         \* goroutines that call ScaleUp
  WorkerCap,       \* bound: number of worker goroutines ever started
  CountLag,        \* bound: submits that have yet to be counted when a caller
                   \* hands in the next task
  None

VARIABLES
  nWorkers,    \* len(p.workers)
  wpc,         \* [worker -> where its goroutine is]
  wstatus,     \* [worker -> worker.Status]
  wtask,       \* [worker -> the task it received, then worker.CurrentTask]
  taskQueue,   \* p.taskQueue
  results,     \* len(p.resultQueue)
  consuming,   \* the processResults goroutine is alive
  stopPc,      \* where Stop is
  toAdd,       \* [Scalers -> workers a ScaleUp in progress has yet to add]
  sleeping,    \* tasks whose retry goroutine has not submitted them yet
  retryCount,  \* [Tasks -> task.RetryCount]
  untotalled,  \* submits that have sent and not yet updated TotalTasks
  unqueued,    \* submits that have sent and not yet updated QueuedTasks
  metrics,     \* TotalTasks, QueuedTasks, CompletedTasks, FailedTasks
  outcome,     \* history: what became of a task handed to Submit
  attempts,    \* history: how often a worker received the task
  panicked     \* who sent on a closed channel: "no" one, a "caller" of Submit,
               \* a "retry" goroutine or a "worker"

workerVars == <<nWorkers, wpc, wstatus, wtask>>
queueVars  == <<taskQueue, results, consuming, untotalled, unqueued>>
taskVars   == <<sleeping, retryCount, outcome, attempts>>
vars == <<workerVars, queueVars, taskVars, stopPc, toAdd, metrics, panicked>>

Workers   == 1..WorkerCap
Taken     == {w \in Workers : wpc[w] = "taken"}
Running   == {w \in Workers : wpc[w] \in {"taken", "run"}}
Unfinished == {w \in Workers : wpc[w] \in {"taken", "run", "failed"}}
Cancelled == stopPc # "no"
Settled   == {"completed", "failed", "dropped"}

TypeOK ==
  /\ nWorkers \in 0..WorkerCap
  /\ wpc \in [Workers -> {"none", "select", "taken", "run", "failed", "report", "exited"}]
  /\ wstatus \in [Workers -> {"none", "idle", "busy", "stopped"}]
  /\ wtask \in [Workers -> Tasks \cup {None}]
  /\ taskQueue \in Seq(Tasks) /\ Len(taskQueue) <= QueueSize
  /\ results \in 0..QueueSize /\ consuming \in BOOLEAN
  /\ stopPc \in {"no", "waiting", "closing", "closed"}
  /\ toAdd \in [Scalers -> 0..MaxWorkers]
  /\ sleeping \subseteq Tasks
  /\ retryCount \in [Tasks -> 0..MaxRetries]
  /\ untotalled \in Nat /\ unqueued \in Nat
  /\ metrics \in [{"total", "queued", "completed", "failed"} -> Int]
  /\ outcome \in [Tasks -> Settled \cup {"new", "refused", "accepted"}]
  /\ attempts \in [Tasks -> Nat]
  /\ panicked \in {"no", "caller", "retry", "worker"}

\* NewWorkerPool followed by Start(InitialWorkers).
Init ==
  /\ nWorkers = InitialWorkers
  /\ wpc = [w \in Workers |-> IF w <= InitialWorkers THEN "select" ELSE "none"]
  /\ wstatus = [w \in Workers |-> IF w <= InitialWorkers THEN "idle" ELSE "none"]
  /\ wtask = [w \in Workers |-> None]
  /\ taskQueue = << >> /\ results = 0 /\ consuming = TRUE
  /\ stopPc = "no"
  /\ toAdd = [s \in Scalers |-> 0]
  /\ sleeping = {} /\ retryCount = [t \in Tasks |-> 0]
  /\ untotalled = 0 /\ unqueued = 0
  /\ metrics = [m \in {"total", "queued", "completed", "failed"} |-> 0]
  /\ outcome = [t \in Tasks |-> "new"]
  /\ attempts = [t \in Tasks |-> 0]
  /\ panicked = "no"

----------------------------------------------------------------------------
(* Submit.  A suffixed name is a faulty variant.                           *)

Panic(who) ==
  /\ panicked' = who
  /\ UNCHANGED <<workerVars, queueVars, taskVars, stopPc, toAdd, metrics>>

TaskQueueClosed   == stopPc \in {"closing", "closed"}
ResultQueueClosed == stopPc = "closed"

\* The non-blocking send of a buffered channel.
RoomFor(len) == len < QueueSize

\* p.taskQueue <- task; the metrics follow in CountTotal and CountQueued.
Enqueue(t) ==
  /\ taskQueue' = Append(taskQueue, t)
  /\ untotalled' = untotalled + 1
  /\ unqueued' = unqueued + 1

\* Submit, SubmitWorkflow: a caller hands in a task.
Submit(t) ==
  /\ outcome[t] = "new" /\ unqueued < CountLag
  /\ IF TaskQueueClosed THEN Panic("caller")
     ELSE /\ IF RoomFor(Len(taskQueue))
               THEN /\ Enqueue(t)
                    /\ outcome' = [outcome EXCEPT ![t] = "accepted"]
               ELSE /\ outcome' = [outcome EXCEPT ![t] = "refused"]
                    /\ UNCHANGED <<taskQueue, untotalled, unqueued>>
          /\ UNCHANGED <<workerVars, results, consuming, sleeping, retryCount, attempts,
                         stopPc, toAdd, metrics, panicked>>

\* The two atomic increments after the send, one after the other.
CountTotal ==
  /\ untotalled > 0
  /\ untotalled' = untotalled - 1
  /\ metrics' = [metrics EXCEPT !["total"] = @ + 1]
  /\ UNCHANGED <<workerVars, taskQueue, results, consuming, unqueued, taskVars, stopPc, toAdd,
                 panicked>>

CountQueued ==
  /\ unqueued > untotalled
  /\ unqueued' = unqueued - 1
  /\ metrics' = [metrics EXCEPT !["queued"] = @ + 1]
  /\ UNCHANGED <<workerVars, taskQueue, results, consuming, untotalled, taskVars, stopPc, toAdd,
                 panicked>>

Woken_Loops(t) == sleeping

\* The retry goroutine ends with its one call of Submit.
Woken(t) == sleeping \ {t}

\* The retry goroutine wakes up and submits; the error of Submit is ignored,
\* so a full queue loses the task.
Resubmit(t) ==
  /\ t \in sleeping
  /\ IF TaskQueueClosed THEN Panic("retry")
     ELSE /\ sleeping' = Woken(t)
          /\ IF RoomFor(Len(taskQueue))
               THEN /\ Enqueue(t)
                    /\ UNCHANGED outcome
               ELSE /\ outcome' = [outcome EXCEPT ![t] = "dropped"]
                    /\ UNCHANGED <<taskQueue, untotalled, unqueued>>
          /\ UNCHANGED <<workerVars, results, consuming, retryCount, attempts,
                         stopPc, toAdd, metrics, panicked>>

----------------------------------------------------------------------------
(* runWorker, executeTask *)

\* The select of runWorker picks the queue, also when ctx.Done() is ready.
\* The worker's status is not looked at.
Receive(w) ==
  /\ wpc[w] = "select"
  /\ taskQueue # << >>
  /\ wpc' = [wpc EXCEPT ![w] = "taken"]
  /\ wtask' = [wtask EXCEPT ![w] = Head(taskQueue)]
  /\ attempts' = [attempts EXCEPT ![Head(taskQueue)] = @ + 1]
  /\ taskQueue' = Tail(taskQueue)
  /\ UNCHANGED <<nWorkers, wstatus, results, consuming, untotalled, unqueued, sleeping,
                 retryCount, outcome, stopPc, toAdd, metrics, panicked>>

\* The worker says it is busy and takes the task off QueuedTasks.
Begin(w) ==
  /\ wpc[w] = "taken"
  /\ wpc' = [wpc EXCEPT ![w] = "run"]
  /\ wstatus' = [wstatus EXCEPT ![w] = "busy"]
  /\ metrics' = [metrics EXCEPT !["queued"] = @ - 1]
  /\ UNCHANGED <<nWorkers, wtask, queueVars, taskVars, stopPc, toAdd, panicked>>

MayExit_ScaledDown(w) == Cancelled \/ wstatus[w] = "stopped"

\* ctx.Done(), or the queue is closed and empty; not what ScaleDown wrote.
MayExit(w) == Cancelled

\* The select of runWorker picks one of the two.
Exit(w) ==
  /\ wpc[w] = "select"
  /\ MayExit(w)
  /\ wpc' = [wpc EXCEPT ![w] = "exited"]
  /\ wstatus' = [wstatus EXCEPT ![w] = "stopped"]
  /\ UNCHANGED <<nWorkers, wtask, queueVars, taskVars, stopPc, toAdd, metrics, panicked>>

ExecuteOk(w) ==
  /\ wpc[w] = "run"
  /\ wtask[w] \notin NodeTasks
  /\ wpc' = [wpc EXCEPT ![w] = "report"]
  /\ outcome' = [outcome EXCEPT ![wtask[w]] = "completed"]
  /\ metrics' = [metrics EXCEPT !["completed"] = @ + 1]
  /\ UNCHANGED <<nWorkers, wstatus, wtask, queueVars, sleeping, retryCount, attempts,
                 stopPc, toAdd, panicked>>

MayRetry_Inclusive(t) == retryCount[t] <= MaxRetries

\* task.RetryCount < task.MaxRetries
MayRetry(t) == retryCount[t] < MaxRetries

\* An error, a timeout or the cancelled context: retry or give up.
ExecuteFails(w) ==
  LET t == wtask[w] IN
  /\ wpc[w] = "run"
  /\ wpc' = [wpc EXCEPT ![w] = "failed"]
  /\ IF MayRetry(t)
       THEN /\ retryCount' = [retryCount EXCEPT ![t] = @ + 1]
            /\ sleeping' = sleeping \cup {t}
            /\ UNCHANGED outcome
       ELSE /\ outcome' = [outcome EXCEPT ![t] = "failed"]
            /\ UNCHANGED <<retryCount, sleeping>>
  /\ UNCHANGED <<nWorkers, wstatus, wtask, queueVars, attempts, stopPc, toAdd, metrics, panicked>>

FailedMetrics_LastOnly(t) ==
  IF outcome[t] = "failed" THEN [metrics EXCEPT !["failed"] = @ + 1] ELSE metrics

\* FailedTasks counts attempts, also those that will be retried.
FailedMetrics(t) == [metrics EXCEPT !["failed"] = @ + 1]

\* The retry goroutine runs already: the task may be queued again.
CountFailed(w) ==
  /\ wpc[w] = "failed"
  /\ wpc' = [wpc EXCEPT ![w] = "report"]
  /\ metrics' = FailedMetrics(wtask[w])
  /\ UNCHANGED <<nWorkers, wstatus, wtask, queueVars, taskVars, stopPc, toAdd, panicked>>

CanSendResult_Blocking == RoomFor(results)

\* The select has a default branch: the worker is never held up.
CanSendResult == TRUE

\* The non-blocking send of the result, dropped when the channel is full,
\* and the worker back to idle.
Report(w) ==
  /\ wpc[w] = "report"
  /\ IF ResultQueueClosed THEN Panic("worker")
     ELSE /\ CanSendResult
          /\ results' = IF RoomFor(results) THEN results + 1 ELSE results
          /\ wpc' = [wpc EXCEPT ![w] = "select"]
          /\ wstatus' = [wstatus EXCEPT ![w] = "idle"]
          /\ wtask' = [wtask EXCEPT ![w] = None]
          /\ UNCHANGED <<nWorkers, taskQueue, consuming, untotalled, unqueued, taskVars, stopPc,
                         toAdd, metrics, panicked>>

\* processResults takes a result, or sees ctx.Done() and returns.
ProcessResult ==
  /\ consuming /\ results > 0
  /\ results' = results - 1
  /\ UNCHANGED <<workerVars, taskQueue, consuming, untotalled, unqueued, taskVars, stopPc, toAdd,
                 metrics, panicked>>

ProcessResultsExits ==
  /\ consuming /\ Cancelled
  /\ consuming' = FALSE
  /\ UNCHANGED <<workerVars, taskQueue, results, untotalled, unqueued, taskVars, stopPc, toAdd,
                 metrics, panicked>>

----------------------------------------------------------------------------
(* Stop, ScaleUp, ScaleDown *)

Stop ==
  /\ stopPc = "no"
  /\ stopPc' = "waiting"
  /\ UNCHANGED <<workerVars, queueVars, taskVars, toAdd, metrics, panicked>>

\* The select of Stop ends when the WaitGroup is down to zero, or after 30
\* seconds with workers still busy: it may end at any time.
CloseTaskQueue ==
  /\ stopPc = "waiting"
  /\ stopPc' = "closing"
  /\ UNCHANGED <<workerVars, queueVars, taskVars, toAdd, metrics, panicked>>

CloseResultQueue ==
  /\ stopPc = "closing"
  /\ stopPc' = "closed"
  /\ UNCHANGED <<workerVars, queueVars, taskVars, toAdd, metrics, panicked>>

\* ScaleUp clamps against the length it read; p.mu is released before the
\* workers are added.
Allowed(count) ==
  IF nWorkers + count > MaxWorkers THEN MaxWorkers - nWorkers ELSE count

ScaleUp(s, count) ==
  /\ toAdd[s] = 0
  /\ Allowed(count) > 0
  /\ toAdd' = [toAdd EXCEPT ![s] = Allowed(count)]
  /\ UNCHANGED <<workerVars, queueVars, taskVars, stopPc, metrics, panicked>>

AddWorker(s) ==
  LET w == nWorkers + 1 IN
  /\ toAdd[s] > 0
  /\ w \in Workers
  /\ toAdd' = [toAdd EXCEPT ![s] = @ - 1]
  /\ nWorkers' = w
  /\ wpc' = [wpc EXCEPT ![w] = "select"]
  /\ wstatus' = [wstatus EXCEPT ![w] = "idle"]
  /\ UNCHANGED <<wtask, queueVars, taskVars, stopPc, metrics, panicked>>

\* The last idle worker is marked stopped; its goroutine is not told.
ScaleDown ==
  LET idle == {w \in Workers : wstatus[w] = "idle"} IN
  /\ idle # {}
  /\ wstatus' = [wstatus EXCEPT ![CHOOSE w \in idle : \A v \in idle : v <= w] = "stopped"]
  /\ UNCHANGED <<nWorkers, wpc, wtask, queueVars, taskVars, stopPc, toAdd, metrics, panicked>>

----------------------------------------------------------------------------

WorkerStep(w) ==
  \/ Receive(w) \/ Begin(w) \/ Exit(w)
  \/ ExecuteOk(w) \/ ExecuteFails(w) \/ CountFailed(w) \/ Report(w)

PoolStep ==
  \/ \E t \in Tasks : Submit(t) \/ Resubmit(t)
  \/ \E w \in Workers : WorkerStep(w)
  \/ CountTotal \/ CountQueued \/ ProcessResult \/ ProcessResultsExits
  \/ Stop \/ CloseTaskQueue \/ CloseResultQueue
  \/ \E s \in Scalers : \/ \E count \in 1..MaxWorkers : ScaleUp(s, count)
                        \/ AddWorker(s)
  \/ ScaleDown

Alive == panicked = "no"

Next == Alive /\ PoolStep

Spec == Init /\ [][Next]_vars

\* Goroutines run, sleeps end, the engine returns (it runs under a timeout).
FairSpec ==
  /\ Spec
  /\ \A w \in Workers : WF_vars(Alive /\ WorkerStep(w))
  /\ \A t \in Tasks : WF_vars(Alive /\ Resubmit(t))
  /\ \A s \in Scalers : WF_vars(Alive /\ AddWorker(s))

----------------------------------------------------------------------------
(* Properties *)

\* Where a task is held: slots of the queue, workers that run it, its retry
\* goroutine.
Holders(t) ==
  Cardinality({i \in 1..Len(taskQueue) : taskQueue[i] = t})
    + Cardinality({w \in Running : wtask[w] = t})
    + (IF t \in sleeping THEN 1 ELSE 0)

\* A task that Submit accepted is in exactly one place until it is completed,
\* given up after its last retry, or dropped, and in none before or after: no
\* worker runs it twice at a time and no handover between worker, retry
\* goroutine and queue forgets it.
OneHolder ==
  \A t \in Tasks : Holders(t) = IF outcome[t] = "accepted" THEN 1 ELSE 0

\* The one way a task is lost: its retry woke up to a full queue, after as many
\* failed runs as retries were counted.  The task a caller handed in is not.
LostOnRetryOnly ==
  \A t \in Tasks :
    outcome[t] = "dropped" => retryCount[t] > 0 /\ attempts[t] = retryCount[t]

\* The metrics agree with the pool but for the goroutines between a channel
\* operation and its counter: QueuedTasks is the length of the queue, short of
\* the submits not counted and over by the tasks received and not yet taken off
\* (it may be negative); and every successful send is waiting, in a worker's
\* hands or counted as finished.
SendsAccounted ==
  /\ metrics["queued"] = Len(taskQueue) - unqueued + Cardinality(Taken)
  /\ metrics["total"] + untotalled =
       Len(taskQueue) + Cardinality(Unfinished) + metrics["completed"] + metrics["failed"]

\* A task is given up as failed only after all its retries, and never runs
\* more often than the retries allow.
RetryBudget ==
  \A t \in Tasks :
    /\ attempts[t] <= MaxRetries + 1
    /\ outcome[t] = "failed" => attempts[t] = MaxRetries + 1

\* An accepted task is settled, unless the pool is stopped.
AcceptedIsSettled ==
  \A t \in Tasks : (outcome[t] = "accepted") ~> (outcome[t] \in Settled \/ Cancelled)

\* After Stop every worker goroutine ends, although nobody reads the results
\* any more.
WorkersExit ==
  Cancelled ~> (~Alive \/ \A w \in Workers : wpc[w] \in {"none", "exited"})

\* "Stop stops the worker pool gracefully" (worker.go:185): none of the pool's
\* own goroutines is brought down by a send on a channel Stop closed (a caller
\* that submits after Stop has only itself to blame).
StopsGracefully == panicked \notin {"retry", "worker"}
=============================================================================
