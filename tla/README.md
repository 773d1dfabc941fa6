# TLA+ models of LinkFlow

LinkFlow is a workflow automation platform in Go: users draw a workflow (trigger and
action nodes joined by connections), store it, and executions of it are run by
an engine on request, on a schedule or on a webhook. The models in this
directory describe how work is started, ordered, retried, undone and stopped, and what
the services around it keep about users, workflows, executions and their
surroundings when requests overlap. TLC checks them on small instances; TLAPS
proves the central results for every instance.

Paths below are relative to `src/`. To check a run: `tlc -config X.cfg M`; to
check the proofs of a module: `tlapm M.tla`.

## 1. Inventory

| Part | State | Operations | Interacts with | What is hard |
|---|---|---|---|---|
| Saga (`internal/platform/saga`) | step statuses, saga status, error | `Execute`, `compensate`, `Orchestrator.Execute` | the step functions, the caller's context | failing compensations, cancellation between steps, a second `Execute` of the same object, before or after the first has ended |
| Circuit breaker (`internal/platform/resilience`) | state, failure and success counts, time of last failure | `Execute`, `ExecuteWithFallback`, `RetryWithCircuitBreaker`, `Reset` | the protected call, which runs outside the lock | results recorded in a state other than the one the call was admitted in |
| Worker pool (`internal/engine/worker.go`) | workers, two buffered channels, retry goroutines, metrics | `Submit`, `runWorker`, `executeTask`, `processResults`, `Stop`, `ScaleUp`, `ScaleDown` | the engine | full channels, late retries, shutdown |
| Task queues (`internal/engine/queue.go`) | task slices, processing maps, waiters | `Enqueue`, `Dequeue`, `Ack`, `Nack`, `Close` of three queues | producers and consumers | lost wake-ups, lock held while blocked, tasks lost between two Redis commands |
| Engine (`internal/engine/engine.go`) | one `ExecutionState` per execution | `Execute`, `executeFromNode`, `CancelExecution` | node executors, the caller's context | a recursion without visited marks, unlocked writes of the status |
| Plan executor (`internal/engine/executor.go`) | plan, stage, node goroutines, `nodeOutputs` | `ExecuteWorkflow`, `buildExecutionPlan`, `executePlan`, `executeNode` | node executors | goroutines of a stage read a map without a lock; cycles, doubled and dangling connections |
| Executor service (`internal/executor`) | task channel, task rows, worker rows, loads | `SubmitTask`, `dispatchTasks`, `CompleteTask`, `FailTask`, `Heartbeat`, health check, restart | remote workers, the repository | slot, row and channel change in different steps; repeated reports; restarts |
| Workflow service (`internal/workflow`) | the aggregate, its versioned row | create, update, activate, deactivate, delete | the repository | concurrent load-change-write, cycle detection, slice aliasing in a loop |
| Execution service (`internal/execution`) | the execution aggregate and its row, a cache | start, pause, resume, cancel, the asynchronous run | engine, repository, cache | the run races with the calls; the row's version |
| Schedulers (`internal/engine/scheduler.go`, `internal/schedule`) | cron entries, map of schedules, rows | create, update, enable, disable, cron callback, minute check | cron library, repository, execution service | a lock taken twice, two triggers of one run |
| Engine persistence and retry (`internal/engine/persistence.go`, `retry.go`) | execution records in memory and in a table; a second breaker | create, update, delete, statistics; `Retry`, `Handle` | workers of the engine | two stores meant to agree; a breaker without a lock |
| Gateway (`internal/gateway`) | websocket clients, subscribers, tracked executions, token buckets | register, broadcast, track, limit | clients | slow consumers, slices shared after an unlock, entries dropped while in use |
| Workflow features (`internal/workflow/features`) | shares, folders, debug sessions, recordings, templates in maps | share, use a link, move, debug, record, replay, nest | users of one workflow | test and update in different calls; objects used after they left the map |
| Node runtime, expressions (`internal/node/runtime`, `pkg/expression`) | none | conditions, merges, evaluation, functions | the engine | conversions between Go kinds, boundaries of indices, map order |
| Auth, user, workspace, node, billing, webhook, notification, credential, OAuth (`internal/*`) | rows of their tables, caches, tokens | one handler per request | the database, outside services | no transactions: a request is interrupted between any two statements, and writes back what it loaded |
| API server (`cmd/services/api`) | all tables in one process | one handler per request, a goroutine per execution | the database | the same, and a run that outlives its request |
| Migration (`internal/migration`) | schema and its history | up, down, reset, seed | the database | two statements per migration, no lock |
| Service processes (`cmd/services/*`, `*/server`) | database, cache, publisher, server, background tasks | start, stop | the operating system | order of opening and closing, tasks that outlive their request |
| Everything else | rows of one table each, or none | create, read, update, delete | the database, outside services | little of their own |

`PROJECT.json` lists every component with its status, and every hazard at the line
where it bites with the properties that would catch it.

What makes each part correct, in a sentence: a saga is all or nothing, undone
in reverse; a breaker's counters agree with its state and it recovers; a task
handed to the pool, a queue or the dispatcher is in one place until it is
settled; an execution starts exactly the nodes its outputs select and stops when
cancelled; a plan runs every node after all it depends on; a stored workflow is
well formed, and runnable when it is active; what a request was answered with is not
undone by a request that loaded its row earlier, and where the code lets that happen
the model says exactly when.

## 2. Modules

Each component is one module (or, where one Go package holds several small machines,
one module with a section and a specification for each: `NoteInit`, `NoteNext`, `NoteSpec` and `MailInit`, ...).
`MC*` modules hold the values of constants for TLC, and the four that put components side by
side: in `MCQueues`, `MCExecutions`, `MCServices` and `MCFeatures` each behaviour runs one component, named
by the variable `focus`. All but `MCFeatures` are parameterised like their components, so that they can be proved about;
in `MCServices` and `MCFeatures` the components' variables are instantiated by the slots `s1`, `s2`, .... The
components of one such module do not act on each other within a behaviour; what one of them needs of another
is an input of its module, named in the map as external or mapped to the code it stands for. `*Proofs`
modules hold only proofs; the invariant a proof is by induction on stands at the end of the component's module. A definition with a suffix after an underscore
(`MayRetry_Inclusive`) is a faulty variant of the definition after it: it
is what a plausible mistake in that code would make of it, and is kept to show
that a property notices the mistake. No specification uses it.

### The core

**Saga, SagaContract.** A call of `Execute` has a control point `pc[c]` (before a
step, in a step, before the compensation, in its loop, in a compensation, returned) and the loop
variables `idx` and `last`; `status`, `stepStatus`, `sagaError` and `result` are
the object's shared fields. `effects[i]` records whose execution of step i is in
force, the thing the fields try to describe. Calls may follow each other and overlap on one
object, as nothing in the code prevents it. `result` (`step.Result`) is one field for all of them: a compensation
is handed what the field holds when it is called, and takes back what the call that wrote it did. `SagaContract` is the
abstract specification: a call that overlaps no other commits with all steps or aborts with
only the residue of a prefix; calls that overlap may lose and leave compensable steps. `Saga!ImplementsContract` is the refinement.

**CircuitBreaker.** The three critical sections `Admit` (canExecute), `OnFailure`
and `OnSuccess` are helpers of the callers' actions; the protected function runs
between `Enter` and `FnSucceeds`/`FnFails`, so late results occur. Time is the bit
`elapsed`. `healthy` is the environment. `FailureCap` bounds the counter that
late failures raise in the open state.

**WorkerPool.** A worker goroutine is at the select, has received a task (`Receive`), runs it (`Begin`), or reports; a
task that failed is in `sleeping` until its retry goroutine submits it. A channel operation and the atomic
updates of the metrics after it are steps of their own: `untotalled` and `unqueued` count the submits
that have sent and not yet counted, at most `CountLag` of them when a caller submits again.
`Stop` cancels, waits or times out, and
closes the two channels one after the other; a send on a closed channel writes into
`panicked` whose it was, after which nothing runs.

**TaskQueue, PriorityQueue.** Methods of `InMemoryQueue` are single critical sections;
`Dequeue` splits into the test and the wait, with the condition variable as the sets
`waiting` and `awake`. `PriorityQueue` has the scan over the levels as `Peek` steps, the
blocking call on a level, and `sync.RWMutex` with its preference for waiting writers.

**RedisQueue.** Every Redis command is a step; between two of them a process may die or the command
fail, at most `FaultBound` times. `harmed` is not state of the code but the history of what that struck, so that
`ExactlyOnePlace` can say what holds of all other tasks.

**EngineRun.** The recursion of `executeFromNode` is an explicit stack of loops, each with the
connections it has left, followed from the first on. `runs`, `chosen`, `taken` and `late` are history.
`CancelExecution` cancels the context and writes the status in two steps.

**PlanExecutor.** Planning is one action per level of Kahn's algorithm; execution launches a stage,
lets its goroutines read `nodeOutputs` and end in any order, and collects the
stage after all have ended.

**TaskDispatcher.** The dispatcher goroutine receives, selects a worker, stores the row and counts the
load in separate steps; a report reads the row, releases the slot, stores the row
and, for a retry, requeues, also in separate steps. Heartbeats that correct a load, repeated
reports, failed writes and restarts are faults, at most `MaxFaults` of them;
`disturbed`, `duplicated` and `dropped` remember whom they touched, so that a property can say exactly
what holds of the rest.

**WorkflowService.** A call loads the row, changes the aggregate with the code's own helpers (`AddNode`, `RemoveNode`
with the slice it shifts under the caller's loop, `hasCycle` as the depth-first
search it is) and writes with the version test of the `UPDATE`. `MaxWrites` bounds the versions.

### Starting and running executions (`MCExecutions`)

**Executions.** The aggregate as functions `[ok, e]`; the service with its handlers, its rows compared by version,
the cache and the goroutine `executeAsync`, which works on its own object; and `WorkflowExecutor`,
whose recursion is an explicit stack of frames, each the set of nodes that a loop has yet to visit: the code's order is
that of the workflow's list of connections, which may be any.

**EngineScheduler, ScheduleService.** In the first `s.mu` is a lock its holder may ask for again, and then waits for ever; cron
entries, the map and the repository share the schedule objects. `addSchedule` takes three steps: the cron gives out an entry,
the object is made to name it, without the lock, and the map is written under the lock; the cron, the repository and the spec may refuse.
`overlapped` is history. In the second a restart may happen at any moment,
due schedules are found by the minute check, the row is what `toDomain` reads back, and the database may refuse any statement.

**EngineRetry.** `Retry` around a breaker without a lock: every read and every write of one of its fields is a step of its own,
so that increments get lost and writes of two callers mix. Time ticks up to `TimeBound`.

**WebSocketHub.** The goroutine `Run` and a reader and a writer per client, unbuffered channels between them.

### Services (`MCServices`)

A request is a sequence of statements; what it loaded it keeps in its record (`billingRequest[r].row`) until it
writes it back. **Api, Auth, Workspace, Users, Billing, NodeService** have this form, and where the code
drops the error of a statement the statement may fail unseen.
Billing has Stripe beside it, which changes on its own. Its events arrive late, again and in any order, and since
the handler does not verify who sends them, any event about any subscription may arrive; `claimed` remembers
the subscriptions that one called deleted while Stripe had them.
**Credentials** holds the service (maps behind one lock) and the encryption of fields, of which some hold no text,
**OAuth** the states and tokens of authorization flows in both kinds of store,
**Notifications** the sender with its retry goroutines, and the emails with batches of resending that may overlap;
writes fail and restarts lose what was in memory. **Migrations**
executes and records files in two statements. **ServiceLifecycle** describes each service by what its `main` opens and
closes in which order and runs these descriptions. **ExecutionStore** runs the in-memory and the table implementation of one interface on the same
calls, and compares the records; the statistics of the in-memory one are checked in `MCFeatures`.

### Features and nodes (`MCFeatures`)

**WorkflowLibrary** (folders, copies), **RunFeatures** (sub-workflows, debug sessions,
recordings), **Sharing** and **RealtimeEvents** (broadcaster, tracker) have a call in flight as a sequence
of repository calls or critical sections. The broadcaster keeps its Go slices as arrays with a length, because `Unsubscribe` moves
elements in the array that a broadcast is reading. The folders are objects (`folder`) and the map that names them (`filed`),
which holds the callers' own objects; a caller that writes a parent by `UpdateFolder`, or creates under an ID in use,
sets `unchecked`, and a behaviour is followed up to the first such write. **RuntimeNodes** and **Expressions** are operators, one
behaviour is one execution of a node, one evaluation or one call, and `Init` chooses
among all bounded inputs; 25 of the 48 built-in functions are modelled. **RateLimits** has the four limiters of the gateway and of `pkg/middleware`,
one of them chosen in `Init`. The properties compare the result with a definition that is independent of the
algorithm (each item kept, arguments cut at top-level commas, opposite conditions apart).

### Left out of the modelled parts

Payloads, node configurations, log entries, timestamps and
events are data no property distinguishes. Further: the registry and statistics of the
circuit breaker; `SortedExecution` and the event emitter of
the plan executor; the engine's table of past executions;
the sandboxes and `SandboxPool` of the executor service; the name test of the workflow service; `Stop` and `TriggerNow` of
the engine's scheduler; lists and single reads that answer a client and change nothing; two-factor codes and the
validation of tokens; usage metering and invoices; 23 built-in functions, mostly conversions of one value (letter case, rounding, JSON, dates, encodings). The rows of `Users` and `NodeService` have the columns
the repositories name, which the migrations name otherwise: the models assume a schema on which the
statements run. Billing's usage metering is left out for the same reason: its statements name
`billing_usage.last_updated`, the table has `updated_at`, so on the migrated schema every read of it fails and
`CheckLimit` lets everything pass.

## 3. Runs

| Run | Instance | Shows |
|---|---|---|
| `saga` | 2 calls, one after the other or overlapping, 4 steps of which 3 compensable | `AllOrNothing`, `UndoneInReverse`, `UndoesOnlyWhatWasDone`, refinement of `SagaContract` |
| `circuit_breaker` | 2 callers, thresholds 2 and 2, 1 retry | `CountersMatchState`, `LegalTransitions`, `Recovers` |
| `engine_run` | all 512 workflows of 7 possible connections | `TraversalExact`, `StopsAfterCancel`, `StatusTellsOutcome`, `ExecuteReturns` |
| `plan_executor` | all 1024 workflows of 9 possible connections | `PlanMatchesGraph`, `InputsComplete`, `ErrorsEndTheRun` |
| `task_dispatcher` | 2 tasks, 1 worker, channel of 1, 1 retry, 2 reports in progress, 1 fault | `LoadMatchesTasks`, `PendingIsCarried`, `OutcomeIsFinal`, `WaitingIsAssigned` |
| `queues` | pool: 2 tasks, one that always fails, queue of 1, up to 2 workers, 1 retry, 1 submit behind with its metrics; in-memory: 3 tasks of 2 priorities, 3 consumers of which 2 give back; levels: 3 tasks on 2 of 3 levels; Redis: 2 tasks, 2 consumers, 2 faults | `InOnePlace`, `ServedAsPromised`, `AcceptedIsSettled`, `WorkersExit` |
| `executions` | 2 executions; every workflow of 3 nodes up to their names, with cycles and a loop at one node; 2 goroutines and 2 schedules, 3 cron entries; 2 schedules of 2 owners; 2 callers of a breaker that opens at once; 2 clients with queues of 2 | `OneOutcome`, `StartsWhatItReaches`, `QuietWhenOff`, `TrialEnds`, `NoMessageToClosed`, `RefusalsLeaveNoTrace`, `RunsEnd`, `LeaversAreServed` |
| `services` | each service with 2 requests in flight over 1 or 2 rows of a kind | `LimitsHold`, `RightsSurvive`, `PartialWritesExplained`, `NamesStayUnique`, `StopsInOrder`, `KeptAsWritten` |
| `features` | 3 calls edit one workflow (9 commands over 4 nodes, 4 writes); 2 calls on each feature; 4 requests and 2 ticks for the limiters; the statistics of 2 executions; all bounded inputs of nodes, expressions and functions | `WorkflowsStayWhole`, `NodesRouteAndMerge`, `FunctionsAnswer`, `CountedOnce` |
| `worker_pool_stop` | the pool with a queue of 2 | `StopsGracefully` is violated: a retry goroutine wakes after the channel was closed |
| `priority_queue_deliver` | the levelled queue of `queues`, fair | `QueuedIsDelivered` is violated |
| `workflow_lock` | the workflow of `features` | `WritesWhatItLoaded` is violated |

The properties of the last four passing runs are conjunctions with one conjunct per component (`focus = "auth" => AuthService!LockIsEarned`); each
conjunct is stated, with the lines it is about, in its component's module, and nearly every one has
its own faulty variant in `PROJECT.json`. The type invariants `TypeOK` of `Saga`, `CircuitBreaker`,
`PlanExecutor` and `EngineRun` are proved (section 4), those of the three in-memory queues and of
the dispatcher are part of `InOnePlace` and `LoadMatchesTasks`, that of the workflow service of `WellFormed`.

What the grouped properties say, component by component:

- `InOnePlace`, `ServedAsPromised`: a task that was taken and is not settled is in exactly one place, and one that is settled or
  refused in none, so that none is lost or doubled, but for the two ways in which the code loses one (a retry that finds the
  queue of the pool full, a task of the levelled queue given back); it is retried as often as allowed, counted right up to the goroutines that
  are between a channel operation and its counter, and
  handed out by priority; no wake-up is lost before a task is given back.
- `LimitsHold`: lockouts are earned, an email goes out twice only if an outcome was lost or a batch listed it while it was being sent or another
  batch had it, and an authorization state serves twice only where two callbacks met it.
- `RightsSurvive`: the owner of a workspace, a new password, a paid subscription, a revocation, the members of an
  organization and a refreshed token outlive stale and half-done requests, or were crossed by one the
  model names; a subscription is shown as canceled only after Stripe ended it or an unverified event said so.
- `PartialWritesExplained`: nodes and connections of a workflow, the flag of an encrypted credential and its texts, schema and version, the status of a
  notification, and the records of the two stores agree again when the calls have ended, or one of the causes the property lists came between:
  a save of half a graph, a statement that failed unseen, an overlap, a field that is no text, an opening that stopped half-way, a restart.
- `NamesStayUnique`: two node definitions bear the name they were created with only if two creations of it overlapped, those of the start-up
  included, or a lookup of it failed.
- `KeptAsWritten`: an action property: a settled execution of the API server changes only by the report of its own run.
- `StopsInOrder`: no request meets a closed database before the server gave up waiting, and `main` closes what it opened.
- `OneOutcome`, `StartsWhatItReaches`, `QuietWhenOff`, `TrialEnds`, `NoMessageToClosed`: the events of an execution tell of one
  outcome, which has come; the executor starts what its triggers reach; a schedule that is off fires no more unless calls met on it;
  a half-open breaker lets somebody through again; nothing is sent to a closed queue.
- `RefusalsLeaveNoTrace`: an action property: a request answered with an error has changed nothing by that answer.
- `RunsEnd`, `LeaversAreServed`, `AcceptedIsSettled`, `WorkersExit`: liveness, below.
- `WorkflowsStayWhole`, `NodesRouteAndMerge`, `FunctionsAnswer`, `CountedOnce`: exactness of algorithms against independent
  definitions, and how far separate test and update calls can overshoot a budget. `WorkflowsStayWhole` also says what each way of copying a workflow keeps
  and that a circle of folders was written unchecked; `CountedOnce` also that the statistics of the in-memory store are exact
  in every order of the map, unless an execution took no time.

**Why the bounds suffice.** The interesting cases need two actors that meet at one object and
a resource at its limit, and every run has both: channels of one slot are full as soon as a
second task comes, thresholds of two separate the first failure from the tripping one, four
steps of which the third has no compensation give a failing compensation before,
between and after others. Three consumers are the least for which a signalled, a sleeping and a
returning one coexist. Two requests over one row
are enough for every lost update, stale write and double use, since each of these is a property of a pair
of requests; a second row or user is there wherever a request could strike the wrong one. The workflows contain a diamond, a
doubled connection, a node behind several paths and a connection to a missing
node; the planner also gets back edges, the engine does not, since its
recursion does not end on a cycle (nothing in `Execute` rejects one) and its run would
be infinite. `StopsAfterCancel` and `StatusTellsOutcome` are proved for cyclic workflows as well.
Two batches, and two sendings counted of one email, are the least that can send it twice; one name
of node definitions makes every two creations compete for it. Bounds on counters (`WriteBound`, `EntryBound`, `StackLimit`, `DeliveryBound`, ...) stop
only the action that would count further, and each lets the model go past the limit
of the code it is there to test.
What the proofs cover does not depend on the bounds at all.

**Deadlock** is checked for the circuit breaker, whose callers always may call
again. In the other runs the system comes to rest when the tasks, runs or writes of
the instance are used up, or has stopped.

**Fairness.** `CircuitBreaker!FairSpec`: time passes, callers keep calling and finish
their calls; strong fairness of `Enter` says that a caller that is let in again
and again by the breaker takes its turn although others open the breaker in
between, which the Go scheduler and mutex give a caller that keeps trying. It
is needed for `Recovers` only. `WorkerPool!FairSpec`: worker goroutines run, executions
return (they run under a timeout), sleeps end. Nothing is assumed of `Stop`,
callers, or `processResults`. `EngineRun!FairSpec`: the goroutine in `Execute`
runs and executors return; nothing of the canceller. `TaskDispatcher!FairSpec`: the dispatcher
goroutine and calls in progress run; workers need not report and
heartbeats need not arrive. `MCQueues!FairSpec` repeats that of the pool; `MCQueues!LevelsSpec`: consumers
run, keep asking, and acknowledge or give back what they hold, and a free lock is given to the waiting writer.
`MCExecutions!FairSpec`: the goroutine of an asynchronous execution, the loop of the workflow executor and
a caller inside `Retry` run, as any unblocked goroutine does; the hub's `select` does not pass a ready registration over
for ever, which Go's random choice among ready cases gives. Requests, clients and schedules owe nothing.
`MCServices` and `MCFeatures` are checked for safety only.

### Where code and comments disagree

- `worker_pool_stop`: "Stop stops the worker pool gracefully" (`internal/engine/worker.go:185`). Stop
  closes the task channel while retry goroutines may be asleep; the one that wakes calls
  `Submit`, and its send on the closed channel panics. In the trace a task fails and waits for its retry, `Stop` gives up waiting
  for the worker, and the retry goroutine wakes. (A caller that submits after `Stop` panics too, which the property leaves out.)
- `priority_queue_deliver`: "Dequeue gets the next task from highest priority queue"
  (`internal/engine/queue.go:421`). With all levels empty, `Dequeue` blocks on the lowest level;
  a task of a higher level does not wake it.
- `workflow_lock`: "Update with optimistic locking" (`workflow_repository.go:278`). The
  version compared is the one the aggregate's events have raised, not the one
  that was loaded: a lone change is refused, and a change of n events is accepted
  exactly after n other writes, which it overwrites.

Met while modelling and visible in the models, without a run of their own: overlapping calls of `Saga.Execute` compensate each
other's steps, since `step.Result` is one field (`AllOrNothing` says what is left); `InMemoryQueue.Nack`
signals no waiting consumer, so a returned task can wait beside a sleeping one (hence the premise of
`WakesUntilNack`); `CancelExecution` and the end of `Execute` overwrite each
other's status (`StatusTellsOutcome` allows both orders); two concurrent `ScaleUp`
calls can exceed `MaxWorkers` (with two `Scalers`), and `ScaleDown` marks a
worker stopped that keeps serving; `UpdateWorkflow`'s removal loop skips nodes, because
`RemoveNode` shifts the slice it ranges over; `PriorityQueue.Nack` does nothing, so a task given
back stays in the processing map (`ProcessingExplained` names it); a report that is repeated can
change a settled task (`OutcomeIsFinal` excepts it). Of the parts around the engine:

- "CancelExecution cancels a running execution" (`execution_service.go:210`; `docs/api/executions.md:200-217` describes cancel, pause and resume):
  every mutator of an execution raises the version before the `UPDATE` compares it, so the row takes none of them and
  the request is refused (`UpdateRefused` in `ExecutionsProofs`); no property asks for this, `OneOutcome` and
  `RefusalsLeaveNoTrace` say what a caller may rely on nevertheless;
- "UpdateSchedule updates an existing schedule" (`engine/scheduler.go:143`): of an enabled schedule it takes the scheduler's lock twice and
  never returns; two calls that meet on a schedule, and an enable of an enabled one, leave a cron entry that no call
  removes any more (`QuietWhenOff` excepts the schedules in `overlapped`);
- "UpdateSchedule updates an existing schedule", "PauseSchedule pauses a schedule" (`schedule_service.go:162, 314`): the object read
  from a row has another id and another `updated_at`, so the row takes no update and the request is refused;
- "due schedules" are to be run by the scheduler (`schedule/app/service/scheduler.go:230`, `docs/services.md:147-154`): its cron parser
  wants the seconds that the model's parser refuses, and a row is read back with a next run in the future, so that the minute check finds nothing due
  and only an execute request runs a schedule;
- a login that loaded the row before a password change writes the old hash back (`PasswordExplained` names the
  overlap); organizations and credentials are written back from a loaded copy as well;
- webhooks are to trigger workflow executions (`docs/api/webhooks.md:5, 185`): `FindByID` of their repository finds nothing
  (`webhook_repository.go:66-69`), so no request ever does, and they are not modelled;
- a notification is read back under a fresh id (`notification_repository.go:269-279`), so that marking it read reaches no row;
- "UpdateNode updates a node definition" (`node_service.go:180`, `node_repository.go:88`): a definition read from a row has a new id, so the
  update reaches no row; nor is it marked as a system node any more;
- the features' duplicate of a workflow loses its connections (`import_export.go:348`), and a template with connections is
  refused when it is instantiated; `CopiesKeepConnections` says what the other ways of copying keep;
- Stripe's events are taken without verification (`billing_handler.go:513-515`); `CutOffExplained` excepts the subscriptions in `claimed`;
- a sensitive field that is no text stays in the clear under the flag that says encrypted (`encryption.go:194`; `FlagIsTrue`);
- "GetStats returns execution statistics" (`persistence.go:466`): on Postgres the average is scanned into an integer, which
  fails once there is a row (`persistence.go:474-487`), so nothing is said of it;
- a setting with two expressions is evaluated as a single one from the first `{{` to the last `}}`, as a function call when
  both are calls (`Expressions!RunsOn`); `substring` panics when its end lies before its start, a negative end included
  (`SubstringNeedsOrder`); the order in which Go walks the
  map of date layouts decides what becomes of a four-digit year;
- an execution that was cancelled in the API server is settled again by its own run (`SettlesItself`);
- merging workflows that share node ids joins the wrong nodes (`CopiesKeepConnections` names the case), and two overlapping
  moves, an update of the parent and a creation under an ID in use can close a circle of folders (`CircleIsUnchecked`).

## 4. Proofs

TLAPS proves these for all values of the constants that satisfy the `ASSUME`s of the modules.

| Theorem | States |
|---|---|
| `SagaProofs!TypeCorrect`, `ExecuteAllOrNothing`, `CompensationInReverse`, `CompensatesOnlyCompleted` | `Spec => []TypeOK`, `[]AllOrNothing`, `[]UndoneInReverse`, and the action property `UndoesOnlyWhatWasDone` |
| `SagaProofs!SagaImplementsContract` | `Spec => Contract!Spec` |
| `CircuitBreaker!TypeCorrect`, `CountersAgree`, `TransitionsLegal` | `[]TypeOK`, `[]CountersMatchState`, the action property `LegalTransitions` |
| `PlanExecutorProofs!TypeCorrect`, `NodesGetTheirInputs`, `FailuresEndTheRun`, `PlanIsExact` | `[]TypeOK`, `[]InputsComplete`, `[]ErrorsEndTheRun`, `[]PlanMatchesGraph`, for every workflow |
| `EngineRun!TypeCorrect`, `AtMostOneLateNode`, `StatusIsOutcome` | `[]TypeOK`, `[]StopsAfterCancel`, `[]StatusTellsOutcome`, for every workflow |
| `TaskDispatcherProofs!LoadsAreRight`, `PendingTasksAreCarried`, `OutcomesAreFinal` | `[]LoadMatchesTasks`, `[]PendingIsCarried`, the action property `OutcomeIsFinal` |
| `QueuesProofs!TasksAreInOnePlace`, `TasksAreServed` | `[]InOnePlace`, `[]ServedAsPromised`, for the worker pool and the three queues |
| `ExecutionsProofs!OutcomesAreOne`, `ReachedIsStarted`, `OffIsQuiet`, `TrialsEnd`, `NoneToClosed`, `NoTraceOfRefusals` | `[]OneOutcome`, `[]StartsWhatItReaches`, `[]QuietWhenOff`, `[]TrialEnds`, `[]NoMessageToClosed`, the action property `RefusalsLeaveNoTrace` |
| `ServicesProofs!LimitsHoldHolds`, `RightsSurviveHolds`, `PartialWritesHold`, `NamesStayUniqueHolds`, `StopsInOrderHolds`, `KeptAsWrittenHolds` | `[]LimitsHold`, `[]RightsSurvive`, `[]PartialWritesExplained`, `[]NamesStayUnique`, `[]StopsInOrder`, the action property `KeptAsWritten`, for the fourteen services of `MCServices` |

**Saga** (any calls, steps and set of compensable steps). `AllOrNothing`
speaks of returned calls only, so the induction needs what holds inside one: `Progress(c)`
says at each control point which steps the call has completed and not compensated, in the compensation loop
for instance `1..idx` and of the later ones the residue. `ProgressFrame` disposes of the other calls.
`Own(c)` connects that with the shared `result` and `effects`: a call that finds a Result of another
overlapped it, so that a call beside which no other ran is handed its own and its effects are what `Progress` says. The refinement follows from the same
invariant: the abstract commit and abort happen when `Execute` returns, and a compensation with the Result of a call that has
returned is the abstract interference.

**CircuitBreaker** (any callers, thresholds, retries; `FailureCap` any bound not
below the failure threshold). `SectionsPreserve` treats the critical sections once;
the callers' actions cite it. The invariant adds only that a caller in its
back-off has a retry left.

**PlanExecutor** (any nodes; any workflow with finitely many connections,
whether cyclic, disconnected or dangling). `InputsComplete` needs four
strengthenings. `Kahn`: `remaining[n]` is the number of connections into `n` from
unprocessed nodes, hence a node whose counter is zero has all its dependencies in
stages. `Layered`: stages are disjoint and dependencies lie in earlier ones. `Phase`: what each
control point says of plan and error. `Staged`: stages before the current one have ended with their outputs
stored, and only the current one runs. `Kahn` is where cardinalities
are needed, one lemma on the difference of finite sets. `PlanMatchesGraph` takes a second invariant on top, `Traced`: every candidate
and every planned node but the trigger has a dependency in the stage just before it, and no node whose last input was counted is forgotten. The first
gives the stage of a node from below where `Layered` gives it from above; the second shows that what is left out when the candidates run
out contains a cycle or a second root (the set of nodes left out refutes `Acyclic`). That stages order the graph, the other
direction, is the least-number principle (`Least`), so no induction over the graph is needed.

**EngineRun** (any workflow). A node is late only if it was entered before the
cancellation, and `Follow` enters none after it: `LateNodes` says that the counter is zero while a node is being
entered. `StatusTellsOutcome` is inductive by itself. Type correctness needs that the node that runs is a known one and
that a loop holds connections of the workflow; that any set of connections has a first one, true of a slice, is assumed
with the shape of the workflows (`WorkflowsAssumption`), since its proof is an induction over data.

**TaskDispatcher** (any tasks, workers, capacities, channel size, retries and number of faults). The
load of a worker is a counter that four kinds of step change away from the rows it counts, so the invariant is a balance
sheet: `Holding` says who may hold a task at all and that each worker's tasks are told apart,
`Settling` what a report in progress has already done to row and slot, and `Balanced` that
the load is the number of rows assigned plus the slots taken but not yet stored, less those released
and not yet stored. As sets of tasks these are finite and change by one element a step, which is where the lemmas on cardinality come in.

**The queues** (`QueuesProofs`, about `MCQueues`; any tasks, workers, consumers, levels and priorities, any order of
priorities, any bounds). One invariant per component, and a lemma that a step of one leaves
the others' invariants alone.
*Worker pool:* `OneHolder`, `LostOnRetryOnly` and `RetryBudget` need a task's attempts tied to
its retries by the place it is in: a task in the queue, at a worker or asleep has been attempted once for each
retry already counted, and an accepted one that is not settled is in one of these places. `SendsAccounted` counts the workers between `Receive` and `Begin`
and the submits that have yet to be counted.
*In-memory queue:* the holders of a task exclude each other, and a queued task that was never given back has no
task of lower priority before it (`MemoryOrdered`, stronger than the property, which speaks of pairs that were both never given back).
`Enqueue` preserves it because it inserts before the first task of lower priority; that there is
a first one is the least-number principle (`Least`), taken from the well-foundedness of `<`, which replaces the
induction over the slice. `WakesUntilNack` is inductive beside the holders, by counting the signalled consumers.
*Levelled queue:* a task is on its level, in the processing map or with the
consumer that took it, once. *Redis:* for each task that no fault has struck (`RedisTask(u)`), where its entry lies and which
process carries it, at every command of every process.

**Executions, schedules, retries, hub** (`ExecutionsProofs`, about `MCExecutions`; any executions, workflows, schedules,
owners, callers, thresholds, clients, channels and queue sizes). One invariant per component again, void while another one runs.
*Execution service:* the object of a run that waits for its answer has a version above 0, the version of every row; what a
mutator returns has one too (`Moved`), so `Update` finds no row (`UpdateRefused`): what a request would have told after it is never told, and
`Told` connects the events with the object of the run.
*Workflow executor:* no induction over paths of the graph is needed: a node is due when it is a trigger or follows a completed node, and
`LoopsHold` says that whatever is due has been started, has no executor or waits in a loop of the call stack, and
that only due nodes wait there. The stack is empty at the end. `PathTells` ties the path to the nodes that ran, each with its reason.
*Engine's scheduler:* `Accounted(id)` says where the one entry of a schedule is named while no two calls have met on it: by the caller
that got it from the cron, then by the object, then by object and map (`CronSteps`). Entry ids are given out once
(`EntriesInv`), so that removing the entry of one schedule leaves those of the others (`RemovedIsItsOwn`). *Schedule service:* each handler grants its request or has changed nothing.
*Retries:* `TrialEnds` is inductive by itself if a breaker asks for at least one success to close (`BreakerAssumption`): whoever fills the counter or makes
the breaker half-open is `Deciding`.
*Hub:* a client on a channel has noted it, and one whose queue is closed has left and will not register again.

**Services** (`ServicesProofs`, about `MCServices`; any users, rows, requests in flight, providers, channels, files, and any
bounds). `Inv` gives the service that runs its own invariant, and `Inductive` is `Spec => []Inv`; each of the six theorems follows from `Inv` and one
lemma per service. The form is nearly always the same: what a request holds between two statements is tied to the row it was
loaded from, or to the history variable that a crossing request has set. No induction over data is needed.
*API server* (`ApiInv`): the connections still to be written belong to the nodes just written, unless the workflow is torn, and a
save that has sent or written only one of the two has torn it.
*Auth* (`AuthInv`): every password in a row or in a request's copy is explained, a failure that is about to be written was counted as a try, and
an account that exists never goes.
*Workspace* (`WorkInv`): while a workspace stands its owner's seat is taken by the owner, and a role request is aimed at another one.
*Billing* (`BillInv`): a row, or a copy of it in a request, that says canceled was written after Stripe ended the subscription,
which it never undoes, or after an event claimed so. *User* (`UserInv`): a request that has deleted the members of an organization holds them in `rest`, and no other request works on it.
*OAuth* (`OAuthInv`): a state exchanged twice was held by two callbacks at once; a refresh that began before a revocation is marked late.
*Credentials* (`VaultInv`, `CryptInv`): data that no crossing request has touched opens to the token of its credential; a field is as given or
sealed if it is a text, and an opening leaves none sealed behind. *Notifications* (`NoteInv`, `MailInv`): who may still write a row, with which outcome;
an email whose outcomes were all recorded is in one pair of hands, the first sending's or one batch's, and once it has gone out those hands or the row know.
*Migrations* (`SchemaInv`): without overlap the applied versions have no gap, a plan continues them (upwards) or cuts off their end (downwards),
and the schema differs from the history by the one file whose record is being written; a least and a greatest version are taken
from finite sets by the least-number principle. *Service processes* (`LifeInv`): what is left to close covers what is open, and the database comes after
the server. *Node definitions* (`NodeInv`): while no two creations of a name have met, one row or one creation has it (`OneHas`), and a row keeps its name.
*Execution stores* (`StoreInv`): an execution keeps its one record in memory, whoever holds it; a worker whose copy is as new as the row
holds what the table has or what it has changed itself; and with nobody else's unsaved change the memory holds that too.

The assumptions of `MCServices` (`NoteAssumption`, `NodeAssumption`, `AccountAssumption`, `KeyAssumption`, `UserAssumption`, `EmailAssumption`,
`StoreAssumption`) say that the value for "no record" is no record and the one for a fresh id no row's id, that the built-in definitions and the
bounds have their kind, and that sensitive fields are fields. `MigrationAssumption` is about the code: a version is a
positive number and there are finitely many files.

**Model-checked only.** All liveness properties (`Recovers`, `AcceptedIsSettled`, `WorkersExit`,
`ExecuteReturns`, `WaitingIsAssigned`, `RunsEnd`, `LeaversAreServed`), which need fairness and `ENABLED`;
`TraversalExact`, a sum over the connections of a workflow, whose proof is an induction over data;
and what `MCFeatures` runs. `WorkflowService`, whose depth-first search is a recursive operator, and `Expressions`, which has some too, keep
that module out of the prover's reach, and so do `WorkflowsStayWhole`, `NodesRouteAndMerge`, `FunctionsAnswer` and `CountedOnce`; the
budgets of the limiters and the statistics, which are sums and folds over sets and sequences, are there for the same reason.

## 5. Plan

1. Proofs of the features without recursion (`Sharing`, `RealtimeEvents`, `RunFeatures`, the folders), once
   they are put side by side in a module of their own.
2. An abstract queue (each task in one place, settled once) that `WorkerPool`, `TaskQueue` and `RedisQueue` implement until a fault.
3. Worker pool composed with the engine: a cancelled execution seen by `executeTask`; the schedulers
   composed with the execution service that they call.
4. The sandbox pool, `TriggerNow` and `Stop` of the engine's scheduler, two-factor login.

## 6. Not modelled, and why

Tenants are a domain model that nothing calls. Connectors, monitoring, analytics, search and storage make calls to an outside
system or keep one row per request, with no protocol of their own; their start and stop are part of
`ServiceLifecycle`. The webhook service works on a repository of stubs (`webhook_repository.go:58-83`), which finds nothing.
Configuration, backup and administration answer fixed data or keep a map of values.
GraphQL resolvers translate queries into calls or answer fixed data. The node implementations of
`internal/node/runtime/nodes` other than the IF and the merge node call outside systems or map payloads. `internal/platform`
beyond saga and resilience wraps libraries; what the services need of its cache, database and publisher is in
their modules. The client packages and validators (`pkg`) have no state. API descriptions,
deployment files and SQL migrations hold no behaviour to check.
