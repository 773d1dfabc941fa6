---------------------------- MODULE MCExecutions ----------------------------
(***************************************************************************)
(* What starts and runs executions outside the engine, side by side: the   *)
(* execution service, its workflow executor, the two schedulers, the       *)
(* engine's retries and the gateway's hub. Each behaviour runs one of them *)
(* (focus) and leaves the variables of the others alone.                   *)
(***************************************************************************)
EXTENDS Naturals, Sequences, FiniteSets

CONSTANTS
  \* of the execution service and its executor
  ExecutionIds, WorkflowNodes, NodeTypes, Workflows,
  \* of the two schedulers
  CronCallers, EngineSchedules, EntryBound,
  ScheduleIds, Owners, TriggerBound,
  \* of the engine's retries
  Callers, Errors, Retryable, MaxAttempts, MaxFailures, HalfOpenMax, Policies,
  MaxErrors, ErrorWindow, TimeBound, OpenError,
  \* of the hub
  Clients, HubChannels, SendCap,
  None

VARIABLES
  focus,
  executionRows, executionCache, running, executionEvents, executionReply,
  workflow, executors, execution, frames, executorPc,
  mu, pc, toLoad, stored, schedules, entryOf, entries, lastEntry, overlapped,
  scheduleRows, dueRows, scheduleCache, scheduler, jobs, triggered, scheduleReply,
  state, failCount, successCount, rested, resets, call, cancelled, policy, errors, now,
  hub, registered, members, joined, queue, closed, broken, serve, reader, writer

serviceVars   == <<executionRows, executionCache, running, executionEvents, executionReply>>
executorVars  == <<workflow, executors, execution, frames, executorPc>>
cronVars      == <<mu, pc, toLoad, stored, schedules, entryOf, entries, lastEntry, overlapped>>
schedulesVars == <<scheduleRows, dueRows, scheduleCache, scheduler, jobs, triggered, scheduleReply>>
retryVars     == <<state, failCount, successCount, rested, resets, call, cancelled, policy, errors, now>>
hubVars       == <<hub, registered, members, joined, queue, closed, broken, serve, reader, writer>>
vars == <<focus, serviceVars, executorVars, cronVars, schedulesVars, retryVars, hubVars>>

Runs == INSTANCE Executions WITH NoRow <- None

Cron == INSTANCE EngineScheduler WITH Callers <- CronCallers, Nobody <- None

Schedules == INSTANCE ScheduleService WITH NoSchedule <- None, RunBound <- TriggerBound

Retries == INSTANCE EngineRetry

Hub == INSTANCE WebSocketHub

ASSUME WorkflowsAssumption ==
  Workflows \subseteq [type : [WorkflowNodes -> NodeTypes],
                      connections : SUBSET (WorkflowNodes \X WorkflowNodes)]

(* None stands for no row and for nobody.  A breaker that asks for no      *)
(* success would close again without a trial.                              *)
ASSUME RowAssumption == None # Runs!NewExecution
ASSUME SchedulesAssumption == None \notin ScheduleIds
ASSUME BreakerAssumption == HalfOpenMax \in Nat \ {0}

-----------------------------------------------------------------------------
(* The variables of a component that does not run hold nothing.            *)
ServiceRests ==
  /\ executionRows = None /\ executionCache = None /\ running = None
  /\ executionEvents = None /\ executionReply = None

ExecutorRests ==
  /\ workflow = None /\ executors = None /\ execution = None
  /\ frames = None /\ executorPc = None

CronRests ==
  /\ mu = None /\ pc = None /\ toLoad = None /\ stored = None
  /\ schedules = None /\ entryOf = None /\ entries = None /\ lastEntry = None
  /\ overlapped = None

SchedulesRest ==
  /\ scheduleRows = None /\ dueRows = None /\ scheduleCache = None
  /\ scheduler = None /\ jobs = None /\ triggered = None /\ scheduleReply = None

RetriesRest ==
  /\ state = None /\ failCount = None /\ successCount = None /\ rested = None
  /\ resets = None /\ call = None /\ cancelled = None /\ policy = None /\ errors = None /\ now = None

HubRests ==
  /\ hub = None /\ registered = None /\ members = None /\ joined = None /\ queue = None
  /\ closed = None /\ broken = None /\ serve = None /\ reader = None /\ writer = None

Init ==
  /\ focus \in {"service", "executor", "cron", "schedules", "retry", "hub"}
  /\ IF focus = "service"   THEN Runs!ServiceInit  ELSE ServiceRests
  /\ IF focus = "executor"  THEN Runs!ExecutorInit ELSE ExecutorRests
  /\ IF focus = "cron"      THEN Cron!Init         ELSE CronRests
  /\ IF focus = "schedules" THEN Schedules!Init    ELSE SchedulesRest
  /\ IF focus = "retry"     THEN Retries!Init      ELSE RetriesRest
  /\ IF focus = "hub"       THEN Hub!Init          ELSE HubRests

ServiceRuns(step) ==
  /\ focus = "service" /\ step
  /\ UNCHANGED <<focus, executorVars, cronVars, schedulesVars, retryVars, hubVars>>
ExecutorRuns(step) ==
  /\ focus = "executor" /\ step
  /\ UNCHANGED <<focus, serviceVars, cronVars, schedulesVars, retryVars, hubVars>>
CronRuns(step) ==
  /\ focus = "cron" /\ step
  /\ UNCHANGED <<focus, serviceVars, executorVars, schedulesVars, retryVars, hubVars>>
SchedulesRun(step) ==
  /\ focus = "schedules" /\ step
  /\ UNCHANGED <<focus, serviceVars, executorVars, cronVars, retryVars, hubVars>>
RetriesRun(step) ==
  /\ focus = "retry" /\ step
  /\ UNCHANGED <<focus, serviceVars, executorVars, cronVars, schedulesVars, hubVars>>
HubRuns(step) ==
  /\ focus = "hub" /\ step
  /\ UNCHANGED <<focus, serviceVars, executorVars, cronVars, schedulesVars, retryVars>>

Next ==
  \/ ServiceRuns(Runs!ServiceNext)
  \/ ExecutorRuns(Runs!ExecutorNext)
  \/ CronRuns(Cron!Next)
  \/ SchedulesRun(Schedules!Next)
  \/ RetriesRun(Retries!Next)
  \/ HubRuns(Hub!Next)

Spec == Init /\ [][Next]_vars

(* Goroutines that can run do, and Go's select passes no ready case over for *)
(* ever; requests come as they like.  The schedulers are checked for safety. *)
FairSpec ==
  /\ Spec
  /\ \A x \in ExecutionIds : WF_serviceVars(ServiceRuns(Runs!AsyncStep(x)))
  /\ WF_executorVars(ExecutorRuns(Runs!ExecutorNext))
  /\ \A c \in Callers : WF_retryVars(RetriesRun(Retries!CallerStep(c)))
  /\ \A c \in Clients : WF_hubVars(HubRuns(Hub!Register(c))) /\ WF_hubVars(HubRuns(Hub!Unregister(c)))

-----------------------------------------------------------------------------
(* Whoever follows the events of the execution service learns one outcome  *)
(* of an execution at most, and of a completion only when its run has      *)
(* ended so, whatever requests come while executeAsync works on an object  *)
(* of its own (execution_service.go:204-240, 309-358).                     *)
OneOutcome == focus = "service" => Runs!OneOutcome

(* The workflow executor starts exactly what is reached from its triggers  *)
(* through completed nodes, each node once, on cycles and diamonds too     *)
(* (executor.go:88-137).                                                   *)
StartsWhatItReaches == focus = "executor" => Runs!StartsWhatItReaches

(* A schedule of the engine on which calls never overlapped and which      *)
(* nobody enabled twice is run by the one entry that its object names      *)
(* while the map has it, and by none otherwise, whatever errors came in    *)
(* between (engine/scheduler.go:110-238, 282-310).                         *)
QuietWhenOff == focus = "cron" => Cron!QuietWhenOff

(* A half-open breaker that would refuse every call has a caller that is   *)
(* about to reset the count or to close it, although every field is read   *)
(* and written without a lock and raises get lost (retry.go:337-376).      *)
TrialEnds == focus = "retry" => Retries!TrialEnds

(* No channel keeps a client whose queue is closed, so a broadcast never   *)
(* sends on a closed channel (websocket.go:92-108, 143-153).               *)
NoMessageToClosed == focus = "hub" => Hub!NoMessageToClosed

(* A request that the execution service or the schedule service answers    *)
(* with an error has changed nothing by that answer: rows, cache entries,  *)
(* jobs, events and runs are as they were (execution_service.go:204-307,   *)
(* schedule_service.go:78-445).                                            *)
RefusalsLeaveNoTrace ==
    [][/\ focus = "service" => Runs!RefusalLeavesNoTrace
       /\ focus = "schedules" => Schedules!RefusalLeavesNoTrace]_vars

(* Runs end: an execution that was accepted is completed by its goroutine  *)
(* whatever requests come in between (execution_service.go:309-358), the   *)
(* workflow executor ends on cyclic workflows too (executor.go:43-79), and *)
(* every Retry returns whatever the breaker and the context do             *)
(* (retry.go:38-75). Executions and callers are interchangeable, so one of *)
(* each is followed.                                                       *)
RunsEnd ==
    /\ (focus = "service" /\ running["x1"].pc = "start")
          ~> (focus # "service" \/ (running["x1"].pc = "idle" /\ running["x1"].e.status = "completed"))
    /\ (focus = "executor")
          ~> (focus # "executor" \/ execution.status \in {"completed", "failed"})
    /\ (focus = "retry")
          ~> (focus # "retry" \/ call["c1"].pc \in {"returned", "handled"})

(* A client that leaves is unregistered, unless the hub waits for itself   *)
(* because a broadcast met a full queue (websocket.go:149); one of two     *)
(* clients alike is followed.                                              *)
LeaversAreServed ==
    (focus = "hub" /\ Hub!Leaving("c1")) ~> (focus # "hub" \/ Hub!Served("c1"))

-----------------------------------------------------------------------------
(* The instance: every workflow of three nodes, up to their names, with    *)
(* cycles, and a loop at the last of them.                                 *)
MCWorkflows ==
  [type : {[n \in 1..3 |-> IF n <= k THEN "trigger" ELSE "action"] : k \in 0..3},
   connections : SUBSET {c \in (1..3) \X (1..3) : c[1] # c[2] \/ c[1] = 3}]
=============================================================================
