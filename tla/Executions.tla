----------------------------- MODULE Executions -----------------------------
(***************************************************************************)
(* The execution package: the Execution aggregate, the service that        *)
(* starts, cancels and stores executions, and the workflow executor that   *)
(* runs one node by node. Service and executor use the aggregate and share *)
(* no state; each has a specification of its own.                          *)
(***************************************************************************)
EXTENDS Naturals, Sequences, FiniteSets

(***************************************************************************)
(* The Execution aggregate (internal/execution/domain/model/execution.go). *)
(* An execution is its status, its version, which every mutator raises,    *)
(* the status of each node execution and the order in which nodes were     *)
(* started. A mutator answers [ok, e]: whether it was allowed, and the     *)
(* aggregate afterwards, the same one when it was not.                     *)
(***************************************************************************)

ExecutionStatuses ==
    {"pending", "running", "completed", "failed", "cancelled", "paused"}

NewExecution ==
    [status |-> "pending", version |-> 0, nodes |-> <<>>, path |-> <<>>]

Move(e, from, to) ==
    IF e.status \in from
    THEN [ok |-> TRUE, e |-> [e EXCEPT !.status = to, !.version = @ + 1]]
    ELSE [ok |-> FALSE, e |-> e]

Start(e) == Move(e, {"pending"}, "running")

Complete(e) == Move(e, {"running"}, "completed")

Fail(e) == Move(e, {"running", "pending"}, "failed")

Cancel(e) == Move(e, {"running", "paused"}, "cancelled")

Pause(e) == Move(e, {"running"}, "paused")

Resume(e) == Move(e, {"paused"}, "running")

\* nodes maps the node executions that exist to their status.
SetNode(e, n, s) ==
    [e EXCEPT !.nodes = [m \in DOMAIN e.nodes \union {n} |->
                            IF m = n THEN s ELSE e.nodes[m]],
              !.version = @ + 1]

StartNodeExecution(e, n) ==
    IF e.status = "running"
    THEN [ok |-> TRUE,
          e |-> [SetNode(e, n, "running") EXCEPT !.path = Append(@, n)]]
    ELSE [ok |-> FALSE, e |-> e]

CompleteNodeExecution(e, n) ==
    IF n \in DOMAIN e.nodes /\ e.nodes[n] = "running"
    THEN [ok |-> TRUE, e |-> SetNode(e, n, "completed")]
    ELSE [ok |-> FALSE, e |-> e]

FailNodeExecution(e, n) ==
    IF n \in DOMAIN e.nodes
    THEN [ok |-> TRUE, e |-> SetNode(e, n, "failed")]
    ELSE [ok |-> FALSE, e |-> e]
-----------------------------------------------------------------------------
(***************************************************************************)
(* The execution service: HTTP handlers, ExecutionService, the executions  *)
(* table with its optimistic lock, the Redis cache in front of it and the  *)
(* events it publishes. executeAsync runs in a goroutine of its own and    *)
(* works on the object that StartExecution created, never on the row.      *)
(***************************************************************************)

CONSTANTS
    ExecutionIds,       \* executions that can be created
    NoRow               \* no such row

VARIABLES
    executionRows,      \* executions table: id -> row or NoRow
    executionCache,     \* ids cached by GetExecution
    running,            \* id -> [pc, e]: goroutine or request that runs it
    executionEvents,    \* published events <<type, id>>
    executionReply      \* the last answer: [op, code, status]

executionVars ==
    <<executionRows, executionCache, running, executionEvents, executionReply>>

Idle == [pc |-> "idle", e |-> NewExecution]

ServiceInit ==
    /\ executionRows = [id \in ExecutionIds |-> NoRow]
    /\ executionCache = {}
    /\ running = [id \in ExecutionIds |-> Idle]
    /\ executionEvents = {}
    /\ executionReply = [op |-> "none", code |-> 0, status |-> ""]

Reply(op, code, status) ==
    executionReply' = [op |-> op, code |-> code, status |-> status]

-------------------------------------------------------------------------------
\* The repository.
Save(id, e) == [executionRows EXCEPT ![id] = e]

\* Mutant: the version compared is the one that was loaded, not the raised one.
Update_Loaded(id, e) ==
    IF executionRows[id] # NoRow /\ executionRows[id].version + 1 = e.version
    THEN [ok |-> TRUE, rows |-> [executionRows EXCEPT ![id] = e]]
    ELSE [ok |-> FALSE, rows |-> executionRows]

\* UPDATE ... SET version = e.version + 1 WHERE id AND version = e.version:
\* no row matches unless the caller's version is still the row's.
Update(id, e) ==
    IF executionRows[id] # NoRow /\ executionRows[id].version = e.version
    THEN [ok |-> TRUE,
          rows |-> [executionRows EXCEPT
                       ![id] = [e EXCEPT !.version = @ + 1]]]
    ELSE [ok |-> FALSE, rows |-> executionRows]

FindByID(id) == executionRows[id]

-------------------------------------------------------------------------------
\* The service. A failed publish is logged, the execution goes on.
StartExecution(id) ==
    /\ executionRows' = Save(id, NewExecution)
    /\ running' = [running EXCEPT ![id] = [pc |-> "start", e |-> NewExecution]]
    /\ executionEvents' \in {executionEvents,
                             executionEvents \union {<<"started", id>>}}

\* Mutant: the run ends when the row refuses the update.
AsyncStart_StopsOnRefusal(id) ==
    LET s == Start(running[id].e) u == Update(id, s.e) IN
    /\ running[id].pc = "start"
    /\ running' = [running EXCEPT ![id] =
                      [pc |-> IF s.ok /\ u.ok THEN "work" ELSE "idle", e |-> s.e]]
    /\ executionRows' = IF s.ok THEN u.rows ELSE executionRows
    /\ UNCHANGED <<executionCache, executionEvents, executionReply>>

\* executeAsync: start the object, try to write it, and go on whether or not
\* the row took the update.
AsyncStart(id) ==
    LET s == Start(running[id].e) IN
    /\ running[id].pc = "start"
    /\ running' = [running EXCEPT ![id] =
                      [pc |-> IF s.ok THEN "work" ELSE "idle", e |-> s.e]]
    /\ executionRows' = IF s.ok THEN Update(id, s.e).rows ELSE executionRows
    /\ UNCHANGED <<executionCache, executionEvents, executionReply>>

AsyncComplete(id) ==
    LET c == Complete(running[id].e) IN
    /\ running[id].pc = "work"
    /\ running' = [running EXCEPT ![id] = [pc |-> "idle", e |-> c.e]]
    /\ executionRows' = IF c.ok THEN Update(id, c.e).rows ELSE executionRows
    /\ \/ c.ok /\ executionEvents' = executionEvents \union {<<"completed", id>>}
       \/ UNCHANGED executionEvents     \* refused, or the publish failed
    /\ UNCHANGED <<executionCache, executionReply>>

\* The synchronous run: the same on the request's own goroutine, with one
\* update at the end, whose refusal fails the request.
ExecuteWorkflow(id) ==
    /\ executionRows' = Save(id, NewExecution)
    /\ running' = [running EXCEPT ![id] =
                      [pc |-> "execute", e |-> Start(NewExecution).e]]

ExecuteWorkflowEnd(id) ==
    LET e == Complete(running[id].e).e
        u == Update(id, e) IN
    /\ running[id].pc = "execute"
    /\ running' = [running EXCEPT ![id] = [pc |-> "idle", e |-> e]]
    /\ executionRows' = u.rows
    /\ IF u.ok THEN Reply("execute", 200, e.status) ELSE Reply("execute", 500, "")
    /\ UNCHANGED <<executionCache, executionEvents>>

\* The aggregate has no exported field, so what the cache gives back is an
\* empty execution, without a status.
GetExecution(id) ==
    IF id \in executionCache THEN [err |-> "none", status |-> ""]
    ELSE IF FindByID(id) = NoRow THEN [err |-> "not found", status |-> ""]
    ELSE [err |-> "none", status |-> FindByID(id).status]

CacheExpires(id) ==
    /\ id \in executionCache
    /\ executionCache' = executionCache \ {id}
    /\ UNCHANGED <<executionRows, running, executionEvents, executionReply>>

\* Cancel, pause and resume load the row, move a fresh object and write it
\* back: [err, rows, e].
LoadMoveUpdate(id, mover(_)) ==
    LET m == mover(FindByID(id))
        u == Update(id, m.e)
        Failed(err) == [err |-> err, rows |-> executionRows, e |-> NewExecution] IN
    IF FindByID(id) = NoRow THEN Failed("not found")
    ELSE IF ~m.ok \/ ~u.ok THEN Failed("refused")
    ELSE [err |-> "none", rows |-> u.rows, e |-> m.e]

\* Mutant: the event is published before the row is written.
CancelExecution_Early(id) ==
    LET r == LoadMoveUpdate(id, Cancel) IN
    /\ executionRows' = r.rows
    /\ executionEvents' = executionEvents \union {<<"cancelled", id>>}
    /\ executionCache' = executionCache \ {id}
    /\ UNCHANGED running

CancelExecution(id) ==
    LET r == LoadMoveUpdate(id, Cancel) ok == r.err = "none" IN
    /\ executionRows' = r.rows
    /\ executionEvents' = IF ok THEN executionEvents \union {<<"cancelled", id>>}
                                ELSE executionEvents
    /\ executionCache' = IF ok THEN executionCache \ {id} ELSE executionCache
    /\ UNCHANGED running

PauseExecution(id) ==
    LET r == LoadMoveUpdate(id, Pause) IN
    /\ executionRows' = r.rows
    /\ executionCache' =
          IF r.err = "none" THEN executionCache \ {id} ELSE executionCache
    /\ UNCHANGED <<running, executionEvents>>

\* A resumed execution is handed to executeAsync, whose Start refuses it.
ResumeExecution(id) ==
    LET r == LoadMoveUpdate(id, Resume) ok == r.err = "none" IN
    /\ executionRows' = r.rows
    /\ running' = IF ok THEN [running EXCEPT ![id] = [pc |-> "start", e |-> r.e]]
                        ELSE running
    /\ executionCache' = IF ok THEN executionCache \ {id} ELSE executionCache
    /\ UNCHANGED executionEvents

-------------------------------------------------------------------------------
\* The handlers: what they answer before the service is called, and the code
\* they give its errors.
Refuse(op, codes) ==
    /\ \E code \in codes : Reply(op, code, "")
    /\ UNCHANGED <<executionRows, executionCache, running, executionEvents>>

CodeOf(err, refused) ==
    CASE err = "none" -> 200 [] err = "not found" -> 404 [] OTHER -> refused

\* No user, no workflow named, or the insert failed.
HandleStartExecution(id) ==
    /\ executionRows[id] = NoRow
    /\ \/ Refuse("start", {401, 400, 500})
       \/ /\ StartExecution(id)
          \* The answer renders the object that executeAsync already moves.
          /\ \E s \in {"pending", "running"} : Reply("start", 201, s)
          /\ UNCHANGED executionCache

HandleExecuteWorkflow(id) ==
    /\ executionRows[id] = NoRow
    /\ \/ Refuse("execute", {401, 500})
       \/ /\ ExecuteWorkflow(id)
          /\ UNCHANGED <<executionCache, executionEvents, executionReply>>

\* A read from the table fills the cache.
HandleGetExecution(id) ==
    LET g == GetExecution(id) IN
    /\ Reply("get", CodeOf(g.err, 500), g.status)
    /\ executionCache' = IF g.err = "none" THEN executionCache \union {id}
                                           ELSE executionCache
    /\ UNCHANGED <<executionRows, running, executionEvents>>

HandleCancelExecution(id) ==
    /\ CancelExecution(id)
    /\ Reply("cancel", CodeOf(LoadMoveUpdate(id, Cancel).err, 400), "")

HandlePauseExecution(id) ==
    /\ PauseExecution(id)
    /\ Reply("pause", CodeOf(LoadMoveUpdate(id, Pause).err, 400), "")

HandleResumeExecution(id) ==
    /\ ResumeExecution(id)
    /\ Reply("resume", CodeOf(LoadMoveUpdate(id, Resume).err, 400), "")

AsyncStep(id) == AsyncStart(id) \/ AsyncComplete(id) \/ ExecuteWorkflowEnd(id)

ServiceNext ==
    \E id \in ExecutionIds :
        \/ HandleStartExecution(id) \/ HandleExecuteWorkflow(id)
        \/ HandleGetExecution(id) \/ CacheExpires(id)
        \/ HandleCancelExecution(id)
        \/ HandlePauseExecution(id)
        \/ HandleResumeExecution(id)
        \/ AsyncStep(id)

\* Goroutines run to their end; requests come as they like.
ServiceSpec ==
    /\ ServiceInit /\ [][ServiceNext]_executionVars
    /\ \A id \in ExecutionIds : WF_executionVars(AsyncStep(id))

-------------------------------------------------------------------------------
\* Whoever follows the events learns one outcome of an execution at most, and
\* learns of a completion only when the run that owns the object has ended so:
\* a cancel, a pause or a resume that comes while executeAsync works on an
\* object of its own never announces what the run then contradicts
\* (execution_service.go:204-240, 309-358).
OneOutcome ==
    \A id \in ExecutionIds :
        <<"completed", id>> \in executionEvents =>
            /\ <<"cancelled", id>> \notin executionEvents
            /\ running[id].pc = "idle" /\ running[id].e.status = "completed"

\* A request that is answered with an error has changed nothing by that
\* answer: no row, no cache entry, no event, and no run but the synchronous
\* one that ends with it, whose pending row was inserted before
\* (execution_service.go:107-155, 204-307).
RefusalLeavesNoTrace ==
    executionReply' # executionReply /\ executionReply'.code >= 400 =>
        /\ UNCHANGED <<executionRows, executionCache, executionEvents>>
        /\ executionReply'.op # "execute" => UNCHANGED running

\* What StartExecution accepted is run to its end, whatever requests come in
\* between: the object that the goroutine owns reaches "completed", although
\* its row never says so (execution_service.go:309-358).
StartedIsCompleted ==
    \A id \in ExecutionIds :
        running[id].pc = "start" ~>
            running[id].pc = "idle" /\ running[id].e.status = "completed"
-----------------------------------------------------------------------------
(***************************************************************************)
(* WorkflowExecutor (internal/execution/domain/service/executor.go): runs  *)
(* a workflow by depth-first recursion from each trigger node. The call    *)
(* stack of executeNode is explicit: a frame is the set of downstream      *)
(* nodes that the call has not visited yet. It visits them in the order of *)
(* the workflow's connections, once each, so that any order is possible.   *)
(***************************************************************************)

CONSTANTS
    WorkflowNodes,  \* node ids
    NodeTypes,      \* node types, "trigger" among them
    Workflows       \* workflows: the type of each node, and the connections
                    \* whose ends exist

VARIABLES
    workflow,       \* [type, connections]: the workflow being run
    executors,      \* node types that have a registered executor
    execution,      \* the Execution aggregate
    frames,         \* call stack of executeNode, outermost trigger loop first
    executorPc      \* "start" | "run" | "done"

executorVars == <<workflow, executors, execution, frames, executorPc>>

\* The executors that NewWorkflowExecutor registers: none for triggers.
DefaultExecutors == NodeTypes \ {"trigger"}

findNodesByType(t) == {n \in WorkflowNodes : workflow.type[n] = t}

findDownstreamNodes(n) == {m \in WorkflowNodes : <<n, m>> \in workflow.connections}

ExecutorInit ==
    /\ workflow \in Workflows
    \* The default registration, and one that RegisterExecutor completed.
    /\ executors \in {DefaultExecutors, NodeTypes}
    /\ execution = NewExecution
    /\ frames = <<>>
    /\ executorPc = "start"

RunWorkflow ==
    LET triggers == findNodesByType("trigger") started == Start(execution) IN
    /\ executorPc = "start"
    /\ started.ok
    /\ IF triggers = {}
       THEN /\ execution' = Fail(started.e).e
            /\ executorPc' = "done"
            /\ UNCHANGED frames
       ELSE /\ execution' = started.e
            /\ frames' = <<triggers>>
            /\ executorPc' = "run"
    /\ UNCHANGED <<workflow, executors>>

\* The innermost loop, and the frames once it has taken a node off.
Loop == frames[Len(frames)]
Advanced(n) == [frames EXCEPT ![Len(frames)] = @ \ {n}]

\* Mutant: without the test for a node that has been executed already.
executeNode_Again(n) ==
    LET started == StartNodeExecution(execution, n) IN
    /\ executorPc = "run"
    /\ frames # <<>> /\ n \in Loop
    /\ IF workflow.type[n] \notin executors \/ ~started.ok
       THEN frames' = Advanced(n) /\ UNCHANGED execution
       ELSE \/ /\ execution' = CompleteNodeExecution(started.e, n).e
               /\ frames' = Append(Advanced(n), findDownstreamNodes(n))
            \/ /\ execution' = FailNodeExecution(started.e, n).e
               /\ frames' = Advanced(n)
    /\ UNCHANGED <<workflow, executors, executorPc>>

\* One call of executeNode, up to the loop over the downstream nodes. An
\* error is only logged by the caller, which goes on with its next node.
executeNode(n) ==
    LET started == StartNodeExecution(execution, n) IN
    /\ executorPc = "run"
    /\ frames # <<>> /\ n \in Loop
    /\ IF \/ n \in DOMAIN execution.nodes
          \/ workflow.type[n] \notin executors
          \/ ~started.ok
       THEN frames' = Advanced(n) /\ UNCHANGED execution
       ELSE \/ /\ execution' = CompleteNodeExecution(started.e, n).e
               /\ frames' = Append(Advanced(n), findDownstreamNodes(n))
            \/ /\ execution' = FailNodeExecution(started.e, n).e
               /\ frames' = Advanced(n)
    /\ UNCHANGED <<workflow, executors, executorPc>>

\* executeNode returns once its loop is over.
ReturnFromNode ==
    /\ executorPc = "run"
    /\ frames # <<>>
    /\ Loop = {}
    /\ frames' = SubSeq(frames, 1, Len(frames) - 1)
    /\ UNCHANGED <<workflow, executors, execution, executorPc>>

\* The end of RunWorkflow: an execution still running is completed,
\* whatever became of its nodes.
FinishWorkflow ==
    /\ executorPc = "run"
    /\ frames = <<>>
    /\ execution' = Complete(execution).e
    /\ executorPc' = "done"
    /\ UNCHANGED <<workflow, executors, frames>>

ExecutorNext ==
    \/ RunWorkflow \/ ReturnFromNode \/ FinishWorkflow
    \/ \E n \in WorkflowNodes : executeNode(n)

ExecutorSpec == ExecutorInit /\ [][ExecutorNext]_executorVars /\ WF_executorVars(ExecutorNext)

-------------------------------------------------------------------------------
Started(n) == n \in DOMAIN execution.nodes

CompletedBefore(n, i) ==
    \E j \in 1..(i - 1) :
        /\ execution.nodes[execution.path[j]] = "completed"
        /\ <<execution.path[j], n>> \in workflow.connections

\* A node is started at most once, only as a trigger or after a completed
\* node that connects to it, and when the run ends exactly the nodes with an
\* executor that were reached that way have been started: the "already
\* executed" test makes the recursion end on cycles and diamonds without
\* skipping anything (executor.go:88-137).
StartsWhatItReaches ==
    /\ \A i \in DOMAIN execution.path :
          LET n == execution.path[i] IN
          /\ \A j \in DOMAIN execution.path : execution.path[j] = n => i = j
          /\ workflow.type[n] = "trigger" \/ CompletedBefore(n, i)
    /\ execution.status = "completed" =>
          \A n \in WorkflowNodes :
              Started(n) <=>
                 /\ workflow.type[n] \in executors
                 /\ \/ workflow.type[n] = "trigger"
                    \/ CompletedBefore(n, Len(execution.path) + 1)

\* Every run ends, on cyclic workflows too, as completed or as failed for
\* want of a trigger node (executor.go:43-79).
ExecutorReturns == <>(execution.status \in {"completed", "failed"})
=============================================================================
