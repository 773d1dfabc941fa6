---------------------------- MODULE ExecutionsProofs ----------------------------
(***************************************************************************)
(* What MCExecutions promises of the execution service, the workflow       *)
(* executor, the two schedulers, the engine's retries and the hub, for any *)
(* values of the constants.  Each component has an invariant of its own;   *)
(* a behaviour runs one component, so the others' are void.                *)
(***************************************************************************)
EXTENDS MCExecutions, SequenceTheorems, TLAPS

(* The execution service: no version that is written is the row's, and a   *)
(* run that has told of its completion is over.                            *)

\* The objects the service works on; it runs no nodes.
Held == [status : Runs!ExecutionStatuses, version : Nat, nodes : {<<>>}, path : {<<>>}]

RunsTyped ==
  /\ running \in [ExecutionIds -> [pc : {"idle", "start", "work", "execute"}, e : Held]]
  /\ \A id \in ExecutionIds : running[id].pc = "execute" => running[id].e.version > 0

Told(id) ==
  /\ <<"cancelled", id>> \notin executionEvents
  /\ executionRows[id] = None => running[id].pc = "idle" /\ <<"completed", id>> \notin executionEvents
  /\ <<"completed", id>> \in executionEvents => running[id].pc = "idle" /\ running[id].e.status = "completed"

ServiceInv ==
  /\ executionRows \in [ExecutionIds -> {None, Runs!NewExecution}]
  /\ RunsTyped
  /\ \A id \in ExecutionIds : Told(id)

\* A mutator that goes through raises the version.
LEMMA Moved ==
  ASSUME NEW e \in Held, NEW from, NEW to \in Runs!ExecutionStatuses
  PROVE  /\ Runs!Move(e, from, to).e \in Held
         /\ Runs!Move(e, from, to).ok \in BOOLEAN
         /\ Runs!Move(e, from, to).ok => e.status \in from
         /\ Runs!Move(e, from, to).ok => Runs!Move(e, from, to).e.version > 0
         /\ e.version > 0 => Runs!Move(e, from, to).e.version > 0
<1>1. CASE e.status \in from
  <2>1. PICK m : m = [e EXCEPT !.status = to, !.version = @ + 1]
    OBVIOUS
  <2>2. Runs!Move(e, from, to).e = m /\ Runs!Move(e, from, to).ok = TRUE
    BY <1>1, <2>1 DEF Runs!Move
  <2>3. e.version \in Nat /\ m.version = e.version + 1
    BY <2>1 DEF Held
  <2>4. m \in Held
    <3>1. m = [status |-> to, version |-> e.version + 1, nodes |-> e.nodes, path |-> e.path]
      BY <2>1 DEF Held
    <3>2. e.nodes \in {<<>>} /\ e.path \in {<<>>} /\ e.version + 1 \in Nat
      BY <2>3 DEF Held
    <3> QED
      BY <3>1, <3>2 DEF Held
  <2> QED
    <3>1. Runs!Move(e, from, to).e.version > 0
      BY <2>2, <2>3
    <3> QED
      BY <1>1, <2>2, <2>4, <3>1
<1>2. CASE e.status \notin from
  BY <1>2 DEF Runs!Move
<1> QED
  BY <1>1, <1>2

\* A row, inserted with version 0, takes no update of an object that was moved.
LEMMA UpdateRefused ==
  ASSUME ServiceInv, NEW id \in ExecutionIds, NEW e \in Held, e.version > 0
  PROVE  Runs!Update(id, e).rows = executionRows /\ Runs!Update(id, e).ok = FALSE
<1>1. ~(executionRows[id] # None /\ executionRows[id].version = e.version)
  <2>1. executionRows[id] \in {None, Runs!NewExecution} /\ Runs!NewExecution.version = 0
    BY DEF ServiceInv, Runs!NewExecution
  <2> QED
    BY <2>1 DEF Held
<1> QED
  BY <1>1 DEF Runs!Update

\* A new execution is pending.
LEMMA NewIsHeld == Runs!NewExecution \in Held /\ Runs!NewExecution.status = "pending"
  BY DEF Runs!NewExecution, Held, Runs!ExecutionStatuses

\* Cancel, pause and resume find no row, or one that is still pending.
LEMMA Refused ==
  ASSUME ServiceInv, NEW id \in ExecutionIds
  PROVE  \/ Runs!FindByID(id) = None
         \/ /\ Runs!FindByID(id) # None
            /\ Runs!Cancel(Runs!FindByID(id)).ok = FALSE
            /\ Runs!Pause(Runs!FindByID(id)).ok = FALSE
            /\ Runs!Resume(Runs!FindByID(id)).ok = FALSE
<1>1. Runs!FindByID(id) = None \/ Runs!FindByID(id) = Runs!NewExecution
  BY DEF ServiceInv, Runs!FindByID
<1>2. CASE Runs!FindByID(id) = Runs!NewExecution
  BY <1>2, NewIsHeld DEF Runs!Cancel, Runs!Pause, Runs!Resume, Runs!Move
<1> QED
  BY <1>1, <1>2

\* What goes through as a completion is completed.
LEMMA CompletedIs ==
  ASSUME NEW e \in Held, Runs!Complete(e).ok
  PROVE  Runs!Complete(e).e.status = "completed"
<1>1. PICK m : m = [e EXCEPT !.status = "completed", !.version = @ + 1]
  OBVIOUS
<1>2. m.status = "completed"
  BY <1>1 DEF Held
<1>3. e.status \in {"running"}
  BY DEF Runs!Complete, Runs!Move
<1>4. Runs!Complete(e).e = m
  BY <1>1, <1>3 DEF Runs!Complete, Runs!Move
<1> QED
  BY <1>2, <1>4

RunGoesTo(id, p, e) == running' = [running EXCEPT ![id] = [pc |-> p, e |-> e]]

\* A request of one execution leaves the goroutines of the others alone.
LEMMA RunsKept ==
  ASSUME RunsTyped, NEW id \in ExecutionIds, NEW p \in {"idle", "start", "work", "execute"},
         NEW e \in Held, p = "execute" => e.version > 0,
         RunGoesTo(id, p, e)
  PROVE  RunsTyped'
<1>1. [pc |-> p, e |-> e] \in [pc : {"idle", "start", "work", "execute"}, e : Held]
  OBVIOUS
<1>2. running' \in [ExecutionIds -> [pc : {"idle", "start", "work", "execute"}, e : Held]]
  BY <1>1 DEF RunsTyped, RunGoesTo
<1>3. ASSUME NEW x \in ExecutionIds, running'[x].pc = "execute" PROVE running'[x].e.version > 0
  BY <1>3 DEF RunsTyped, RunGoesTo
<1> QED
  BY <1>2, <1>3 DEF RunsTyped

\* A run that a step moves, with its row there and its events told in order.
LEMMA RunTells ==
  ASSUME ServiceInv, NEW id \in ExecutionIds,
         NEW p \in {"idle", "start", "work", "execute"}, NEW e \in Held, p = "execute" => e.version > 0,
         RunGoesTo(id, p, e),
         \/ executionRows' = executionRows /\ executionRows[id] # None
         \/ executionRows' = Runs!Save(id, Runs!NewExecution),
         <<"completed", id>> \notin executionEvents,
         \/ executionEvents' = executionEvents
         \/ executionEvents' = executionEvents \cup {<<"started", id>>}
         \/ executionEvents' = executionEvents \cup {<<"completed", id>>} /\ p = "idle" /\ e.status = "completed"
  PROVE  ServiceInv'
<1>1. executionRows \in [ExecutionIds -> {None, Runs!NewExecution}] /\ RunsTyped /\ \A x \in ExecutionIds : Told(x)
  BY DEF ServiceInv
<1>2. /\ executionRows' \in [ExecutionIds -> {None, Runs!NewExecution}] /\ executionRows'[id] # None
      /\ \A x \in ExecutionIds : x # id => executionRows'[x] = executionRows[x]
  <2>1. Runs!NewExecution # None
    BY RowAssumption
  <2> QED
    BY <1>1, <2>1 DEF Runs!Save
<1>3. RunsTyped'
  BY <1>1, RunsKept
<1>4. /\ running'[id].pc = p /\ running'[id].e = e
      /\ \A x \in ExecutionIds : x # id => running'[x] = running[x]
  <2>1. PICK r : r = [pc |-> p, e |-> e]
    OBVIOUS
  <2>2. r.pc = p /\ r.e = e
    BY <2>1
  <2>3. running' = [running EXCEPT ![id] = r] /\ DOMAIN running = ExecutionIds
    BY <1>1, <2>1 DEF RunGoesTo, RunsTyped
  <2> QED
    BY <2>2, <2>3
<1>5. /\ \A x \in ExecutionIds : x # id =>
           /\ <<"completed", x>> \in executionEvents' <=> <<"completed", x>> \in executionEvents
           /\ <<"cancelled", x>> \in executionEvents' <=> <<"cancelled", x>> \in executionEvents
      /\ <<"cancelled", id>> \in executionEvents' <=> <<"cancelled", id>> \in executionEvents
      /\ <<"completed", id>> \in executionEvents' => p = "idle" /\ e.status = "completed"
  OBVIOUS
<1>6. ASSUME NEW x \in ExecutionIds, x # id PROVE Told(x)'
  BY <1>1, <1>2, <1>4, <1>5, <1>6 DEF Told
<1>7. Told(id)'
  BY <1>1, <1>2, <1>4, <1>5 DEF Told
<1> QED
  BY <1>2, <1>3, <1>6, <1>7 DEF ServiceInv

\* No request and no goroutine updates a row (execution_repository.go:129), a
\* run tells of its completion when it ends, and what is refused is refused
\* before anything is written.
LEMMA ServiceStep == ServiceInv /\ Runs!ServiceNext => ServiceInv' /\ Runs!RefusalLeavesNoTrace
<1> SUFFICES ASSUME ServiceInv, Runs!ServiceNext PROVE ServiceInv' /\ Runs!RefusalLeavesNoTrace
  OBVIOUS
<1>1. /\ executionRows \in [ExecutionIds -> {None, Runs!NewExecution}]
      /\ RunsTyped /\ \A x \in ExecutionIds : Told(x)
  BY DEF ServiceInv
<1>2. ASSUME UNCHANGED <<executionRows, running, executionEvents>> PROVE ServiceInv'
  BY <1>1, <1>2 DEF ServiceInv, RunsTyped, Told
<1>3. ASSUME UNCHANGED <<executionRows, running, executionEvents, executionCache>>
      PROVE  ServiceInv' /\ Runs!RefusalLeavesNoTrace
  BY <1>2, <1>3 DEF Runs!RefusalLeavesNoTrace
<1>4. PICK id \in ExecutionIds :
        \/ Runs!HandleStartExecution(id) \/ Runs!HandleExecuteWorkflow(id)
        \/ Runs!HandleGetExecution(id) \/ Runs!CacheExpires(id)
        \/ Runs!HandleCancelExecution(id) \/ Runs!HandlePauseExecution(id) \/ Runs!HandleResumeExecution(id)
        \/ Runs!AsyncStep(id)
  BY DEF Runs!ServiceNext
<1>5. /\ running[id] \in [pc : {"idle", "start", "work", "execute"}, e : Held]
      /\ running[id].e \in Held
      /\ running[id].pc = "execute" => running[id].e.version > 0
  BY <1>1 DEF RunsTyped
<1>6. /\ executionRows[id] = None => <<"completed", id>> \notin executionEvents
      /\ running[id].pc # "idle" => executionRows[id] # None /\ <<"completed", id>> \notin executionEvents
  BY <1>1 DEF Told
<1>7. executionReply' = executionReply => Runs!RefusalLeavesNoTrace
  BY DEF Runs!RefusalLeavesNoTrace
<1>8. CASE Runs!HandleStartExecution(id)
  <2>1. CASE Runs!Refuse("start", {401, 400, 500})
    BY <1>3, <2>1 DEF Runs!Refuse
  <2>2. CASE Runs!StartExecution(id) /\ \E s \in {"pending", "running"} : Runs!Reply("start", 201, s)
    <3>1. RunGoesTo(id, "start", Runs!NewExecution)
      BY <2>2 DEF Runs!StartExecution, RunGoesTo
    <3>2. <<"completed", id>> \notin executionEvents
      BY <1>6, <1>8 DEF Runs!HandleStartExecution
    <3>3. ServiceInv'
      BY <2>2, <3>1, <3>2, NewIsHeld, RunTells DEF Runs!StartExecution
    <3>4. executionReply'.code = 201
      BY <2>2 DEF Runs!Reply
    <3> QED
      BY <3>3, <3>4 DEF Runs!RefusalLeavesNoTrace
  <2> QED
    BY <1>8, <2>1, <2>2 DEF Runs!HandleStartExecution
<1>9. CASE Runs!HandleExecuteWorkflow(id)
  <2>1. CASE Runs!Refuse("execute", {401, 500})
    BY <1>3, <2>1 DEF Runs!Refuse
  <2>2. CASE Runs!ExecuteWorkflow(id) /\ UNCHANGED <<executionCache, executionEvents, executionReply>>
    <3>1. /\ Runs!Start(Runs!NewExecution).e \in Held
          /\ Runs!Start(Runs!NewExecution).e.version > 0
      <4>1. Runs!Start(Runs!NewExecution).ok
        BY NewIsHeld DEF Runs!Start, Runs!Move
      <4> QED
        BY <4>1, NewIsHeld, Moved DEF Runs!Start, Runs!ExecutionStatuses
    <3>2. RunGoesTo(id, "execute", Runs!Start(Runs!NewExecution).e)
      BY <2>2 DEF Runs!ExecuteWorkflow, RunGoesTo
    <3>3. <<"completed", id>> \notin executionEvents
      BY <1>6, <1>9 DEF Runs!HandleExecuteWorkflow
    <3>4. ServiceInv'
      BY <2>2, <3>1, <3>2, <3>3, RunTells DEF Runs!ExecuteWorkflow
    <3> QED
      BY <1>7, <2>2, <3>4
  <2> QED
    BY <1>9, <2>1, <2>2 DEF Runs!HandleExecuteWorkflow
<1>10. CASE Runs!HandleGetExecution(id)
  <2>1. ServiceInv'
    BY <1>2, <1>10 DEF Runs!HandleGetExecution
  <2>2. CASE Runs!GetExecution(id).err = "none"
    <3>1. Runs!CodeOf(Runs!GetExecution(id).err, 500) = 200
      BY <2>2 DEF Runs!CodeOf
    <3>2. executionReply'.code = 200
      BY <1>10, <3>1 DEF Runs!HandleGetExecution, Runs!Reply
    <3> QED
      BY <2>1, <3>2 DEF Runs!RefusalLeavesNoTrace
  <2>3. CASE Runs!GetExecution(id).err # "none"
    BY <1>3, <1>10, <2>3 DEF Runs!HandleGetExecution
  <2> QED
    BY <2>2, <2>3
<1>11. CASE Runs!CacheExpires(id)
  BY <1>2, <1>7, <1>11 DEF Runs!CacheExpires
<1>12. CASE Runs!HandleCancelExecution(id)
  <2>1. Runs!FindByID(id) = None \/ (Runs!FindByID(id) # None /\ Runs!Cancel(Runs!FindByID(id)).ok = FALSE)
    BY Refused
  <2> QED
    BY <1>3, <1>12, <2>1 DEF Runs!HandleCancelExecution, Runs!CancelExecution, Runs!LoadMoveUpdate
<1>13. CASE Runs!HandlePauseExecution(id)
  <2>1. Runs!FindByID(id) = None \/ (Runs!FindByID(id) # None /\ Runs!Pause(Runs!FindByID(id)).ok = FALSE)
    BY Refused
  <2> QED
    BY <1>3, <1>13, <2>1 DEF Runs!HandlePauseExecution, Runs!PauseExecution, Runs!LoadMoveUpdate
<1>14. CASE Runs!HandleResumeExecution(id)
  <2>1. Runs!FindByID(id) = None \/ (Runs!FindByID(id) # None /\ Runs!Resume(Runs!FindByID(id)).ok = FALSE)
    BY Refused
  <2> QED
    BY <1>3, <1>14, <2>1 DEF Runs!HandleResumeExecution, Runs!ResumeExecution, Runs!LoadMoveUpdate
<1>15. CASE Runs!AsyncStart(id)
  <2> DEFINE s == Runs!Start(running[id].e)
  <2>1. s.e \in Held /\ (s.ok => s.e.version > 0)
    BY <1>5, Moved DEF Runs!Start, Runs!ExecutionStatuses
  <2>2. s.ok => Runs!Update(id, s.e).rows = executionRows
    BY <2>1, UpdateRefused
  <2>3. /\ running' = [running EXCEPT ![id] = [pc |-> IF s.ok THEN "work" ELSE "idle", e |-> s.e]]
        /\ executionRows' = executionRows /\ executionReply' = executionReply /\ executionEvents' = executionEvents
        /\ running[id].pc = "start"
    BY <1>15, <2>2 DEF Runs!AsyncStart
  <2>4. ServiceInv'
    <3> HIDE DEF s
    <3> DEFINE p == IF s.ok THEN "work" ELSE "idle"
    <3>1. p \in {"idle", "start", "work", "execute"} /\ p # "execute" /\ RunGoesTo(id, p, s.e)
      BY <2>3 DEF RunGoesTo
    <3> HIDE DEF p
    <3> QED
      BY <1>6, <2>1, <2>3, <3>1, RunTells
  <2> QED
    BY <1>7, <2>3, <2>4
<1>16. CASE Runs!AsyncComplete(id)
  <2> DEFINE c == Runs!Complete(running[id].e)
  <2>1. c.e \in Held /\ (c.ok => c.e.version > 0)
    BY <1>5, Moved DEF Runs!Complete, Runs!ExecutionStatuses
  <2>2. c.ok => Runs!Update(id, c.e).rows = executionRows
    BY <2>1, UpdateRefused
  <2>3. c.ok => c.e.status = "completed"
    BY <1>5, CompletedIs
  <2>4. /\ RunGoesTo(id, "idle", c.e)
        /\ executionRows' = executionRows /\ executionReply' = executionReply
        /\ running[id].pc = "work"
        /\ \/ c.ok /\ executionEvents' = executionEvents \cup {<<"completed", id>>}
           \/ executionEvents' = executionEvents
    BY <1>16, <2>2 DEF Runs!AsyncComplete, RunGoesTo
  <2>5. ServiceInv'
    <3> HIDE DEF c
    <3> QED
      BY <1>6, <2>1, <2>3, <2>4, RunTells
  <2> QED
    BY <1>7, <2>4, <2>5
<1>17. CASE Runs!ExecuteWorkflowEnd(id)
  <2> DEFINE e == Runs!Complete(running[id].e).e
  <2>1. e \in Held /\ e.version > 0
    BY <1>5, <1>17, Moved DEF Runs!Complete, Runs!ExecutionStatuses, Runs!ExecuteWorkflowEnd
  <2>2. Runs!Update(id, e).rows = executionRows
    BY <2>1, UpdateRefused
  <2>3. /\ RunGoesTo(id, "idle", e)
        /\ executionRows' = executionRows /\ executionEvents' = executionEvents /\ executionCache' = executionCache
        /\ running[id].pc = "execute"
    BY <1>17, <2>2 DEF Runs!ExecuteWorkflowEnd, RunGoesTo
  <2>4. executionReply'.op = "execute"
    <3>1. Runs!Reply("execute", 200, e.status) \/ Runs!Reply("execute", 500, "")
      BY <1>17 DEF Runs!ExecuteWorkflowEnd
    <3>2. PICK code, st : executionReply' = [op |-> "execute", code |-> code, status |-> st]
      BY <3>1 DEF Runs!Reply
    <3> QED
      BY <3>2
  <2>5. ServiceInv'
    <3> HIDE DEF e
    <3> QED
      BY <1>6, <2>1, <2>3, RunTells
  <2> QED
    BY <2>3, <2>4, <2>5 DEF Runs!RefusalLeavesNoTrace
<1> QED
  BY <1>4, <1>8, <1>9, <1>10, <1>11, <1>12, <1>13, <1>14, <1>15, <1>16, <1>17 DEF Runs!AsyncStep

\* There is no execution yet.
LEMMA ServiceInit == Runs!ServiceInit => ServiceInv
<1> SUFFICES ASSUME Runs!ServiceInit PROVE ServiceInv
  OBVIOUS
<1> USE DEF Runs!ServiceInit
<1>1. RunsTyped
  BY NewIsHeld DEF RunsTyped, Runs!Idle
<1>2. \A id \in ExecutionIds : running[id].pc = "idle"
  BY DEF Runs!Idle
<1> QED
  BY <1>1, <1>2 DEF ServiceInv, Told

----------------------------------------------------------------------------
(* The workflow executor: what is due has run, cannot run, or waits in a   *)
(* loop of the call stack.                                                 *)

NodesRun == UNION {[S -> {"running", "completed", "failed"}] : S \in SUBSET WorkflowNodes}
RunRecord == [status : Runs!ExecutionStatuses, version : Nat, nodes : NodesRun, path : Seq(WorkflowNodes)]

InLoop(F, n) == \E k \in 1..Len(F) : n \in F[k]
After(e, n) == \E m \in DOMAIN e.nodes : e.nodes[m] = "completed" /\ <<m, n>> \in workflow.connections
Due(e, n) == workflow.type[n] = "trigger" \/ After(e, n)
Before(e, n, i) ==
  \E j \in 1..(i - 1) :
    e.nodes[e.path[j]] = "completed" /\ <<e.path[j], n>> \in workflow.connections

\* The path lists the nodes that have run, each once and with its reason.
PathTells(e) ==
  /\ \A n : n \in DOMAIN e.nodes <=> \E i \in 1..Len(e.path) : e.path[i] = n
  /\ \A i, j \in 1..Len(e.path) : e.path[i] = e.path[j] => i = j
  /\ \A i \in 1..Len(e.path) : workflow.type[e.path[i]] = "trigger" \/ Before(e, e.path[i], i)
  /\ \A n \in DOMAIN e.nodes : workflow.type[n] \in executors

\* A node waits in a loop only when it is due, and what is due is not forgotten.
LoopsHold(e, F) ==
  /\ \A n : InLoop(F, n) => n \in WorkflowNodes /\ Due(e, n)
  /\ \A n \in WorkflowNodes :
       Due(e, n) => n \in DOMAIN e.nodes \/ workflow.type[n] \notin executors \/ InLoop(F, n)

ExecutorPlace ==
  /\ executorPc \in {"start", "run", "done"}
  /\ executorPc = "start" => execution = Runs!NewExecution /\ frames = <<>>
  /\ executorPc = "run" => execution.status = "running" /\ LoopsHold(execution, frames)
  /\ execution.status = "completed" => executorPc = "done" /\ frames = <<>> /\ LoopsHold(execution, frames)

ExecutorInv ==
  /\ workflow \in Workflows /\ execution \in RunRecord /\ frames \in Seq(SUBSET WorkflowNodes)
  /\ PathTells(execution) /\ ExecutorPlace

TakenOff(F, n) == [F EXCEPT ![Len(F)] = @ \ {n}]

\* What the loops still hold when one of them takes a node off,
LEMMA LoopTakes ==
  ASSUME NEW F \in Seq(SUBSET WorkflowNodes), F # <<>>, NEW n,
         NEW G, G = TakenOff(F, n)
  PROVE  /\ G \in Seq(SUBSET WorkflowNodes)
         /\ \A m : InLoop(G, m) => InLoop(F, m)
         /\ \A m : InLoop(F, m) => InLoop(G, m) \/ m = n
<1>1. /\ Len(F) \in 1..Len(F) /\ F[Len(F)] \ {n} \in SUBSET WorkflowNodes
      /\ G = [F EXCEPT ![Len(F)] = F[Len(F)] \ {n}]
  BY EmptySeq, ElementOfSeq DEF TakenOff
<1>2. /\ G \in Seq(SUBSET WorkflowNodes) /\ Len(G) = Len(F)
      /\ \A k \in 1..Len(F) : G[k] = IF k = Len(F) THEN F[Len(F)] \ {n} ELSE F[k]
  BY <1>1, ExceptSeq
<1>3. \A k \in 1..Len(F) : G[k] \subseteq F[k] /\ F[k] \subseteq G[k] \cup {n}
  <2> SUFFICES ASSUME NEW k \in 1..Len(F) PROVE G[k] \subseteq F[k] /\ F[k] \subseteq G[k] \cup {n}
    OBVIOUS
  <2>1. G[k] = IF k = Len(F) THEN F[Len(F)] \ {n} ELSE F[k]
    BY <1>2
  <2>2. CASE k = Len(F)
    BY <2>1, <2>2
  <2>3. CASE k # Len(F)
    BY <2>1, <2>3
  <2> QED
    BY <2>2, <2>3
<1> QED
  BY <1>2, <1>3 DEF InLoop

\* when a loop is added,
LEMMA LoopAdded ==
  ASSUME NEW F \in Seq(SUBSET WorkflowNodes), NEW S \in SUBSET WorkflowNodes
  PROVE  /\ Append(F, S) \in Seq(SUBSET WorkflowNodes)
         /\ \A m : InLoop(Append(F, S), m) <=> InLoop(F, m) \/ m \in S
<1> DEFINE G == Append(F, S)
<1>1. /\ G \in Seq(SUBSET WorkflowNodes) /\ Len(F) \in Nat /\ Len(G) = Len(F) + 1
      /\ G[Len(F) + 1] = S /\ \A k \in 1..Len(F) : G[k] = F[k]
  OBVIOUS
<1> HIDE DEF G
<1>2. \A k \in 1..Len(G) : k \in 1..Len(F) \/ k = Len(F) + 1
  BY <1>1
<1>3. \A m : InLoop(G, m) <=> InLoop(F, m) \/ m \in S
  BY <1>1, <1>2 DEF InLoop
<1> QED
  BY <1>1, <1>3 DEF G

\* and when a loop that is over is left.
LEMMA LoopLeft ==
  ASSUME NEW F \in Seq(SUBSET WorkflowNodes), F # <<>>, F[Len(F)] = {}
  PROVE  /\ SubSeq(F, 1, Len(F) - 1) \in Seq(SUBSET WorkflowNodes)
         /\ \A m : InLoop(SubSeq(F, 1, Len(F) - 1), m) <=> InLoop(F, m)
<1>1. PICK l \in Nat : l = Len(F) /\ l > 0
  BY EmptySeq
<1> DEFINE G == SubSeq(F, 1, l - 1)
<1>2. \A k \in 1..(l - 1) : F[k] \in SUBSET WorkflowNodes
  BY <1>1, ElementOfSeq
<1>3. /\ G \in Seq(SUBSET WorkflowNodes)
      /\ Len(G) = IF 1 <= l - 1 THEN (l - 1) - 1 + 1 ELSE 0
      /\ \A k \in 1..((l - 1) - 1 + 1) : G[k] = F[1 + k - 1]
  BY <1>2, SubSeqProperties
<1> HIDE DEF G
<1>4. Len(G) = l - 1
  BY <1>1, <1>3
<1>5. \A k \in 1..(l - 1) : G[k] = F[k]
  BY <1>1, <1>3
<1>6. \A k \in 1..l : k \in 1..(l - 1) \/ k = l
  BY <1>1
<1>7. \A m : InLoop(G, m) <=> InLoop(F, m)
  BY <1>1, <1>4, <1>5, <1>6 DEF InLoop
<1> QED
  BY <1>1, <1>3, <1>7 DEF G

\* What an execution is once node n is at s.
NodeAt(e, r, n, s) ==
  /\ r \in RunRecord /\ r.status = e.status /\ DOMAIN r.nodes = DOMAIN e.nodes \cup {n}
  /\ r.nodes[n] = s /\ \A m \in DOMAIN e.nodes : m # n => r.nodes[m] = e.nodes[m]

\* SetNode writes one node,
LEMMA NodeSet ==
  ASSUME NEW e \in RunRecord, NEW n \in WorkflowNodes, NEW s \in {"running", "completed", "failed"}
  PROVE  NodeAt(e, Runs!SetNode(e, n, s), n, s) /\ Runs!SetNode(e, n, s).path = e.path
<1>1. /\ e.status \in Runs!ExecutionStatuses /\ e.version \in Nat /\ e.path \in Seq(WorkflowNodes)
      /\ e.nodes \in NodesRun
  BY DEF RunRecord
<1>2. PICK S \in SUBSET WorkflowNodes : e.nodes \in [S -> {"running", "completed", "failed"}]
  BY <1>1 DEF NodesRun
<1>3. PICK f : f = [m \in DOMAIN e.nodes \cup {n} |-> IF m = n THEN s ELSE e.nodes[m]]
  OBVIOUS
<1>4. f \in NodesRun
  <2>1. S \cup {n} \in SUBSET WorkflowNodes /\ f \in [S \cup {n} -> {"running", "completed", "failed"}]
    BY <1>2, <1>3
  <2> QED
    BY <2>1 DEF NodesRun
<1>5. PICK r : r = [e EXCEPT !.nodes = f, !.version = @ + 1]
  OBVIOUS
<1>6. r = [status |-> e.status, version |-> e.version + 1, nodes |-> f, path |-> e.path]
  BY <1>5 DEF RunRecord
<1>7. e.version + 1 \in Nat
  BY <1>1
<1>8. r \in RunRecord
  BY <1>1, <1>4, <1>6, <1>7 DEF RunRecord
<1>9. Runs!SetNode(e, n, s) = r
  BY <1>3, <1>5 DEF Runs!SetNode
<1> QED
  <2>1. r.status = e.status /\ r.nodes = f /\ r.path = e.path
    BY <1>6
  <2> QED
    BY <1>3, <1>8, <1>9, <2>1 DEF NodeAt

RanTo(e, r, n, s) == NodeAt(e, r, n, s) /\ r.path = Append(e.path, n)

\* and a node that is started and ended is on the path, with its end.
LEMMA NodeRuns ==
  ASSUME NEW e \in RunRecord, e.status = "running", NEW n \in WorkflowNodes, n \notin DOMAIN e.nodes
  PROVE  /\ Runs!StartNodeExecution(e, n).ok
         /\ RanTo(e, Runs!CompleteNodeExecution(Runs!StartNodeExecution(e, n).e, n).e, n, "completed")
         /\ RanTo(e, Runs!FailNodeExecution(Runs!StartNodeExecution(e, n).e, n).e, n, "failed")
<1>1. PICK b : b = Runs!SetNode(e, n, "running")
  OBVIOUS
<1>2. b \in RunRecord /\ NodeAt(e, b, n, "running") /\ b.path = e.path
  BY <1>1, NodeSet DEF NodeAt
<1>3. PICK d : d = [b EXCEPT !.path = Append(@, n)]
  OBVIOUS
<1>4. d = [status |-> b.status, version |-> b.version, nodes |-> b.nodes, path |-> Append(b.path, n)]
  BY <1>2, <1>3 DEF RunRecord
<1>5. d \in RunRecord
  <2>1. /\ b.status \in Runs!ExecutionStatuses /\ b.version \in Nat /\ b.nodes \in NodesRun
        /\ b.path \in Seq(WorkflowNodes)
    BY <1>2 DEF RunRecord
  <2>2. Append(b.path, n) \in Seq(WorkflowNodes)
    BY <2>1
  <2> QED
    BY <1>4, <2>1, <2>2 DEF RunRecord
<1>6. d.status = e.status /\ d.nodes = b.nodes /\ d.path = Append(e.path, n)
  BY <1>2, <1>4 DEF NodeAt
<1>7. Runs!StartNodeExecution(e, n) = [ok |-> TRUE, e |-> d]
  BY <1>1, <1>3 DEF Runs!StartNodeExecution
<1>8. n \in DOMAIN d.nodes /\ d.nodes[n] = "running"
  BY <1>2, <1>6 DEF NodeAt
<1>9. ASSUME NEW s \in {"completed", "failed"} PROVE RanTo(e, Runs!SetNode(d, n, s), n, s)
  <2>1. NodeAt(d, Runs!SetNode(d, n, s), n, s) /\ Runs!SetNode(d, n, s).path = d.path
    BY <1>5, NodeSet
  <2> QED
    BY <1>2, <1>6, <2>1 DEF NodeAt, RanTo
<1>10. /\ Runs!CompleteNodeExecution(d, n).e = Runs!SetNode(d, n, "completed")
       /\ Runs!FailNodeExecution(d, n).e = Runs!SetNode(d, n, "failed")
  BY <1>8 DEF Runs!CompleteNodeExecution, Runs!FailNodeExecution
<1>11. Runs!StartNodeExecution(e, n).e = d /\ Runs!StartNodeExecution(e, n).ok
  BY <1>7
<1> QED
  BY <1>9, <1>10, <1>11

\* The path goes on telling what ran when a node that is due has run.
LEMMA PathRan ==
  ASSUME NEW e \in RunRecord, NEW n \in WorkflowNodes, NEW r, NEW s,
         n \notin DOMAIN e.nodes, workflow.type[n] \in executors, Due(e, n),
         PathTells(e), RanTo(e, r, n, s)
  PROVE  /\ PathTells(r)
         /\ \A m : Due(e, m) => Due(r, m)
         /\ \A m : Due(r, m) => Due(e, m) \/ (s = "completed" /\ <<n, m>> \in workflow.connections)
<1>1. e.path \in Seq(WorkflowNodes) /\ r.path = Append(e.path, n)
  BY DEF RunRecord, RanTo
<1>2. PICK l \in Nat : l = Len(e.path)
  BY <1>1
<1>3. Len(r.path) = l + 1 /\ r.path[l + 1] = n /\ \A k \in 1..l : r.path[k] = e.path[k]
  BY <1>1, <1>2
<1>4. /\ DOMAIN r.nodes = DOMAIN e.nodes \cup {n} /\ r.nodes[n] = s
      /\ \A m \in DOMAIN e.nodes : r.nodes[m] = e.nodes[m]
  BY DEF RanTo, NodeAt
<1>5. /\ \A m : m \in DOMAIN e.nodes <=> \E i \in 1..l : e.path[i] = m
      /\ \A i, j \in 1..l : e.path[i] = e.path[j] => i = j
      /\ \A i \in 1..l : workflow.type[e.path[i]] = "trigger" \/ Before(e, e.path[i], i)
      /\ \A m \in DOMAIN e.nodes : workflow.type[m] \in executors
  BY <1>2 DEF PathTells
<1>6. \A k \in 1..(l + 1) : k \in 1..l \/ k = l + 1
  OBVIOUS
<1>7. \A i \in 1..l : e.path[i] \in DOMAIN e.nodes
  BY <1>5
<1>8. \A m : m \in DOMAIN r.nodes <=> \E i \in 1..(l + 1) : r.path[i] = m
  BY <1>3, <1>4, <1>5, <1>6
<1>9. \A i, j \in 1..(l + 1) : r.path[i] = r.path[j] => i = j
  BY <1>3, <1>5, <1>6, <1>7
<1>10. \A i \in 1..(l + 1) : \A m : Before(e, m, i) => Before(r, m, i)
  <2> SUFFICES ASSUME NEW i \in 1..(l + 1), NEW m, Before(e, m, i) PROVE Before(r, m, i)
    OBVIOUS
  <2>1. PICK j \in 1..(i - 1) : e.nodes[e.path[j]] = "completed" /\ <<e.path[j], m>> \in workflow.connections
    BY DEF Before
  <2>2. j \in 1..l
    OBVIOUS
  <2>3. r.path[j] = e.path[j] /\ r.nodes[e.path[j]] = e.nodes[e.path[j]]
    BY <1>3, <1>4, <1>7, <2>2
  <2> QED
    BY <2>1, <2>3 DEF Before
<1>11. After(e, n) => Before(e, n, l + 1)
  <2> SUFFICES ASSUME After(e, n) PROVE Before(e, n, l + 1)
    OBVIOUS
  <2>1. PICK m \in DOMAIN e.nodes : e.nodes[m] = "completed" /\ <<m, n>> \in workflow.connections
    BY DEF After
  <2>2. PICK j \in 1..l : e.path[j] = m
    BY <1>5
  <2>3. j \in 1..((l + 1) - 1)
    OBVIOUS
  <2> QED
    BY <2>1, <2>2, <2>3 DEF Before
<1>12. \A i \in 1..(l + 1) : workflow.type[r.path[i]] = "trigger" \/ Before(r, r.path[i], i)
  <2> SUFFICES ASSUME NEW i \in 1..(l + 1)
               PROVE  workflow.type[r.path[i]] = "trigger" \/ Before(r, r.path[i], i)
    OBVIOUS
  <2>1. CASE i \in 1..l
    <3>1. r.path[i] = e.path[i] /\ (workflow.type[e.path[i]] = "trigger" \/ Before(e, e.path[i], i))
      BY <1>3, <1>5, <2>1
    <3> QED
      BY <1>10, <3>1
  <2>2. CASE i = l + 1
    <3>1. r.path[i] = n /\ (workflow.type[n] = "trigger" \/ Before(e, n, i))
      BY <1>3, <1>11, <2>2 DEF Due
    <3> QED
      BY <1>10, <3>1
  <2> QED
    BY <1>6, <2>1, <2>2
<1>13. \A m \in DOMAIN r.nodes : workflow.type[m] \in executors
  BY <1>4, <1>5
<1>14. PathTells(r)
  BY <1>3, <1>8, <1>9, <1>12, <1>13 DEF PathTells
<1> QED
  BY <1>4, <1>14 DEF Due, After

\* A mutator of the execution's status leaves its nodes alone.
LEMMA StatusMoved ==
  ASSUME NEW e \in RunRecord, NEW from, NEW to \in Runs!ExecutionStatuses,
         NEW r, r = Runs!Move(e, from, to).e
  PROVE  /\ r \in RunRecord /\ r.nodes = e.nodes /\ r.path = e.path
         /\ r.status = IF e.status \in from THEN to ELSE e.status
<1>1. CASE e.status \in from
  <2>1. PICK m : m = [e EXCEPT !.status = to, !.version = @ + 1]
    OBVIOUS
  <2>2. m = [status |-> to, version |-> e.version + 1, nodes |-> e.nodes, path |-> e.path]
    BY <2>1 DEF RunRecord
  <2>3. r = m
    BY <1>1, <2>1 DEF Runs!Move
  <2>4. e.version + 1 \in Nat /\ e.nodes \in NodesRun /\ e.path \in Seq(WorkflowNodes)
    BY DEF RunRecord
  <2>5. m \in RunRecord
    BY <2>2, <2>4 DEF RunRecord
  <2>6. m.nodes = e.nodes /\ m.path = e.path /\ m.status = to
    BY <2>2
  <2> QED
    BY <1>1, <2>3, <2>5, <2>6
<1>2. CASE e.status \notin from
  <2>1. r = e
    BY <1>2 DEF Runs!Move
  <2> QED
    BY <1>2, <2>1
<1> QED
  BY <1>1, <1>2

\* What the path tells and the loops hold is a matter of nodes and path alone.
LEMMA PathSame ==
  ASSUME NEW e, NEW r, NEW F, r.nodes = e.nodes, r.path = e.path
  PROVE  /\ PathTells(e) => PathTells(r)
         /\ LoopsHold(e, F) => LoopsHold(r, F)
<1>1. PathTells(e) => PathTells(r)
  BY DEF PathTells, Before
<1>2. LoopsHold(e, F) => LoopsHold(r, F)
  BY DEF LoopsHold, Due, After
<1> QED
  BY <1>1, <1>2

\* An execution that is new has run nothing.
LEMMA NewIsEmpty ==
  /\ Runs!NewExecution \in RunRecord /\ Runs!NewExecution.status = "pending"
  /\ \A n : n \notin DOMAIN Runs!NewExecution.nodes
  /\ PathTells(Runs!NewExecution)
<1>1. <<>> \in NodesRun
  <2>1. <<>> \in [{} -> {"running", "completed", "failed"}]
    OBVIOUS
  <2> QED
    BY <2>1 DEF NodesRun
<1>2. /\ Runs!NewExecution.nodes = <<>> /\ Runs!NewExecution.path = <<>>
      /\ Runs!NewExecution.status = "pending"
  BY DEF Runs!NewExecution
<1>3. Runs!NewExecution \in RunRecord
  BY <1>1 DEF Runs!NewExecution, RunRecord, Runs!ExecutionStatuses
<1>4. \A n : n \notin DOMAIN Runs!NewExecution.nodes
  BY <1>2
<1>5. Len(Runs!NewExecution.path) = 0
  BY <1>2
<1> QED
  BY <1>2, <1>3, <1>4, <1>5 DEF PathTells

\* The run starts with no node run and no loop open.
LEMMA ExecutorInit == Runs!ExecutorInit => ExecutorInv
<1> SUFFICES ASSUME Runs!ExecutorInit PROVE ExecutorInv
  OBVIOUS
<1>1. workflow \in Workflows /\ execution = Runs!NewExecution /\ frames = <<>> /\ executorPc = "start"
  BY DEF Runs!ExecutorInit
<1>2. <<>> \in Seq(SUBSET WorkflowNodes)
  OBVIOUS
<1> QED
  BY <1>1, <1>2, NewIsEmpty DEF ExecutorInv, ExecutorPlace

\* The run goes through triggers, reached nodes and the end of each loop.
LEMMA ExecutorStep == ExecutorInv /\ Runs!ExecutorNext => ExecutorInv'
<1> SUFFICES ASSUME ExecutorInv, Runs!ExecutorNext PROVE ExecutorInv'
  OBVIOUS
<1>1. /\ workflow \in Workflows /\ execution \in RunRecord /\ frames \in Seq(SUBSET WorkflowNodes)
      /\ PathTells(execution) /\ ExecutorPlace
  BY DEF ExecutorInv
<1>2. workflow' = workflow /\ executors' = executors
  BY DEF Runs!ExecutorNext, Runs!RunWorkflow, Runs!executeNode, Runs!ReturnFromNode, Runs!FinishWorkflow
<1>3. ASSUME NEW e \in RunRecord, NEW F \in Seq(SUBSET WorkflowNodes), execution' = e, frames' = F,
             PathTells(e), executorPc' \in {"run", "done"},
             executorPc' = "run" => e.status = "running" /\ LoopsHold(e, F),
             e.status = "completed" => executorPc' = "done" /\ F = <<>> /\ LoopsHold(e, F)
      PROVE  ExecutorInv'
  <2>1. PathTells(execution)'
    BY <1>2, <1>3 DEF PathTells, Before
  <2>2. LoopsHold(e, F) => LoopsHold(execution, frames)'
    BY <1>2, <1>3 DEF LoopsHold, Due, After, InLoop
  <2>3. execution' \in RunRecord /\ frames' \in Seq(SUBSET WorkflowNodes) /\ workflow' \in Workflows
    BY <1>1, <1>2, <1>3
  <2>4. ExecutorPlace'
    BY <1>3, <2>2 DEF ExecutorPlace
  <2> QED
    BY <2>1, <2>3, <2>4 DEF ExecutorInv, RunRecord, NodesRun
<1>4. CASE Runs!RunWorkflow
  <2>1. executorPc = "start" /\ execution = Runs!NewExecution /\ frames = <<>>
    BY <1>1, <1>4 DEF Runs!RunWorkflow, ExecutorPlace
  <2>2. PICK s : s = Runs!Start(execution).e
    OBVIOUS
  <2>3. /\ s \in RunRecord /\ s.nodes = execution.nodes /\ s.path = execution.path /\ s.status = "running"
    <3>1. s = Runs!Move(execution, {"pending"}, "running").e
      BY <2>2 DEF Runs!Start
    <3>2. "running" \in Runs!ExecutionStatuses /\ execution.status \in {"pending"}
      BY <2>1, NewIsEmpty DEF Runs!ExecutionStatuses
    <3> QED
      BY <1>1, <3>1, <3>2, StatusMoved
  <2>4. CASE Runs!findNodesByType("trigger") = {}
    <3>1. PICK f : f = Runs!Fail(s).e
      OBVIOUS
    <3>2. execution' = f /\ executorPc' = "done" /\ frames' = frames
      BY <1>4, <2>2, <2>4, <3>1 DEF Runs!RunWorkflow
    <3>3. f \in RunRecord /\ f.nodes = execution.nodes /\ f.path = execution.path /\ f.status = "failed"
      <4>1. f = Runs!Move(s, {"running", "pending"}, "failed").e
        BY <3>1 DEF Runs!Fail
      <4>2. "failed" \in Runs!ExecutionStatuses /\ s.status \in {"running", "pending"}
        BY <2>3 DEF Runs!ExecutionStatuses
      <4> QED
        BY <2>3, <4>1, <4>2, StatusMoved
    <3>4. PathTells(f)
      BY <1>1, <3>3, PathSame
    <3> QED
      BY <1>1, <1>3, <3>2, <3>3, <3>4
  <2>5. CASE Runs!findNodesByType("trigger") # {}
    <3>1. PICK T : T = Runs!findNodesByType("trigger")
      OBVIOUS
    <3>2. execution' = s /\ executorPc' = "run" /\ frames' = <<T>>
      BY <1>4, <2>2, <2>5, <3>1 DEF Runs!RunWorkflow
    <3>3. T \in SUBSET WorkflowNodes /\ \A n \in WorkflowNodes : n \in T <=> workflow.type[n] = "trigger"
      BY <3>1 DEF Runs!findNodesByType
    <3>4. <<T>> \in Seq(SUBSET WorkflowNodes) /\ Len(<<T>>) = 1 /\ <<T>>[1] = T
      BY <3>3
    <3>5. \A n : InLoop(<<T>>, n) <=> n \in T
      BY <3>4 DEF InLoop
    <3>6. \A n : Due(s, n) <=> workflow.type[n] = "trigger"
      BY <2>1, <2>3, NewIsEmpty DEF Due, After
    <3>7. LoopsHold(s, <<T>>)
      BY <3>3, <3>5, <3>6 DEF LoopsHold
    <3>8. PathTells(s)
      BY <1>1, <2>3, PathSame
    <3> QED
      BY <1>3, <2>3, <3>2, <3>4, <3>7, <3>8
  <2> QED
    BY <2>4, <2>5
<1>5. CASE \E n \in WorkflowNodes : Runs!executeNode(n)
  <2>1. PICK n \in WorkflowNodes : Runs!executeNode(n)
    BY <1>5
  <2>2. /\ executorPc = "run" /\ executorPc' = "run" /\ frames # <<>> /\ n \in frames[Len(frames)]
    BY <2>1 DEF Runs!executeNode, Runs!Loop
  <2>3. execution.status = "running" /\ LoopsHold(execution, frames)
    BY <1>1, <2>2 DEF ExecutorPlace
  <2>4. InLoop(frames, n)
    <3>1. Len(frames) \in 1..Len(frames)
      BY <1>1, <2>2, EmptySeq
    <3> QED
      BY <2>2, <3>1 DEF InLoop
  <2>5. PICK G : G = TakenOff(frames, n)
    OBVIOUS
  <2>6. Runs!Advanced(n) = G
    BY <2>5 DEF Runs!Advanced, TakenOff
  <2>7. /\ G \in Seq(SUBSET WorkflowNodes)
        /\ \A m : InLoop(G, m) => InLoop(frames, m)
        /\ \A m : InLoop(frames, m) => InLoop(G, m) \/ m = n
    <3>1. frames \in Seq(SUBSET WorkflowNodes) /\ frames # <<>>
      BY <1>1, <2>2
    <3> QED
      BY <2>5, <3>1, LoopTakes
  <2>8. Due(execution, n)
    BY <2>3, <2>4 DEF LoopsHold
  <2>9. CASE n \in DOMAIN execution.nodes \/ workflow.type[n] \notin executors
    <3>1. execution' = execution /\ frames' = G
      BY <2>1, <2>6, <2>9 DEF Runs!executeNode
    <3>2. LoopsHold(execution, G)
      BY <2>3, <2>7, <2>9 DEF LoopsHold
    <3> QED
      BY <1>1, <1>3, <2>2, <2>3, <2>7, <3>1, <3>2
  <2>10. CASE n \notin DOMAIN execution.nodes /\ workflow.type[n] \in executors
    <3>1. PICK st : st = Runs!StartNodeExecution(execution, n)
      OBVIOUS
    <3>2. PICK c : c = Runs!CompleteNodeExecution(st.e, n).e
      OBVIOUS
    <3>3. PICK f : f = Runs!FailNodeExecution(st.e, n).e
      OBVIOUS
    <3>4. st.ok /\ RanTo(execution, c, n, "completed") /\ RanTo(execution, f, n, "failed")
      BY <1>1, <2>3, <2>10, <3>1, <3>2, <3>3, NodeRuns
    <3>5. \/ execution' = c /\ frames' = Append(G, Runs!findDownstreamNodes(n))
          \/ execution' = f /\ frames' = G
      BY <2>1, <2>6, <2>10, <3>1, <3>2, <3>3, <3>4 DEF Runs!executeNode
    <3>6. CASE execution' = c /\ frames' = Append(G, Runs!findDownstreamNodes(n))
      <4>1. PICK S : S = Runs!findDownstreamNodes(n)
        OBVIOUS
      <4>2. S \in SUBSET WorkflowNodes /\ \A m \in WorkflowNodes : m \in S <=> <<n, m>> \in workflow.connections
        BY <4>1 DEF Runs!findDownstreamNodes
      <4>3. PICK H : H = Append(G, S)
        OBVIOUS
      <4>4. H \in Seq(SUBSET WorkflowNodes) /\ \A m : InLoop(H, m) <=> InLoop(G, m) \/ m \in S
        BY <2>7, <4>2, <4>3, LoopAdded
      <4>5. c \in RunRecord /\ c.status = "running" /\ DOMAIN c.nodes = DOMAIN execution.nodes \cup {n}
            /\ c.nodes[n] = "completed"
        BY <2>3, <3>4 DEF RanTo, NodeAt
      <4>6. /\ PathTells(c)
            /\ \A m : Due(execution, m) => Due(c, m)
            /\ \A m : Due(c, m) => Due(execution, m) \/ <<n, m>> \in workflow.connections
        BY <1>1, <2>8, <2>10, <3>4, PathRan
      <4>7. \A m : <<n, m>> \in workflow.connections => Due(c, m)
        BY <4>5 DEF Due, After
      <4>8. LoopsHold(c, H)
        <5>1. ASSUME NEW m, InLoop(H, m) PROVE m \in WorkflowNodes /\ Due(c, m)
          <6>1. CASE m \in S
            BY <4>2, <4>7, <6>1
          <6>2. CASE InLoop(frames, m)
            BY <2>3, <4>6, <6>2 DEF LoopsHold
          <6> QED
            BY <2>7, <4>4, <5>1, <6>1, <6>2
        <5>2. ASSUME NEW m \in WorkflowNodes, Due(c, m)
              PROVE  m \in DOMAIN c.nodes \/ workflow.type[m] \notin executors \/ InLoop(H, m)
          <6>1. CASE <<n, m>> \in workflow.connections
            BY <4>2, <4>4, <6>1
          <6>2. CASE Due(execution, m)
            <7>1. m \in DOMAIN execution.nodes \/ workflow.type[m] \notin executors \/ InLoop(frames, m)
              BY <2>3, <6>2 DEF LoopsHold
            <7> QED
              BY <2>7, <4>4, <4>5, <7>1
          <6> QED
            BY <4>6, <5>2, <6>1, <6>2
        <5> QED
          BY <5>1, <5>2 DEF LoopsHold
      <4>9. execution' = c /\ frames' = H
        BY <3>6, <4>1, <4>3
      <4> QED
        BY <1>3, <2>2, <4>4, <4>5, <4>6, <4>8, <4>9
    <3>7. CASE execution' = f /\ frames' = G
      <4>1. f \in RunRecord /\ f.status = "running" /\ DOMAIN f.nodes = DOMAIN execution.nodes \cup {n}
        BY <2>3, <3>4 DEF RanTo, NodeAt
      <4>2. /\ PathTells(f)
            /\ \A m : Due(execution, m) => Due(f, m)
            /\ \A m : Due(f, m) => Due(execution, m)
        <5>1. /\ PathTells(f)
              /\ \A m : Due(execution, m) => Due(f, m)
              /\ \A m : Due(f, m) => Due(execution, m) \/ ("failed" = "completed" /\ <<n, m>> \in workflow.connections)
          BY <1>1, <2>8, <2>10, <3>4, PathRan
        <5> QED
          BY <5>1
      <4>3. LoopsHold(f, G)
        BY <2>3, <2>7, <4>1, <4>2 DEF LoopsHold
      <4> QED
        BY <1>3, <2>2, <2>7, <3>7, <4>1, <4>2, <4>3
    <3> QED
      BY <3>5, <3>6, <3>7
  <2> QED
    BY <2>9, <2>10
<1>6. CASE Runs!ReturnFromNode
  <2>1. PICK G : G = SubSeq(frames, 1, Len(frames) - 1)
    OBVIOUS
  <2>2. /\ executorPc = "run" /\ executorPc' = "run" /\ execution' = execution /\ frames' = G
        /\ frames # <<>> /\ frames[Len(frames)] = {}
    BY <1>6, <2>1 DEF Runs!ReturnFromNode, Runs!Loop
  <2>3. execution.status = "running" /\ LoopsHold(execution, frames)
    BY <1>1, <2>2 DEF ExecutorPlace
  <2>4. G \in Seq(SUBSET WorkflowNodes) /\ \A m : InLoop(G, m) <=> InLoop(frames, m)
    BY <1>1, <2>1, <2>2, LoopLeft
  <2>5. LoopsHold(execution, G)
    BY <2>3, <2>4 DEF LoopsHold
  <2> QED
    BY <1>1, <1>3, <2>2, <2>3, <2>4, <2>5
<1>7. CASE Runs!FinishWorkflow
  <2>1. PICK c : c = Runs!Complete(execution).e
    OBVIOUS
  <2>2. executorPc = "run" /\ executorPc' = "done" /\ frames = <<>> /\ frames' = frames /\ execution' = c
    BY <1>7, <2>1 DEF Runs!FinishWorkflow
  <2>3. execution.status = "running" /\ LoopsHold(execution, frames)
    BY <1>1, <2>2 DEF ExecutorPlace
  <2>4. c \in RunRecord /\ c.nodes = execution.nodes /\ c.path = execution.path
    <3>1. c = Runs!Move(execution, {"running"}, "completed").e
      BY <2>1 DEF Runs!Complete
    <3>2. "completed" \in Runs!ExecutionStatuses
      BY DEF Runs!ExecutionStatuses
    <3> QED
      BY <1>1, <3>1, <3>2, StatusMoved
  <2>5. PathTells(c) /\ LoopsHold(c, frames)
    BY <1>1, <2>3, <2>4, PathSame
  <2> QED
    BY <1>1, <1>3, <2>2, <2>4, <2>5
<1> QED
  BY <1>4, <1>5, <1>6, <1>7 DEF Runs!ExecutorNext

\* What the executor promises follows: when it is done no loop holds a node.
LEMMA WhatItReaches == ExecutorInv => Runs!StartsWhatItReaches
<1> SUFFICES ASSUME ExecutorInv PROVE Runs!StartsWhatItReaches
  OBVIOUS
<1>1. /\ execution \in RunRecord /\ PathTells(execution) /\ ExecutorPlace
  BY DEF ExecutorInv
<1>2. execution.path \in Seq(WorkflowNodes)
  BY <1>1 DEF RunRecord
<1>3. PICK l \in Nat : l = Len(execution.path)
  BY <1>2
<1>4. DOMAIN execution.path = 1..l
  BY <1>2, <1>3
<1>5. \A n, i : Runs!CompletedBefore(n, i) <=> Before(execution, n, i)
  BY DEF Runs!CompletedBefore, Before
<1>6. /\ \A n : n \in DOMAIN execution.nodes <=> \E i \in 1..l : execution.path[i] = n
      /\ \A i, j \in 1..l : execution.path[i] = execution.path[j] => i = j
      /\ \A i \in 1..l : workflow.type[execution.path[i]] = "trigger" \/ Before(execution, execution.path[i], i)
      /\ \A n \in DOMAIN execution.nodes : workflow.type[n] \in executors
  BY <1>1, <1>3 DEF PathTells
<1>7. \A n : Before(execution, n, l + 1) <=> After(execution, n)
  <2>1. (l + 1) - 1 = l
    OBVIOUS
  <2> QED
    BY <1>6, <2>1 DEF Before, After
<1>8. ASSUME NEW i \in 1..l, NEW n, Before(execution, n, i) PROVE Before(execution, n, l + 1)
  BY <1>8 DEF Before
<1>9. \A i \in DOMAIN execution.path :
        /\ \A j \in DOMAIN execution.path : execution.path[j] = execution.path[i] => i = j
        /\ workflow.type[execution.path[i]] = "trigger" \/ Runs!CompletedBefore(execution.path[i], i)
  BY <1>4, <1>5, <1>6
<1>10. ASSUME execution.status = "completed", NEW n \in WorkflowNodes
       PROVE  n \in DOMAIN execution.nodes <=>
                /\ workflow.type[n] \in executors
                /\ workflow.type[n] = "trigger" \/ Runs!CompletedBefore(n, l + 1)
  <2>1. frames = <<>> /\ LoopsHold(execution, frames)
    BY <1>1, <1>10 DEF ExecutorPlace
  <2>2. ~InLoop(frames, n)
    <3>1. Len(<<>>) = 0
      OBVIOUS
    <3> QED
      BY <2>1, <3>1 DEF InLoop
  <2>3. Due(execution, n) => n \in DOMAIN execution.nodes \/ workflow.type[n] \notin executors
    BY <2>1, <2>2 DEF LoopsHold
  <2>4. Due(execution, n) <=> workflow.type[n] = "trigger" \/ Before(execution, n, l + 1)
    BY <1>7 DEF Due
  <2>5. n \in DOMAIN execution.nodes => workflow.type[n] \in executors /\ Due(execution, n)
    <3> SUFFICES ASSUME n \in DOMAIN execution.nodes PROVE Due(execution, n)
      BY <1>6
    <3>1. PICK i \in 1..l : execution.path[i] = n
      BY <1>6
    <3>2. workflow.type[n] = "trigger" \/ Before(execution, n, i)
      BY <1>6, <3>1
    <3> QED
      BY <1>8, <2>4, <3>2
  <2> QED
    BY <1>5, <2>3, <2>4, <2>5
<1> QED
  BY <1>3, <1>9, <1>10 DEF Runs!StartsWhatItReaches, Runs!Started

----------------------------------------------------------------------------
(* The engine's scheduler: while no two calls meet on a schedule, its      *)
(* cron entry is where the one call under way, or the map, says.           *)

CallPlaces == {"idle", "enable", "addfunc", "name", "add"}

CallsInv ==
  /\ pc \in [CronCallers -> [op : CallPlaces, id : EngineSchedules \cup {None}, entry : Nat]]
  /\ \A c \in CronCallers : pc[c].op # "idle" => pc[c].id \in EngineSchedules

\* EntryIDs are given out once: a number that an object or a caller holds is
\* that of no other schedule's entry.
EntriesInv ==
  /\ entryOf \in [EngineSchedules -> Nat] /\ lastEntry \in Nat /\ entries \subseteq Nat \X EngineSchedules
  /\ \A e \in entries : e[1] <= lastEntry
  /\ \A id \in EngineSchedules : entryOf[id] <= lastEntry
  /\ \A c \in CronCallers : pc[c].entry <= lastEntry
  /\ \A e \in entries, id \in EngineSchedules : e[1] # 0 /\ (e[1] = entryOf[id] => e[2] = id)
  /\ \A e \in entries, c \in CronCallers : pc[c].op = "name" /\ e[1] = pc[c].entry => e[2] = pc[c].id

At(c, id) == pc[c].op # "idle" /\ pc[c].id = id
EntriesOf(id) == {e \in entries : e[2] = id}
EntryAt(c) ==
  IF pc[c].op = "name" THEN {<<pc[c].entry, pc[c].id>>}
  ELSE IF pc[c].op = "add" THEN {<<entryOf[pc[c].id], pc[c].id>>} ELSE {}
EntryOn(id) == IF id \in schedules THEN {<<entryOf[id], id>>} ELSE {}

Accounted(id) ==
  id \notin overlapped =>
    /\ \A c, d \in CronCallers : At(c, id) /\ At(d, id) => c = d
    /\ \A c \in CronCallers : At(c, id) => id \notin schedules /\ EntriesOf(id) = EntryAt(c)
    /\ (\A c \in CronCallers : ~At(c, id)) => EntriesOf(id) = EntryOn(id)

\* While Start loads, nobody calls, and what is yet to load is not in the map.
Loading ==
  toLoad # {} => /\ \A c \in CronCallers : pc[c].op = "idle"
                 /\ toLoad \cap schedules = {}

CronInv == CallsInv /\ EntriesInv /\ Loading /\ \A id \in EngineSchedules : Accounted(id)

\* What a step does not touch stays accounted for.
Untouched(id) ==
  /\ EntriesOf(id)' = EntriesOf(id) /\ entryOf'[id] = entryOf[id]
  /\ id \in schedules' <=> id \in schedules
  /\ id \in overlapped => id \in overlapped'
  /\ \A c \in CronCallers : (At(c, id) \/ At(c, id)') => pc'[c] = pc[c]

LEMMA AccountKept ==
  ASSUME NEW id \in EngineSchedules, Accounted(id), Untouched(id)
  PROVE  Accounted(id)'
<1>1. \A c \in CronCallers : At(c, id)' <=> At(c, id)
  BY DEF Untouched, At
<1>2. \A c \in CronCallers : At(c, id) => EntryAt(c)' = EntryAt(c)
  BY DEF Untouched, At, EntryAt
<1>3. EntryOn(id)' = EntryOn(id)
  BY DEF Untouched, EntryOn
<1> QED
  BY <1>1, <1>2, <1>3 DEF Accounted, Untouched

\* A caller that goes on, with a number that was given out to it.
CallGoes(c, op, id, n) == pc' = [pc EXCEPT ![c] = [op |-> op, id |-> id, entry |-> n]]

LEMMA CallsGo ==
  ASSUME CallsInv, NEW c \in CronCallers, NEW op \in CallPlaces, NEW id \in EngineSchedules \cup {None}, NEW n \in Nat,
         op # "idle" => id \in EngineSchedules, CallGoes(c, op, id, n)
  PROVE  /\ CallsInv'
         /\ pc'[c].op = op /\ pc'[c].id = id /\ pc'[c].entry = n
         /\ \A d \in CronCallers : d # c => pc'[d] = pc[d]
<1>1. PICK r \in [op : CallPlaces, id : EngineSchedules \cup {None}, entry : Nat] :
        r = [op |-> op, id |-> id, entry |-> n]
  OBVIOUS
<1>2. r.op = op /\ r.id = id /\ r.entry = n
  BY <1>1
<1>3. pc' = [pc EXCEPT ![c] = r]
  BY <1>1 DEF CallGoes
<1>4. pc'[c] = r /\ \A d \in CronCallers : d # c => pc'[d] = pc[d]
  BY <1>3 DEF CallsInv
<1>5. pc' \in [CronCallers -> [op : CallPlaces, id : EngineSchedules \cup {None}, entry : Nat]]
  BY <1>3 DEF CallsInv
<1> QED
  BY <1>2, <1>4, <1>5 DEF CallsInv

\* Entries that are dropped, and callers whose numbers are not new.
LEMMA EntriesKept ==
  ASSUME EntriesInv, CallsInv', entryOf' = entryOf, lastEntry' = lastEntry, entries' \subseteq entries,
         \A c \in CronCallers : pc'[c] = pc[c] \/ (pc'[c].op # "name" /\ pc'[c].entry = 0)
  PROVE  EntriesInv'
<1>1. \A c \in CronCallers : pc'[c].entry <= lastEntry
  BY DEF EntriesInv
<1>2. \A c \in CronCallers : pc'[c].op = "name" => pc'[c] = pc[c]
  OBVIOUS
<1> QED
  BY <1>1, <1>2 DEF EntriesInv

\* Removing the entry that a schedule names leaves the others theirs.
LEMMA RemovedIsItsOwn ==
  ASSUME EntriesInv, NEW id \in EngineSchedules
  PROVE  /\ Cron!Removed(id) \subseteq entries
         /\ \A x \in EngineSchedules : x # id =>
              {e \in Cron!Removed(id) : e[2] = x} = EntriesOf(x)
         /\ EntriesOf(id) = {<<entryOf[id], id>>} => {e \in Cron!Removed(id) : e[2] = id} = {}
BY DEF Cron!Removed, EntriesOf, EntriesInv

\* No entry has been given out yet.
LEMMA CronInit == Cron!Init => CronInv
<1> SUFFICES ASSUME Cron!Init PROVE CronInv
  OBVIOUS
<1>1. \A c \in CronCallers : pc[c].op = "idle" /\ pc[c].id = None /\ pc[c].entry = 0
  BY DEF Cron!Init, Cron!Idle
<1>2. CallsInv
  BY <1>1 DEF CallsInv, CallPlaces, Cron!Init, Cron!Idle
<1>3. EntriesInv
  BY <1>1 DEF EntriesInv, Cron!Init
<1>4. \A id \in EngineSchedules : Accounted(id)
  BY <1>1 DEF Accounted, At, EntriesOf, EntryOn, Cron!Init
<1>5. Loading
  BY <1>1 DEF Loading, Cron!Init
<1> QED
  BY <1>2, <1>3, <1>4, <1>5 DEF CronInv

\* A call that begins on a schedule finds no other there, or is noted.
LEMMA Began ==
  ASSUME NEW id \in EngineSchedules, NEW adding \in BOOLEAN, Cron!Begin(id, adding)
  PROVE  /\ overlapped \subseteq overlapped'
         /\ \A x \in EngineSchedules : x # id => (x \in overlapped' <=> x \in overlapped)
         /\ id \notin overlapped' => /\ id \notin overlapped
                                     /\ \A c \in CronCallers : ~At(c, id)
                                     /\ adding => id \notin schedules
BY DEF Cron!Begin, Cron!UnderWay, At

\* Before a call that is not noted, the map says which entry there is.
LEMMA AtRest ==
  ASSUME NEW id \in EngineSchedules, Accounted(id), id \notin overlapped, \A c \in CronCallers : ~At(c, id)
  PROVE  EntriesOf(id) = EntryOn(id)
BY DEF Accounted

\* A call that takes the schedule out of the map and its entry out of the cron.
TakenOut(id) ==
  /\ entries' = (IF id \in schedules THEN Cron!Removed(id) ELSE entries)
  /\ schedules' = schedules \ {id} /\ entryOf' = entryOf /\ lastEntry' = lastEntry

LEMMA OthersStay ==
  ASSUME CronInv, NEW id \in EngineSchedules, NEW adding \in BOOLEAN, Cron!Begin(id, adding),
         \/ TakenOut(id)
         \/ UNCHANGED <<entries, schedules, entryOf, lastEntry>>,
         \A c \in CronCallers : pc'[c] = pc[c] \/ (pc[c].op = "idle" /\ pc'[c].id = id)
  PROVE  \A x \in EngineSchedules : x # id => Accounted(x)'
<1> SUFFICES ASSUME NEW x \in EngineSchedules, x # id PROVE Accounted(x)'
  OBVIOUS
<1>1. EntriesOf(x)' = EntriesOf(x)
  <2>1. CASE TakenOut(id) /\ id \in schedules
    <3>1. entries' = Cron!Removed(id)
      BY <2>1 DEF TakenOut
    <3> QED
      BY <3>1, RemovedIsItsOwn DEF EntriesOf, CronInv
  <2> QED
    BY <2>1 DEF TakenOut, EntriesOf
<1>2. entryOf'[x] = entryOf[x] /\ (x \in schedules' <=> x \in schedules) /\ (x \in overlapped => x \in overlapped')
  BY Began DEF TakenOut
<1>3. \A c \in CronCallers : (At(c, x) \/ At(c, x)') => pc'[c] = pc[c]
  BY DEF At
<1>4. Untouched(x) /\ Accounted(x)
  BY <1>1, <1>2, <1>3 DEF Untouched, CronInv
<1> QED
  BY <1>4, AccountKept

LEMMA ItselfTakenOut ==
  ASSUME CronInv, NEW id \in EngineSchedules, NEW adding \in BOOLEAN, Cron!Begin(id, adding), TakenOut(id),
         id \notin overlapped'
  PROVE  EntriesOf(id)' = {} /\ id \notin schedules' /\ \A c \in CronCallers : ~At(c, id)
<1>1. id \notin overlapped /\ \A c \in CronCallers : ~At(c, id)
  BY Began
<1>2. EntriesOf(id) = EntryOn(id)
  BY <1>1, AtRest DEF CronInv
<1>3. CASE id \in schedules
  BY <1>1, <1>2, <1>3, RemovedIsItsOwn DEF TakenOut, EntriesOf, EntryOn, CronInv
<1>4. CASE id \notin schedules
  BY <1>1, <1>2, <1>4 DEF TakenOut, EntriesOf, EntryOn
<1> QED
  BY <1>3, <1>4

\* A schedule of which nothing is left but a call that has yet to add it.
LEMMA AccountEmpty ==
  ASSUME NEW id \in EngineSchedules,
         id \notin overlapped' =>
           /\ EntriesOf(id)' = {} /\ id \notin schedules'
           /\ \A c \in CronCallers : At(c, id)' => pc'[c].op \in {"enable", "addfunc"}
           /\ \A c, d \in CronCallers : At(c, id)' /\ At(d, id)' => c = d
  PROVE  Accounted(id)'
<1>1. \A c \in CronCallers : pc'[c].op \in {"enable", "addfunc"} => EntryAt(c)' = {}
  BY DEF EntryAt
<1>2. id \notin schedules' => EntryOn(id)' = {}
  BY DEF EntryOn
<1> QED
  BY <1>1, <1>2 DEF Accounted

\* The operations: each leaves the other schedules alone, and its own without
\* an entry or as it was (engine/scheduler.go:110-238).
LEMMA CronCalls ==
  ASSUME CronInv, NEW c \in CronCallers, NEW id \in EngineSchedules, NEW on \in BOOLEAN,
         \/ Cron!CreateSchedule(c, id, on) \/ Cron!UpdateSchedule(c, id, on)
         \/ Cron!DeleteSchedule(c, id) \/ Cron!EnableSchedule(c, id) \/ Cron!DisableSchedule(c, id)
  PROVE  CronInv'
<1>1. /\ CallsInv /\ EntriesInv /\ Loading
      /\ \A x \in EngineSchedules : Accounted(x)
  BY DEF CronInv
<1>2. pc[c].op = "idle" /\ toLoad' = {}
  <2>1. pc[c] = Cron!Idle /\ toLoad' = {}
    BY DEF Cron!CreateSchedule, Cron!UpdateSchedule, Cron!DeleteSchedule, Cron!EnableSchedule,
           Cron!DisableSchedule, Cron!Free
  <2> QED
    BY <2>1 DEF Cron!Idle
<1>3. PICK adding \in BOOLEAN : Cron!Begin(id, adding) /\ (adding <=> Cron!CreateSchedule(c, id, on) \/ Cron!EnableSchedule(c, id))
  <2>1. CASE Cron!CreateSchedule(c, id, on) \/ Cron!EnableSchedule(c, id)
    BY <2>1 DEF Cron!CreateSchedule, Cron!EnableSchedule
  <2>2. CASE ~(Cron!CreateSchedule(c, id, on) \/ Cron!EnableSchedule(c, id))
    BY <2>2 DEF Cron!UpdateSchedule, Cron!DeleteSchedule, Cron!DisableSchedule
  <2> QED
    BY <2>1, <2>2
<1>4. /\ adding => UNCHANGED <<entries, schedules, entryOf, lastEntry>>
      /\ ~adding => TakenOut(id)
  BY <1>3 DEF Cron!CreateSchedule, Cron!UpdateSchedule, Cron!DeleteSchedule, Cron!EnableSchedule,
              Cron!DisableSchedule, Cron!cronVars, TakenOut
<1>5. pc' = pc \/ CallGoes(c, "addfunc", id, 0) \/ CallGoes(c, "enable", id, 0)
  BY DEF Cron!CreateSchedule, Cron!UpdateSchedule, Cron!DeleteSchedule, Cron!EnableSchedule,
         Cron!DisableSchedule, Cron!Goto, CallGoes
<1>6. /\ CallsInv'
      /\ \A d \in CronCallers : d # c => pc'[d] = pc[d]
      /\ \/ pc' = pc
         \/ pc'[c].op \in {"addfunc", "enable"} /\ pc'[c].id = id /\ pc'[c].entry = 0
  <2>1. CASE pc' = pc
    BY <1>1, <2>1 DEF CallsInv
  <2>2. CASE CallGoes(c, "addfunc", id, 0)
    BY <1>1, <2>2, CallsGo DEF CallPlaces
  <2>3. CASE CallGoes(c, "enable", id, 0)
    BY <1>1, <2>3, CallsGo DEF CallPlaces
  <2> QED
    BY <1>5, <2>1, <2>2, <2>3
<1>7. EntriesInv'
  <2>1. entries' \subseteq entries /\ entryOf' = entryOf /\ lastEntry' = lastEntry
    BY <1>1, <1>4, RemovedIsItsOwn DEF TakenOut
  <2> QED
    BY <1>1, <1>6, <2>1, EntriesKept
<1>8. \A x \in EngineSchedules : x # id => Accounted(x)'
  BY <1>2, <1>3, <1>4, <1>6, OthersStay
<1>9. Accounted(id)'
  <2>1. ASSUME id \notin overlapped'
        PROVE  /\ EntriesOf(id)' = {} /\ id \notin schedules'
               /\ \A d \in CronCallers : ~At(d, id)
    <3>1. CASE adding
      <4>1. id \notin overlapped /\ id \notin schedules /\ \A d \in CronCallers : ~At(d, id)
        BY <1>3, <2>1, <3>1, Began
      <4>2. EntriesOf(id) = {}
        BY <1>1, <4>1, AtRest DEF EntryOn
      <4> QED
        BY <1>4, <3>1, <4>1, <4>2 DEF EntriesOf
    <3>2. CASE ~adding
      BY <1>3, <1>4, <2>1, <3>2, ItselfTakenOut
    <3> QED
      BY <3>1, <3>2
  <2>2. ASSUME id \notin overlapped', NEW d \in CronCallers, At(d, id)'
        PROVE  d = c /\ pc'[d].op \in {"enable", "addfunc"}
    BY <1>6, <2>1, <2>2 DEF At
  <2> QED
    BY <2>1, <2>2, AccountEmpty
<1>10. Loading'
  BY <1>2 DEF Loading
<1> QED
  BY <1>1, <1>6, <1>7, <1>8, <1>9, <1>10 DEF CronInv

\* A step of c that leaves c at its schedule or ends its call.
LEMMA CallerMoves ==
  ASSUME CronInv, NEW c \in CronCallers, NEW id \in EngineSchedules, id = pc[c].id, pc[c].op # "idle",
         toLoad' = toLoad, overlapped' = overlapped,
         NEW op \in CallPlaces, NEW i \in {id, None}, NEW n \in Nat, CallGoes(c, op, i, n), op # "idle" => i = id,
         \A x \in EngineSchedules : x # id =>
           EntriesOf(x)' = EntriesOf(x) /\ entryOf'[x] = entryOf[x] /\ (x \in schedules' <=> x \in schedules),
         EntriesInv',
         id \notin overlapped =>
           \/ op # "idle" /\ id \notin schedules' /\ EntriesOf(id)' = EntryAt(c)'
           \/ op = "idle" /\ EntriesOf(id)' = EntryOn(id)'
  PROVE  CronInv'
<1>1. /\ CallsInv /\ EntriesInv /\ Loading
      /\ \A x \in EngineSchedules : Accounted(x)
  BY DEF CronInv
<1>2. i \in EngineSchedules \cup {None}
  OBVIOUS
<1>3. /\ CallsInv'
      /\ pc'[c].op = op /\ pc'[c].id = i
      /\ \A d \in CronCallers : d # c => pc'[d] = pc[d]
  BY <1>1, <1>2, CallsGo
<1>4. ASSUME NEW x \in EngineSchedules, x # id PROVE Accounted(x)'
  <2>1. \A d \in CronCallers : (At(d, x) \/ At(d, x)') => pc'[d] = pc[d]
    BY <1>3, <1>4 DEF At
  <2>2. Untouched(x)
    BY <1>4, <2>1 DEF Untouched
  <2> QED
    BY <1>1, <2>2, AccountKept
<1>5. Accounted(id)'
  <2>1. At(c, id)
    BY DEF At
  <2>2. id \notin overlapped => \A d \in CronCallers : d # c => ~At(d, id)
    BY <1>1, <2>1 DEF Accounted
  <2>3. \A d \in CronCallers : d # c => (At(d, id)' <=> At(d, id))
    BY <1>3 DEF At
  <2>4. At(c, id)' <=> op # "idle"
    BY <1>3 DEF At
  <2>5. ASSUME id \notin overlapped PROVE \A d \in CronCallers : At(d, id)' => d = c
    BY <2>2, <2>3, <2>5
  <2>6. CASE op = "idle"
    BY <2>4, <2>5, <2>6 DEF Accounted
  <2>7. CASE op # "idle"
    BY <2>4, <2>5, <2>7 DEF Accounted
  <2> QED
    BY <2>6, <2>7
<1>6. Loading'
  BY <1>1 DEF Loading
<1> QED
  BY <1>1, <1>3, <1>4, <1>5, <1>6 DEF CronInv

\* An EntryID that the cron has not given out yet, for a new entry of id.
LEMMA EntryNew ==
  ASSUME EntriesInv, NEW id \in EngineSchedules,
         lastEntry' = lastEntry + 1, entries' = entries \cup {<<lastEntry + 1, id>>}
  PROVE  /\ lastEntry \in Nat /\ lastEntry + 1 \in Nat /\ entries' \subseteq Nat \X EngineSchedules
         /\ \A e \in entries' : e[1] <= lastEntry'
         /\ \A e \in entries' : e[1] # 0
         /\ \A e \in entries' : e[1] = lastEntry + 1 => e[2] = id
         /\ \A x \in EngineSchedules : x # id => EntriesOf(x)' = EntriesOf(x)
         /\ EntriesOf(id) = {} => EntriesOf(id)' = {<<lastEntry + 1, id>>}
<1> DEFINE new == <<lastEntry + 1, id>>
<1>1. lastEntry \in Nat /\ entries \subseteq Nat \X EngineSchedules
  BY DEF EntriesInv
<1>2. new[1] = lastEntry + 1 /\ new[2] = id /\ new \in Nat \X EngineSchedules
  BY <1>1
<1>3. \A e \in entries : e[1] \in Nat /\ e[1] <= lastEntry /\ e[1] # 0
  BY <1>1 DEF EntriesInv
<1>4. entries' = entries \cup {new}
  OBVIOUS
<1> HIDE DEF new
<1>5. \A e \in entries' : e[1] <= lastEntry' /\ e[1] # 0 /\ (e[1] = lastEntry + 1 => e[2] = id)
  BY <1>1, <1>2, <1>3, <1>4
<1>6. \A x \in EngineSchedules : x # id => EntriesOf(x)' = EntriesOf(x)
  BY <1>2, <1>4 DEF EntriesOf
<1>7. EntriesOf(id) = {} => EntriesOf(id)' = {new}
  BY <1>2, <1>4 DEF EntriesOf
<1> QED
  BY <1>1, <1>2, <1>4, <1>5, <1>6, <1>7 DEF new

\* A caller that is given a number and goes on to name it.
LEMMA Given ==
  ASSUME NEW S, NEW r \in [op : CallPlaces, id : S, entry : Nat], NEW n \in Nat
  PROVE  [r EXCEPT !.op = "name", !.entry = n] = [op |-> "name", id |-> r.id, entry |-> n]
<1>1. PICK m : m = [r EXCEPT !.op = "name", !.entry = n]
  OBVIOUS
<1>2. m = [op |-> "name", id |-> r.id, entry |-> n]
  BY <1>1
<1> QED
  BY <1>1, <1>2

\* The steps of addSchedule move the one entry from the caller to the object
\* and from there to the map (engine/scheduler.go:207-217, 282-310).
LEMMA CronSteps ==
  ASSUME CronInv, NEW c \in CronCallers, Cron!CallerStep(c)
  PROVE  CronInv'
<1>1. /\ CallsInv /\ EntriesInv /\ Loading
      /\ \A x \in EngineSchedules : Accounted(x)
  BY DEF CronInv
<1>2. PICK id \in EngineSchedules : id = pc[c].id /\ pc[c].op # "idle"
  BY <1>1 DEF Cron!CallerStep, Cron!AddFunc, Cron!NameEntry, Cron!AddToMap, Cron!EnableUpdate, CallsInv
<1>3. At(c, id) /\ toLoad' = toLoad /\ overlapped' = overlapped
  BY <1>2 DEF At, Cron!CallerStep, Cron!AddFunc, Cron!NameEntry, Cron!AddToMap, Cron!EnableUpdate
<1>4. id \notin overlapped => id \notin schedules /\ EntriesOf(id) = EntryAt(c)
  BY <1>1, <1>3 DEF Accounted
<1>5. pc[c] \in [op : CallPlaces, id : EngineSchedules \cup {None}, entry : Nat]
  BY <1>1 DEF CallsInv
\* A call that ends, or goes on to the next step, with the entries as they are.
<1>6. ASSUME NEW op \in CallPlaces \ {"name"}, NEW i \in {id, None}, CallGoes(c, op, i, 0), op # "idle" => i = id,
             UNCHANGED <<entries, lastEntry, entryOf, schedules>>, pc[c].op \in {"enable", "addfunc"}, op # "add"
      PROVE  CronInv'
  <2>1. i \in EngineSchedules \cup {None} /\ 0 \in Nat
    OBVIOUS
  <2>2. CallsInv' /\ pc'[c].op = op /\ pc'[c].entry = 0 /\ \A d \in CronCallers : d # c => pc'[d] = pc[d]
    BY <1>1, <1>2, <1>6, <2>1, CallsGo
  <2>3. EntriesInv'
    BY <1>1, <1>6, <2>2, EntriesKept
  <2>4. \A x \in EngineSchedules :
          EntriesOf(x)' = EntriesOf(x) /\ entryOf'[x] = entryOf[x] /\ (x \in schedules' <=> x \in schedules)
    BY <1>6 DEF EntriesOf
  <2>5. EntryAt(c) = {} /\ EntryAt(c)' = {}
    BY <1>6, <2>2 DEF EntryAt
  <2>6. id \notin schedules => EntryOn(id)' = {}
    BY <1>6 DEF EntryOn
  <2>7. id \notin overlapped => id \notin schedules' /\ EntriesOf(id)' = {}
    BY <1>4, <1>6, <2>4, <2>5
  <2> QED
    BY <1>2, <1>3, <1>6, <2>3, <2>4, <2>5, <2>6, <2>7, <1>4, CallerMoves
<1>7. Cron!Return(c) => CallGoes(c, "idle", None, 0)
  BY DEF Cron!Return, Cron!Idle, CallGoes
<1>8. CASE Cron!EnableUpdate(c)
  <2>1. UNCHANGED <<entries, lastEntry, entryOf, schedules>> /\ pc[c].op = "enable"
    BY <1>8 DEF Cron!EnableUpdate, Cron!cronVars
  <2>2. CASE Cron!Return(c)
    BY <1>6, <1>7, <2>1, <2>2 DEF CallPlaces
  <2>3. CASE Cron!Goto(c, "addfunc", id)
    <3>1. CallGoes(c, "addfunc", id, 0)
      BY <2>3 DEF Cron!Goto, CallGoes
    <3> QED
      BY <1>6, <2>1, <3>1 DEF CallPlaces
  <2> QED
    BY <1>2, <1>8, <2>2, <2>3 DEF Cron!EnableUpdate
<1>9. CASE Cron!AddFunc(c) /\ Cron!Return(c) /\ UNCHANGED <<entries, lastEntry>>
  <2>1. UNCHANGED <<entries, lastEntry, entryOf, schedules>> /\ pc[c].op = "addfunc"
    BY <1>9 DEF Cron!AddFunc
  <2> QED
    BY <1>6, <1>7, <1>9, <2>1 DEF CallPlaces
<1>10. CASE /\ Cron!AddFunc(c) /\ lastEntry' = lastEntry + 1
            /\ entries' = entries \cup {<<lastEntry + 1, pc[c].id>>}
            /\ pc' = [pc EXCEPT ![c].op = "name", ![c].entry = lastEntry + 1]
  <2>1. UNCHANGED <<entryOf, schedules>> /\ pc[c].op = "addfunc"
    BY <1>10 DEF Cron!AddFunc
  <2>2. entries' = entries \cup {<<lastEntry + 1, id>>} /\ lastEntry' = lastEntry + 1
    BY <1>2, <1>10
  <2>3. /\ lastEntry \in Nat /\ lastEntry + 1 \in Nat /\ entries' \subseteq Nat \X EngineSchedules
        /\ \A e \in entries' : e[1] <= lastEntry'
        /\ \A e \in entries' : e[1] # 0
        /\ \A e \in entries' : e[1] = lastEntry + 1 => e[2] = id
        /\ \A x \in EngineSchedules : x # id => EntriesOf(x)' = EntriesOf(x)
        /\ EntriesOf(id) = {} => EntriesOf(id)' = {<<lastEntry + 1, id>>}
    BY <1>1, <2>2, EntryNew
  <2>4. CallGoes(c, "name", id, lastEntry + 1)
    <3>1. PICK r \in [op : CallPlaces, id : EngineSchedules \cup {None}, entry : Nat] : r = pc[c]
      BY <1>5
    <3>2. PICK n \in Nat : n = lastEntry + 1
      BY <2>3
    <3>3. [r EXCEPT !.op = "name", !.entry = n] = [op |-> "name", id |-> r.id, entry |-> n]
      BY Given
    <3>4. pc' = [pc EXCEPT ![c] = [r EXCEPT !.op = "name", !.entry = n]]
      BY <1>1, <1>10, <3>1, <3>2 DEF CallsInv
    <3> QED
      BY <1>2, <3>1, <3>2, <3>3, <3>4 DEF CallGoes
  <2>5. /\ pc'[c].op = "name" /\ pc'[c].id = id /\ pc'[c].entry = lastEntry + 1
        /\ \A d \in CronCallers : d # c => pc'[d] = pc[d]
    BY <1>1, <2>3, <2>4, CallsGo DEF CallPlaces
  <2>6. EntriesInv'
    <3>1. entryOf' \in [EngineSchedules -> Nat] /\ lastEntry' \in Nat
      BY <1>1, <2>1, <2>2, <2>3 DEF EntriesInv
    <3>2. \A x \in EngineSchedules : entryOf'[x] <= lastEntry'
      BY <1>1, <2>1, <2>2 DEF EntriesInv
    <3>3. \A d \in CronCallers : pc'[d].entry <= lastEntry'
      <4>1. \A d \in CronCallers : pc[d].entry \in Nat /\ pc[d].entry <= lastEntry
        BY <1>1 DEF EntriesInv, CallsInv
      <4> QED
        BY <2>2, <2>3, <2>5, <4>1
    <3>4. ASSUME NEW e \in entries', NEW x \in EngineSchedules PROVE e[1] # 0 /\ (e[1] = entryOf'[x] => e[2] = x)
      <4>1. CASE e \in entries
        BY <1>1, <2>1, <4>1, <2>3 DEF EntriesInv
      <4>2. CASE e = <<lastEntry + 1, id>>
        <5>1. entryOf[x] \in Nat /\ entryOf[x] <= lastEntry
          BY <1>1 DEF EntriesInv
        <5>2. e[1] = lastEntry + 1
          BY <4>2
        <5> QED
          BY <2>1, <2>3, <5>1, <5>2
      <4> QED
        BY <2>2, <4>1, <4>2
    <3>5. ASSUME NEW e \in entries', NEW d \in CronCallers, pc'[d].op = "name", e[1] = pc'[d].entry
          PROVE  e[2] = pc'[d].id
      <4>1. CASE d = c
        BY <2>3, <2>5, <3>5, <4>1
      <4>2. CASE d # c
        <5>1. pc'[d] = pc[d] /\ pc[d].entry \in Nat /\ pc[d].entry <= lastEntry
          BY <1>1, <2>5, <4>2 DEF EntriesInv, CallsInv
        <5>2. CASE e \in entries
          BY <1>1, <3>5, <5>1, <5>2 DEF EntriesInv
        <5>3. CASE e = <<lastEntry + 1, id>>
          BY <2>3, <3>5, <5>1, <5>3
        <5> QED
          BY <2>2, <5>2, <5>3
      <4> QED
        BY <4>1, <4>2
    <3> QED
      BY <2>3, <3>1, <3>2, <3>3, <3>4, <3>5 DEF EntriesInv
  <2>7. EntryAt(c) = {} /\ EntryAt(c)' = {<<lastEntry + 1, id>>}
    BY <2>1, <2>5 DEF EntryAt
  <2>8. \A x \in EngineSchedules : entryOf'[x] = entryOf[x] /\ (x \in schedules' <=> x \in schedules)
    BY <2>1
  <2>9. id \notin overlapped => id \notin schedules' /\ EntriesOf(id)' = EntryAt(c)'
    BY <1>4, <2>3, <2>7, <2>8
  <2> QED
    BY <1>2, <1>3, <2>3, <2>4, <2>6, <2>8, <2>9, CallerMoves DEF CallPlaces
<1>11. CASE Cron!NameEntry(c)
  <2>1. /\ UNCHANGED <<schedules, entries, lastEntry>> /\ pc[c].op = "name"
        /\ entryOf' = [entryOf EXCEPT ![id] = pc[c].entry]
    BY <1>2, <1>11 DEF Cron!NameEntry
  <2>2. CallGoes(c, "add", id, 0)
    BY <1>2, <1>11 DEF Cron!NameEntry, Cron!Goto, CallGoes
  <2>3. /\ pc'[c].op = "add" /\ pc'[c].id = id /\ pc'[c].entry = 0
        /\ \A d \in CronCallers : d # c => pc'[d] = pc[d]
    BY <1>1, <2>2, CallsGo DEF CallPlaces
  <2>4. /\ entryOf' \in [EngineSchedules -> Nat] /\ entryOf'[id] = pc[c].entry
        /\ \A x \in EngineSchedules : x # id => entryOf'[x] = entryOf[x]
    BY <1>1, <1>5, <2>1 DEF EntriesInv
  <2>5. EntriesInv'
    <3>1. \A x \in EngineSchedules : entryOf'[x] <= lastEntry'
      BY <1>1, <2>1, <2>4 DEF EntriesInv
    <3>2. \A d \in CronCallers : pc'[d].entry <= lastEntry'
      BY <1>1, <2>1, <2>3 DEF EntriesInv
    <3>3. \A e \in entries', x \in EngineSchedules : e[1] # 0 /\ (e[1] = entryOf'[x] => e[2] = x)
      BY <1>1, <1>2, <2>1, <2>4 DEF EntriesInv
    <3>4. \A e \in entries', d \in CronCallers : pc'[d].op = "name" /\ e[1] = pc'[d].entry => e[2] = pc'[d].id
      BY <1>1, <2>1, <2>3 DEF EntriesInv
    <3> QED
      BY <1>1, <2>1, <2>4, <3>1, <3>2, <3>3, <3>4 DEF EntriesInv
  <2>6. EntryAt(c) = {<<pc[c].entry, id>>} /\ EntryAt(c)' = {<<entryOf'[id], id>>}
    BY <1>2, <2>1, <2>3 DEF EntryAt
  <2>7. \A x \in EngineSchedules : EntriesOf(x)' = EntriesOf(x) /\ (x \in schedules' <=> x \in schedules)
    BY <2>1 DEF EntriesOf
  <2>8. id \notin overlapped => id \notin schedules' /\ EntriesOf(id)' = EntryAt(c)'
    BY <1>4, <2>4, <2>6, <2>7
  <2> QED
    BY <1>2, <1>3, <2>2, <2>4, <2>5, <2>7, <2>8, CallerMoves DEF CallPlaces
<1>12. CASE Cron!AddToMap(c)
  <2>1. UNCHANGED <<entryOf, entries, lastEntry>> /\ pc[c].op = "add" /\ schedules' = schedules \cup {id}
    BY <1>2, <1>12 DEF Cron!AddToMap, Cron!cronVars
  <2>2. CallGoes(c, "idle", None, 0)
    BY <1>7, <1>12 DEF Cron!AddToMap
  <2>3. /\ CallsInv' /\ pc'[c].op = "idle" /\ pc'[c].entry = 0
        /\ \A d \in CronCallers : d # c => pc'[d] = pc[d]
    BY <1>1, <2>2, CallsGo DEF CallPlaces
  <2>4. EntriesInv'
    BY <1>1, <2>1, <2>3, EntriesKept
  <2>5. \A x \in EngineSchedules :
          /\ EntriesOf(x)' = EntriesOf(x) /\ entryOf'[x] = entryOf[x]
          /\ x # id => (x \in schedules' <=> x \in schedules)
    BY <2>1 DEF EntriesOf
  <2>6. EntryAt(c) = {<<entryOf[id], id>>} /\ EntryOn(id)' = {<<entryOf[id], id>>}
    BY <1>2, <2>1 DEF EntryAt, EntryOn
  <2>7. id \notin overlapped => EntriesOf(id)' = EntryOn(id)'
    BY <1>4, <2>5, <2>6
  <2> QED
    BY <1>2, <1>3, <2>2, <2>4, <2>5, <2>7, CallerMoves DEF CallPlaces
<1> QED
  BY <1>8, <1>9, <1>10, <1>11, <1>12 DEF Cron!CallerStep, Cron!AddFunc

\* Start gives a loaded schedule an entry before anyone calls (:66-92).
LEMMA Loads ==
  ASSUME CronInv, NEW id \in EngineSchedules, Cron!Start(id)
  PROVE  CronInv'
<1>1. /\ CallsInv /\ EntriesInv /\ Loading
      /\ \A x \in EngineSchedules : Accounted(x)
  BY DEF CronInv
<1>2. id \in toLoad /\ toLoad' = toLoad \ {id} /\ pc' = pc /\ overlapped' = overlapped
  BY DEF Cron!Start
<1>3. id \notin schedules /\ \A c \in CronCallers : pc[c].op = "idle"
  BY <1>1, <1>2 DEF Loading
<1>4. CallsInv'
  BY <1>1, <1>2 DEF CallsInv
<1>5. \A c \in CronCallers, x \in EngineSchedules : ~At(c, x) /\ ~At(c, x)'
  BY <1>2, <1>3 DEF At
<1>6. CASE UNCHANGED <<entryOf, entries, lastEntry, schedules>>
  <2>1. EntriesInv' /\ Loading'
    BY <1>1, <1>2, <1>6 DEF EntriesInv, Loading
  <2>2. \A x \in EngineSchedules : Untouched(x)
    BY <1>2, <1>5, <1>6 DEF Untouched, EntriesOf
  <2> QED
    BY <1>1, <1>4, <2>1, <2>2, AccountKept DEF CronInv
<1>7. CASE /\ lastEntry' = lastEntry + 1 /\ entries' = entries \cup {<<lastEntry + 1, id>>}
           /\ entryOf' = [entryOf EXCEPT ![id] = lastEntry + 1] /\ schedules' = schedules \cup {id}
  <2>1. /\ lastEntry \in Nat /\ lastEntry + 1 \in Nat /\ entries' \subseteq Nat \X EngineSchedules
        /\ \A e \in entries' : e[1] <= lastEntry'
        /\ \A e \in entries' : e[1] # 0
        /\ \A e \in entries' : e[1] = lastEntry + 1 => e[2] = id
        /\ \A x \in EngineSchedules : x # id => EntriesOf(x)' = EntriesOf(x)
        /\ EntriesOf(id) = {} => EntriesOf(id)' = {<<lastEntry + 1, id>>}
    BY <1>1, <1>7, EntryNew
  <2>2. /\ entryOf' \in [EngineSchedules -> Nat] /\ entryOf'[id] = lastEntry + 1
        /\ \A x \in EngineSchedules : x # id => entryOf'[x] = entryOf[x]
    BY <1>1, <1>7, <2>1 DEF EntriesInv
  <2>3. EntriesInv'
    <3>1. \A x \in EngineSchedules : entryOf[x] \in Nat /\ entryOf[x] <= lastEntry
      BY <1>1 DEF EntriesInv
    <3>2. \A x \in EngineSchedules : entryOf'[x] <= lastEntry'
      BY <1>7, <2>1, <2>2, <3>1
    <3>3. \A d \in CronCallers : pc[d].entry \in Nat /\ pc[d].entry <= lastEntry
      BY <1>1 DEF EntriesInv, CallsInv
    <3>4. \A d \in CronCallers : pc'[d].entry <= lastEntry'
      BY <1>2, <1>7, <2>1, <3>3
    <3>5. \A d \in CronCallers : pc'[d].op # "name"
      BY <1>2, <1>3
    <3>6. ASSUME NEW e \in entries', NEW x \in EngineSchedules PROVE e[1] # 0 /\ (e[1] = entryOf'[x] => e[2] = x)
      <4>1. CASE x = id
        BY <2>1, <2>2, <4>1
      <4>2. CASE x # id /\ e \in entries
        BY <1>1, <2>1, <2>2, <4>2 DEF EntriesInv
      <4>3. CASE x # id /\ e = <<lastEntry + 1, id>>
        BY <2>1, <2>2, <3>1, <4>3
      <4> QED
        BY <1>7, <4>1, <4>2, <4>3
    <3> QED
      BY <1>7, <2>1, <2>2, <3>2, <3>4, <3>5, <3>6 DEF EntriesInv
  <2>4. Loading'
    BY <1>1, <1>2, <1>7, <1>3 DEF Loading
  <2>5. ASSUME NEW x \in EngineSchedules, x # id PROVE Accounted(x)'
    <3>1. Untouched(x)
      BY <1>2, <1>5, <1>7, <2>1, <2>2, <2>5 DEF Untouched
    <3> QED
      BY <1>1, <3>1, AccountKept
  <2>6. Accounted(id)'
    <3>1. id \notin overlapped => EntriesOf(id) = {}
      BY <1>1, <1>3, <1>5, AtRest DEF EntryOn
    <3>2. EntryOn(id)' = {<<lastEntry + 1, id>>}
      BY <1>7, <2>2 DEF EntryOn
    <3> QED
      BY <1>2, <1>5, <2>1, <3>1, <3>2 DEF Accounted
  <2> QED
    BY <1>4, <2>3, <2>4, <2>5, <2>6 DEF CronInv
<1> QED
  BY <1>6, <1>7 DEF Cron!Start, Cron!cronVars

LEMMA CronStep == CronInv /\ Cron!Next => CronInv'
<1> SUFFICES ASSUME CronInv, Cron!Next PROVE CronInv'
  OBVIOUS
<1>1. ASSUME NEW e \in entries, Cron!executeScheduledWorkflow(e) PROVE CronInv'
  <2>1. UNCHANGED <<pc, toLoad, schedules, entryOf, entries, lastEntry, overlapped>>
    BY <1>1 DEF Cron!executeScheduledWorkflow, Cron!cronVars
  <2>2. \A id \in EngineSchedules : Untouched(id)
    BY <2>1 DEF Untouched, EntriesOf
  <2>3. \A id \in EngineSchedules : Accounted(id)'
    BY <2>2, AccountKept DEF CronInv
  <2> QED
    BY <2>1, <2>3 DEF CronInv, CallsInv, EntriesInv, Loading
<1> QED
  BY <1>1, CronCalls, CronSteps, Loads, TRUE \in BOOLEAN DEF Cron!Next

\* The account says it: no call under way, so the entries are the map's.
LEMMA AccountsAreQuiet == CronInv => Cron!QuietWhenOff
<1> SUFFICES ASSUME CronInv, NEW id \in EngineSchedules \ overlapped, ~Cron!UnderWay(id)
             PROVE  EntriesOf(id) = EntryOn(id)
  BY DEF Cron!QuietWhenOff, EntriesOf, EntryOn
<1>1. \A c \in CronCallers : ~At(c, id)
  BY DEF Cron!UnderWay, At
<1> QED
  BY <1>1, AtRest DEF CronInv

----------------------------------------------------------------------------
(* The schedule service: what is answered with an error has gone no further *)
(* than its row.                                                           *)

SchedulesKept ==
  /\ scheduleRows' = scheduleRows /\ jobs' = jobs /\ triggered' = triggered /\ scheduleCache' = scheduleCache

\* An answer that is no error leaves the rest of the promise void.
LEMMA Granted ==
  ASSUME NEW err, NEW refused, err = "none"
  PROVE  Schedules!CodeOf(err, refused) = 200
BY DEF Schedules!CodeOf

\* Each handler either grants its request or keeps everything as it was; what
\* happens without a request answers nothing (schedule_service.go:78-445).
LEMMA SchedulesStep == Schedules!Next => Schedules!RefusalLeavesNoTrace
<1> SUFFICES ASSUME Schedules!Next PROVE Schedules!RefusalLeavesNoTrace
  OBVIOUS
<1>1. SchedulesKept => Schedules!RefusalLeavesNoTrace
  BY DEF SchedulesKept, Schedules!RefusalLeavesNoTrace
<1>2. scheduleReply' = scheduleReply => Schedules!RefusalLeavesNoTrace
  BY DEF Schedules!RefusalLeavesNoTrace
<1>3. ASSUME NEW op, NEW code \in {200, 201}, Schedules!Reply(op, code) PROVE Schedules!RefusalLeavesNoTrace
  <2>1. scheduleReply'.code = code
    BY <1>3 DEF Schedules!Reply
  <2> QED
    BY <2>1 DEF Schedules!RefusalLeavesNoTrace
<1>4. CASE Schedules!Start \/ Schedules!Stop \/ Schedules!checkDueSchedules
  BY <1>2, <1>4 DEF Schedules!Start, Schedules!Stop, Schedules!checkDueSchedules
<1>5. ASSUME NEW op, Schedules!RepositoryFails(op) PROVE Schedules!RefusalLeavesNoTrace
  BY <1>1, <1>5 DEF Schedules!RepositoryFails, SchedulesKept
<1>6. ASSUME NEW id \in ScheduleIds, Schedules!BecomesDue(id) \/ Schedules!CacheExpires(id)
      PROVE  Schedules!RefusalLeavesNoTrace
  BY <1>2, <1>6 DEF Schedules!BecomesDue, Schedules!CacheExpires
<1>7. ASSUME NEW id \in ScheduleIds, Schedules!HandleCreateSchedule(id) PROVE Schedules!RefusalLeavesNoTrace
  <2>1. PICK u \in Owners, fields \in {5, 6}, ended \in BOOLEAN :
           /\ Schedules!CreateSchedule(id, u, fields, ended)
           /\ Schedules!Reply("create", IF fields = 5 THEN 201 ELSE 500)
    BY <1>7 DEF Schedules!HandleCreateSchedule
  <2>2. CASE fields = 5
    BY <1>3, <2>1, <2>2
  <2>3. CASE fields # 5
    <3>1. ~Schedules!NewSchedule(id, u, fields, ended).ok
      BY <2>3 DEF Schedules!NewSchedule
    <3> QED
      BY <1>1, <1>7, <2>1, <3>1 DEF Schedules!CreateSchedule, Schedules!HandleCreateSchedule, SchedulesKept
  <2> QED
    BY <2>2, <2>3
<1>8. ASSUME NEW id \in ScheduleIds, NEW u \in Owners, NEW op, NEW m, triggered' = triggered,
             Schedules!Reply(op, Schedules!CodeOf(Schedules!WriteErr(id, u, m), 400)),
             Schedules!WriteErr(id, u, m) = "none" \/ UNCHANGED <<scheduleRows, jobs, scheduleCache>>
      PROVE  Schedules!RefusalLeavesNoTrace
  BY <1>1, <1>3, <1>8, Granted DEF SchedulesKept
<1>9. ASSUME NEW id \in ScheduleIds, NEW u \in Owners,
             Schedules!HandleUpdateSchedule(id, u) \/ Schedules!HandlePauseSchedule(id, u)
               \/ Schedules!HandleResumeSchedule(id, u)
      PROVE  Schedules!RefusalLeavesNoTrace
  <2>1. CASE Schedules!HandleUpdateSchedule(id, u)
    BY <1>8, <2>1 DEF Schedules!HandleUpdateSchedule, Schedules!UpdateSchedule
  <2>2. CASE Schedules!HandlePauseSchedule(id, u)
    BY <1>8, <2>2 DEF Schedules!HandlePauseSchedule, Schedules!PauseSchedule
  <2>3. CASE Schedules!HandleResumeSchedule(id, u)
    BY <1>8, <2>3 DEF Schedules!HandleResumeSchedule, Schedules!ResumeSchedule
  <2> QED
    BY <1>9, <2>1, <2>2, <2>3
<1>10. ASSUME NEW id \in ScheduleIds, NEW u \in Owners, Schedules!HandleGetSchedule(id, u)
       PROVE  Schedules!RefusalLeavesNoTrace
  <2>1. CASE Schedules!GetErr(id, u) = "none"
    BY <1>3, <1>10, <2>1, Granted DEF Schedules!HandleGetSchedule
  <2>2. CASE Schedules!GetErr(id, u) # "none"
    BY <1>1, <1>10, <2>2 DEF Schedules!HandleGetSchedule, Schedules!GetSchedule, SchedulesKept
  <2> QED
    BY <2>1, <2>2
<1>11. ASSUME NEW id \in ScheduleIds, NEW u \in Owners,
              Schedules!HandleDeleteSchedule(id, u) \/ Schedules!HandleExecuteSchedule(id, u)
       PROVE  Schedules!RefusalLeavesNoTrace
  <2>1. CASE Schedules!LoadErr(id, u) = "none"
    BY <1>3, <1>11, <2>1, Granted DEF Schedules!HandleDeleteSchedule, Schedules!HandleExecuteSchedule
  <2>2. CASE Schedules!LoadErr(id, u) # "none"
    BY <1>1, <1>11, <2>2
       DEF Schedules!HandleDeleteSchedule, Schedules!DeleteSchedule, Schedules!HandleExecuteSchedule, SchedulesKept
  <2> QED
    BY <2>1, <2>2
<1> QED
  BY <1>4, <1>5, <1>6, <1>7, <1>9, <1>10, <1>11 DEF Schedules!Next

----------------------------------------------------------------------------
(* The engine's retries: whoever fills the counter, or turns the breaker   *)
(* half-open over a full one, is about to close it or to reset the counter. *)

CallsTyped ==
  /\ DOMAIN call = Callers
  /\ \A c \in Callers : DOMAIN call[c] = {"pc", "attempt", "err", "seen"}

RetryInv == CallsTyped /\ Retries!TrialEnds

\* The breaker is closed.
LEMMA RetryInit == Retries!Init => RetryInv
<1> SUFFICES ASSUME Retries!Init PROVE RetryInv
  OBVIOUS
<1>1. CallsTyped
  BY DEF Retries!Init, CallsTyped
<1> QED
  BY <1>1 DEF Retries!Init, RetryInv, Retries!TrialEnds

Alone(c) ==
  /\ DOMAIN call' = Callers
  /\ DOMAIN call'[c] = {"pc", "attempt", "err", "seen"}
  /\ \A d \in Callers : d # c => call'[d] = call[d]

Goes(c, place) == Alone(c) /\ call'[c].pc = place

\* The callers whose next writes reset the successes or close the breaker.
Deciding == {"zero", "succeeded", "enough", "close"}

\* A raise of the success counter announces the decision that follows it, and
\* half-open comes with a reset of the counter to follow (retry.go:337-376).
LEMMA RetryStep == RetryInv /\ Retries!Next => RetryInv'
<1> SUFFICES ASSUME RetryInv, Retries!Next PROVE RetryInv'
  OBVIOUS
<1>1. CallsTyped /\ Retries!TrialEnds
  BY DEF RetryInv
<1>2. ASSUME NEW c \in Callers, Alone(c) PROVE CallsTyped'
  BY <1>1, <1>2 DEF CallsTyped, Alone
\* A caller that decides nothing, and leaves what the others decide on.
<1>3. ASSUME NEW c \in Callers, call[c].pc \notin Deciding, Alone(c),
             UNCHANGED <<state, successCount>>
      PROVE  RetryInv'
  <2>1. \A d \in Callers : call[d].pc \in Deciding => call'[d].pc \in Deciding
    BY <1>3 DEF Alone
  <2>2. Retries!TrialEnds'
    BY <1>1, <1>3, <2>1 DEF Retries!TrialEnds, Deciding
  <2> QED
    BY <1>2, <1>3, <2>2 DEF RetryInv
\* A step after which nothing is to be decided, or its caller decides.
<1>4. ASSUME NEW c \in Callers, NEW place, Goes(c, place),
             \/ state' # "half_open" \/ successCount' = 0 \/ place \in Deciding
             \/ ~(successCount' >= HalfOpenMax)
      PROVE  RetryInv'
  <2>1. Retries!TrialEnds'
    BY <1>4, BreakerAssumption DEF Retries!TrialEnds, Goes, Deciding
  <2> QED
    BY <1>2, <1>4, <2>1 DEF RetryInv, Goes
<1>5. ASSUME UNCHANGED call,
             UNCHANGED <<state, successCount>> \/ state' # "half_open" \/ successCount' = 0
      PROVE  RetryInv'
  BY <1>1, <1>5, BreakerAssumption DEF RetryInv, CallsTyped, Retries!TrialEnds
<1>6. ASSUME NEW c \in Callers, Retries!Retry(c) PROVE RetryInv'
  <2>1. Alone(c)
    BY <1>1, <1>6 DEF Retries!Retry, Retries!Finish, Retries!Goto, CallsTyped, Alone
  <2>2. call[c].pc \notin Deciding /\ UNCHANGED <<state, successCount>>
    BY <1>6 DEF Retries!Retry, Retries!cbVars, Deciding
  <2> QED
    BY <1>3, <2>1, <2>2
<1>7. ASSUME NEW c \in Callers, Retries!Attempted(c) PROVE RetryInv'
  <2>1. Alone(c)
    BY <1>1, <1>7 DEF Retries!Attempted, Retries!Finish, Retries!Goto, CallsTyped, Alone
  <2>2. call[c].pc \notin Deciding /\ UNCHANGED <<state, successCount>>
    BY <1>7 DEF Retries!Attempted, Retries!cbVars, Deciding
  <2> QED
    BY <1>3, <2>1, <2>2
<1>8. ASSUME NEW c \in Callers, Retries!Delay(c) PROVE RetryInv'
  <2>1. Alone(c)
    BY <1>1, <1>8 DEF Retries!Delay, Retries!Finish, Retries!Goto, CallsTyped, Alone
  <2>2. call[c].pc \notin Deciding /\ UNCHANGED <<state, successCount>>
    BY <1>8 DEF Retries!Delay, Retries!cbVars, Deciding
  <2> QED
    BY <1>3, <2>1, <2>2
<1>9. ASSUME NEW c \in Callers, Retries!canExecute(c) PROVE RetryInv'
  <2>1. Alone(c)
    BY <1>1, <1>9 DEF Retries!canExecute, Retries!Goto, CallsTyped, Alone
  <2>2. call[c].pc \notin Deciding /\ UNCHANGED <<state, successCount>>
    BY <1>9 DEF Retries!canExecute, Retries!cbVars, Deciding
  <2> QED
    BY <1>3, <2>1, <2>2
<1>10. ASSUME NEW c \in Callers, Retries!CountTrials(c) PROVE RetryInv'
  <2>1. Alone(c)
    BY <1>1, <1>10 DEF Retries!CountTrials, Retries!Refused, Retries!Goto, CallsTyped, Alone
  <2>2. call[c].pc \notin Deciding /\ UNCHANGED <<state, successCount>>
    BY <1>10 DEF Retries!CountTrials, Retries!cbVars, Deciding
  <2> QED
    BY <1>3, <2>1, <2>2
<1>11. ASSUME NEW c \in Callers, Retries!SinceFailure(c) PROVE RetryInv'
  <2>1. Alone(c)
    BY <1>1, <1>11 DEF Retries!SinceFailure, Retries!Refused, Retries!Goto, CallsTyped, Alone
  <2>2. call[c].pc \notin Deciding /\ UNCHANGED <<state, successCount>>
    BY <1>11 DEF Retries!SinceFailure, Retries!cbVars, Deciding
  <2> QED
    BY <1>3, <2>1, <2>2
<1>12. ASSUME NEW c \in Callers, Retries!Execute(c) PROVE RetryInv'
  <2>1. Alone(c)
    BY <1>1, <1>12 DEF Retries!Execute, Retries!Goto, CallsTyped, Alone
  <2>2. call[c].pc \notin Deciding /\ UNCHANGED <<state, successCount>>
    BY <1>12 DEF Retries!Execute, Retries!cbVars, Deciding
  <2> QED
    BY <1>3, <2>1, <2>2
<1>13. ASSUME NEW c \in Callers, Retries!FailureDecides(c) PROVE RetryInv'
  <2>1. Alone(c)
    BY <1>1, <1>13 DEF Retries!FailureDecides, Retries!Goto, CallsTyped, Alone
  <2>2. call[c].pc \notin Deciding /\ UNCHANGED <<state, successCount>>
    BY <1>13 DEF Retries!FailureDecides, Retries!cbVars, Deciding
  <2> QED
    BY <1>3, <2>1, <2>2
<1>14. ASSUME NEW c \in Callers, Retries!CountFailures(c) PROVE RetryInv'
  <2>1. Alone(c)
    BY <1>1, <1>14 DEF Retries!CountFailures, Retries!Goto, CallsTyped, Alone
  <2>2. call[c].pc \notin Deciding /\ UNCHANGED <<state, successCount>>
    BY <1>14 DEF Retries!CountFailures, Retries!cbVars, Deciding
  <2> QED
    BY <1>3, <2>1, <2>2
<1>15. ASSUME NEW c \in Callers, Retries!recordFailure(c) PROVE RetryInv'
  <2>1. Alone(c)
    BY <1>1, <1>15 DEF Retries!recordFailure, Retries!Goto, CallsTyped, Alone
  <2>2. call[c].pc \notin Deciding /\ UNCHANGED <<state, successCount>>
    BY <1>15 DEF Retries!recordFailure, Retries!cbVars, Deciding
  <2> QED
    BY <1>3, <2>1, <2>2
<1>16. ASSUME NEW c \in Callers, Retries!LastFailure(c) PROVE RetryInv'
  <2>1. Alone(c)
    BY <1>1, <1>16 DEF Retries!LastFailure, Retries!Goto, CallsTyped, Alone
  <2>2. call[c].pc \notin Deciding /\ UNCHANGED <<state, successCount>>
    BY <1>16 DEF Retries!LastFailure, Retries!cbVars, Deciding
  <2> QED
    BY <1>3, <2>1, <2>2
<1>17. ASSUME NEW c \in Callers, Retries!ForgetFailures(c) PROVE RetryInv'
  <2>1. Alone(c)
    BY <1>1, <1>17 DEF Retries!ForgetFailures, Retries!Goto, CallsTyped, Alone
  <2>2. call[c].pc \notin Deciding /\ UNCHANGED <<state, successCount>>
    BY <1>17 DEF Retries!ForgetFailures, Retries!cbVars, Deciding
  <2> QED
    BY <1>3, <2>1, <2>2
<1>18. ASSUME NEW c \in Callers, Retries!Handle(c) PROVE RetryInv'
  <2>1. Alone(c)
    BY <1>1, <1>18 DEF Retries!Handle, Retries!Goto, CallsTyped, Alone
  <2>2. call[c].pc \notin Deciding /\ UNCHANGED <<state, successCount>>
    BY <1>18 DEF Retries!Handle, Retries!cbVars, Deciding
  <2> QED
    BY <1>3, <2>1, <2>2
<1>19. ASSUME NEW c \in Callers, Retries!HalfOpen(c) PROVE RetryInv'
  <2>1. Goes(c, "zero") /\ "zero" \in Deciding
    BY <1>1, <1>19 DEF Retries!HalfOpen, Deciding, Retries!Goto, CallsTyped, Goes, Alone
  <2> QED
    BY <1>4, <2>1
<1>20. ASSUME NEW c \in Callers, Retries!recordSuccess(c) PROVE RetryInv'
  <2>1. Goes(c, "succeeded") /\ "succeeded" \in Deciding
    BY <1>1, <1>20 DEF Retries!recordSuccess, Deciding, Retries!Goto, CallsTyped, Goes, Alone
  <2> QED
    BY <1>4, <2>1
<1>21. ASSUME NEW c \in Callers, Retries!ZeroSuccesses(c) PROVE RetryInv'
  <2>1. Goes(c, "operation") /\ successCount' = 0
    BY <1>1, <1>21 DEF Retries!ZeroSuccesses, Deciding, Retries!Goto, CallsTyped, Goes, Alone
  <2> QED
    BY <1>4, <2>1
<1>22. ASSUME NEW c \in Callers, Retries!Close(c) PROVE RetryInv'
  <2>1. Goes(c, "forget") /\ state' # "half_open"
    BY <1>1, <1>22 DEF Retries!Close, Deciding, Retries!Goto, CallsTyped, Goes, Alone
  <2> QED
    BY <1>4, <2>1
<1>23. ASSUME NEW c \in Callers, Retries!Open(c) PROVE RetryInv'
  <2>1. Goes(c, "answer") /\ state' # "half_open"
    BY <1>1, <1>23 DEF Retries!Open, Deciding, Retries!Goto, CallsTyped, Goes, Alone
  <2> QED
    BY <1>4, <2>1
<1>24. ASSUME NEW c \in Callers, Retries!SuccessDecides(c) PROVE RetryInv'
  <2>1. CASE state = "half_open"
    <3>1. Goes(c, "enough") /\ "enough" \in Deciding
      BY <1>1, <1>24, <2>1 DEF Retries!SuccessDecides, Deciding, Retries!Goto, CallsTyped, Goes, Alone
    <3> QED
      BY <1>4, <3>1
  <2>2. CASE state # "half_open"
    <3>1. Goes(c, "answer") /\ state' # "half_open"
      BY <1>1, <1>24, <2>2 DEF Retries!SuccessDecides, Retries!cbVars, Retries!Goto, CallsTyped, Goes, Alone
    <3> QED
      BY <1>4, <3>1
  <2> QED
    BY <2>1, <2>2
<1>25. ASSUME NEW c \in Callers, Retries!CountSuccesses(c) PROVE RetryInv'
  <2>1. CASE Retries!Enough
    <3>1. Goes(c, "close") /\ "close" \in Deciding
      BY <1>1, <1>25, <2>1 DEF Retries!CountSuccesses, Deciding, Retries!Goto, CallsTyped, Goes, Alone
    <3> QED
      BY <1>4, <3>1
  <2>2. CASE ~Retries!Enough
    <3>1. Goes(c, "answer") /\ ~(successCount' >= HalfOpenMax)
      BY <1>1, <1>25, <2>2 DEF Retries!CountSuccesses, Retries!Enough, Retries!cbVars, Retries!Goto, CallsTyped, Goes, Alone
    <3> QED
      BY <1>4, <3>1
  <2> QED
    BY <2>1, <2>2
<1>26. ASSUME Retries!Reset \/ Retries!Rest \/ Retries!Tick \/ \E c \in Callers : Retries!Cancel(c) PROVE RetryInv'
  <2>1. CASE Retries!Reset
    BY <1>5, <2>1 DEF Retries!Reset
  <2>2. CASE Retries!Rest \/ Retries!Tick \/ \E c \in Callers : Retries!Cancel(c)
    BY <1>5, <2>2 DEF Retries!Rest, Retries!Tick, Retries!Cancel, Retries!cbVars
  <2> QED
    BY <1>26, <2>1, <2>2
<1> QED
  BY <1>6, <1>7, <1>8, <1>9, <1>10, <1>11, <1>12, <1>13, <1>14, <1>15, <1>16, <1>17, <1>18, <1>19, <1>20, <1>21, <1>22, <1>23, <1>24, <1>25, <1>26
     DEF Retries!Next, Retries!CallerStep

----------------------------------------------------------------------------
(* The hub: a client that is on a channel knows it, and is unregistered    *)
(* with what it knows.                                                     *)

HubInv ==
  /\ DOMAIN members = HubChannels /\ DOMAIN joined = Clients /\ DOMAIN reader = Clients
  /\ \A ch \in HubChannels, c \in Clients : c \in members[ch] => ch \in joined[c]
  /\ \A ch \in HubChannels : members[ch] \intersect closed = {}
  /\ \A c \in Clients : c \in closed => reader[c] = "gone" /\ serve[c] \notin {"none", "register"}
  /\ \A c \in Clients : reader[c] # "none" => serve[c] \notin {"none", "register"}
  /\ DOMAIN serve = Clients

\* No client is connected.
LEMMA HubInit == Hub!Init => HubInv
BY DEF Hub!Init, HubInv

\* Unregistering takes a client off every channel it is on before its queue
\* is closed for good (websocket.go:92-108).
LEMMA HubStep == HubInv /\ Hub!Next => HubInv'
<1> SUFFICES ASSUME HubInv, Hub!Next PROVE HubInv'
  OBVIOUS
<1> USE DEF HubInv, Hub!Move
<1>1. ASSUME NEW c \in Clients, Hub!ServeHTTP(c) PROVE HubInv'
  BY <1>1 DEF Hub!ServeHTTP
<1>2. ASSUME NEW c \in Clients, Hub!Register(c) PROVE HubInv'
  BY <1>2 DEF Hub!Register
<1>3. ASSUME NEW c \in Clients, Hub!Welcome(c) PROVE HubInv'
  BY <1>3 DEF Hub!Welcome
<1>4. ASSUME NEW c \in Clients, Hub!handleMessage(c) PROVE HubInv'
  BY <1>4 DEF Hub!handleMessage, Hub!Subscribe, Hub!Unsubscribe
<1>5. ASSUME NEW c \in Clients, Hub!Reply(c) PROVE HubInv'
  BY <1>5 DEF Hub!Reply
<1>6. ASSUME NEW c \in Clients, Hub!readPump(c) PROVE HubInv'
  BY <1>6 DEF Hub!readPump
<1>7. ASSUME NEW c \in Clients, Hub!writePump(c) PROVE HubInv'
  BY <1>7 DEF Hub!writePump
<1>8. ASSUME NEW c \in Clients, Hub!Unregister(c) PROVE HubInv'
  BY <1>8 DEF Hub!Unregister
<1>9. ASSUME Hub!Broadcast PROVE HubInv'
  BY <1>9 DEF Hub!Broadcast, Hub!broadcastToChannel
<1> QED
  BY <1>1, <1>2, <1>3, <1>4, <1>5, <1>6, <1>7, <1>8, <1>9 DEF Hub!Next, Hub!Run

\* Then no channel keeps a client whose queue is closed.
LEMMA NoneClosed == HubInv => Hub!NoMessageToClosed
BY DEF HubInv, Hub!NoMessageToClosed

----------------------------------------------------------------------------
(* One component runs, so that its invariant is the one to keep.           *)

IInv ==
  /\ focus = "service" => ServiceInv
  /\ focus = "executor" => ExecutorInv
  /\ focus = "cron" => CronInv
  /\ focus = "retry" => RetryInv
  /\ focus = "hub" => HubInv

\* The components start with what they are to keep,
LEMMA InitHolds == Init => IInv
BY ServiceInit, ExecutorInit, CronInit, RetryInit, HubInit DEF Init, IInv

\* keep it while nothing happens,
LEMMA StutterHolds == IInv /\ UNCHANGED vars => IInv'
<1> SUFFICES ASSUME IInv, UNCHANGED vars PROVE IInv'
  OBVIOUS
<1> USE DEF vars
<1>1. ServiceInv => ServiceInv'
  BY DEF serviceVars, ServiceInv, RunsTyped, Told
<1>2. ExecutorInv => ExecutorInv'
  BY DEF executorVars, ExecutorInv, ExecutorPlace, PathTells, LoopsHold, Due, After, Before, InLoop
<1>3. CronInv => CronInv'
  <2>1. UNCHANGED <<pc, toLoad, schedules, entryOf, entries, lastEntry, overlapped>>
    BY DEF cronVars
  <2>2. CronInv => \A id \in EngineSchedules : Accounted(id)'
    BY <2>1, AccountKept DEF CronInv, Untouched, EntriesOf
  <2> QED
    BY <2>1, <2>2 DEF CronInv, CallsInv, EntriesInv, Loading
<1>4. RetryInv => RetryInv'
  BY DEF retryVars, RetryInv, CallsTyped, Retries!TrialEnds
<1>5. HubInv => HubInv'
  BY DEF hubVars, HubInv
<1> QED
  BY <1>1, <1>2, <1>3, <1>4, <1>5 DEF IInv

\* and keep it with the steps that each of them takes.
LEMMA StepHolds ==
  IInv /\ Next =>
    /\ IInv'
    /\ focus = "service" => Runs!RefusalLeavesNoTrace
    /\ focus = "schedules" => Schedules!RefusalLeavesNoTrace
<1> SUFFICES ASSUME IInv, Next
             PROVE  /\ IInv'
                    /\ focus = "service" => Runs!RefusalLeavesNoTrace
                    /\ focus = "schedules" => Schedules!RefusalLeavesNoTrace
  OBVIOUS
<1>1. CASE ServiceRuns(Runs!ServiceNext)
  BY <1>1, ServiceStep DEF ServiceRuns, IInv
<1>2. CASE ExecutorRuns(Runs!ExecutorNext)
  BY <1>2, ExecutorStep DEF ExecutorRuns, IInv
<1>3. CASE CronRuns(Cron!Next)
  BY <1>3, CronStep DEF CronRuns, IInv
<1>4. CASE SchedulesRun(Schedules!Next)
  BY <1>4, SchedulesStep DEF SchedulesRun, IInv
<1>5. CASE RetriesRun(Retries!Next)
  BY <1>5, RetryStep DEF RetriesRun, IInv
<1>6. CASE HubRuns(Hub!Next)
  BY <1>6, HubStep DEF HubRuns, IInv
<1> QED
  BY <1>1, <1>2, <1>3, <1>4, <1>5, <1>6 DEF Next

\* The invariant of every component holds in every behaviour.
THEOREM Inductive == Spec => []IInv
<1>1. IInv /\ [Next]_vars => IInv'
  BY StepHolds, StutterHolds
<1> QED
  BY InitHolds, <1>1, PTL DEF Spec

\* A completion that is told has come, and no cancellation is told besides,
\* for any number of executions: the run works on an object of its own, and
\* what cancel, pause and resume do is refused by the row before they tell
\* (execution_service.go:204-240, 309-358, execution_repository.go:129, 164).
THEOREM OutcomesAreOne == Spec => []OneOutcome
<1>1. IInv => OneOutcome
  BY DEF IInv, ServiceInv, Told, OneOutcome, Runs!OneOutcome
<1> QED
  BY Inductive, <1>1, PTL

\* The workflow executor starts exactly what its triggers reach through
\* completed nodes, each node once, in workflows of any size (executor.go:88-137).
THEOREM ReachedIsStarted == Spec => []StartsWhatItReaches
<1>1. IInv => StartsWhatItReaches
  BY WhatItReaches DEF IInv, StartsWhatItReaches
<1> QED
  BY Inductive, <1>1, PTL

\* As long as no two calls meet on a schedule, what fires for it is the entry
\* that its object names while the map has it, and nothing otherwise, for any
\* number of callers and schedules and whatever calls meet on others
\* (engine/scheduler.go:110-238, 282-310).
THEOREM OffIsQuiet == Spec => []QuietWhenOff
<1>1. IInv => QuietWhenOff
  BY AccountsAreQuiet DEF IInv, QuietWhenOff
<1> QED
  BY Inductive, <1>1, PTL

\* A half-open breaker that would refuse everybody has a caller that is about
\* to reset its count or to close it, however many callers race on its fields,
\* which are read and written one by one without a lock (retry.go:337-376).
THEOREM TrialsEnd == Spec => []TrialEnds
<1>1. IInv => TrialEnds
  BY DEF IInv, RetryInv, TrialEnds
<1> QED
  BY Inductive, <1>1, PTL

\* No broadcast and no answer meets a closed queue, for any number of clients,
\* channels and messages (websocket.go:92-108, 143-153).
THEOREM NoneToClosed == Spec => []NoMessageToClosed
<1>1. IInv => NoMessageToClosed
  BY NoneClosed DEF IInv, NoMessageToClosed
<1> QED
  BY Inductive, <1>1, PTL

\* An error that the execution service or the schedule service answers leaves
\* no trace of the request, for any number of executions, schedules and owners
\* (execution_service.go:204-307, schedule_service.go:78-445).
THEOREM NoTraceOfRefusals == Spec => RefusalsLeaveNoTrace
<1>1. IInv /\ [Next]_vars =>
        [/\ focus = "service" => Runs!RefusalLeavesNoTrace
         /\ focus = "schedules" => Schedules!RefusalLeavesNoTrace]_vars
  BY StepHolds
<1> QED
  BY Inductive, <1>1, PTL DEF Spec, RefusalsLeaveNoTrace
=============================================================================
