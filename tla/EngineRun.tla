------------------------------ MODULE EngineRun ------------------------------
(***************************************************************************)
(* One execution of a workflow by internal/engine/engine.go: Execute and   *)
(* its recursion executeFromNode, depth first along the connections of the *)
(* port a node chose, next to a caller of CancelExecution.                 *)
(*                                                                         *)
(* The recursion is an explicit stack of the for loops under way.  Nothing *)
(* records that a node has run: a node behind two connections runs once    *)
(* for each.  The context and ExecutionState.Status are shared with        *)
(* CancelExecution without a lock.  Inputs, configs and logs are left out. *)
(***************************************************************************)
EXTENDS Integers, Sequences, FiniteSets, Functions, TLAPS

CONSTANTS
  Nodes,
  Ports,      \* the values of "_output"
  AllPorts,   \* a node that sets no "_output"
  Known,      \* nodes whose type has an executor
  Workflows,  \* definitions: the first trigger node or None; the connections,
              \* each from a port of a node to a target, in order; ErrorHandling = "stop"
  None

ASSUME NamesAssumption == Known \subseteq Nodes /\ None \notin Nodes /\ AllPorts \notin Ports
ASSUME WorkflowsAssumption ==
  \A w \in Workflows :
    /\ w.trigger \in Nodes \cup {None} /\ w.stopOnError \in BOOLEAN
    /\ \A I \in SUBSET DOMAIN w.conns : I # {} => \E i \in I : \A j \in I : i <= j
    /\ \A i \in DOMAIN w.conns : w.conns[i].source \in Nodes /\ w.conns[i].port \in Ports

VARIABLES
  workflow,   \* the definition that is executed
  pc,         \* where Execute is
  cur,        \* nodeID of the innermost executeFromNode
  stack,      \* the loops under way: a node and the connections left to follow
  outputs,    \* keys of state.NodeOutputs
  err,        \* executeFromNode returned an error
  status,     \* state.Status
  ctxDone,    \* the execution's context is cancelled
  cancelPc,   \* where CancelExecution is
  runs,       \* history: how often each node was started
  chosen,     \* history: how often the output of its source selected a connection
  taken,      \* history: how often each connection was followed
  late        \* history: nodes started after the context was cancelled

control == <<pc, cur, stack>>
history == <<runs, chosen, taken, late>>
vars == <<workflow, control, outputs, err, status, ctxDone, cancelPc, history>>

Conns   == workflow.conns
Trigger == workflow.trigger
Edges   == DOMAIN Conns
Targets == {Conns[i].target : i \in Edges}
Frames  == [node : Nodes, next : SUBSET Edges]
Top     == stack[Len(stack)]

TypeOK ==
  /\ workflow \in Workflows
  /\ pc \in {"start", "enter", "run", "loop", "finish", "done"}
  /\ cur \in Nodes \cup Targets \cup {None}
  /\ pc = "run" => cur \in Nodes
  /\ stack \in Seq(Frames)
  /\ outputs \subseteq Nodes
  /\ err \in BOOLEAN /\ ctxDone \in BOOLEAN
  /\ status \in {"running", "completed", "failed", "cancelled"}
  /\ cancelPc \in {"no", "marking", "done"}
  /\ runs \in [Nodes -> Nat] /\ late \in Nat
  /\ chosen \in [Edges -> Nat] /\ taken \in [Edges -> Nat]

\* Execute has registered the state in e.executions.
Init ==
  /\ workflow \in Workflows
  /\ pc = "start" /\ cur = None /\ stack = << >>
  /\ outputs = {} /\ err = FALSE /\ status = "running"
  /\ ctxDone = FALSE /\ cancelPc = "no"
  /\ runs = [n \in Nodes |-> 0] /\ late = 0
  /\ chosen = [i \in Edges |-> 0] /\ taken = [i \in Edges |-> 0]

----------------------------------------------------------------------------
(* A suffixed name is a faulty variant.                                    *)

\* Does connection i leave node n by a port that output p selects?
Selects(n, p, i) == Conns[i].source = n /\ p \in {AllPorts, Conns[i].port}

\* nextNodes, a slice in the order of workflow.Connections: the connections,
\* followed from the first one on
NextNodes(n, p) == {i \in Edges : Selects(n, p, i)}
First(I) == CHOOSE i \in I : \A j \in I : i <= j

\* An error is returned through all callers at once.
Abort == pc' = "finish" /\ err' = TRUE

\* Execute starts with the first trigger, whose output may be given.
Execute ==
  /\ pc = "start"
  /\ IF Trigger = None
       THEN pc' = "done" /\ err' = TRUE /\ status' = "failed" /\ UNCHANGED <<cur, outputs>>
       ELSE /\ pc' = "enter" /\ cur' = Trigger
            /\ outputs' \in {{}, {Trigger}}
            /\ UNCHANGED <<err, status>>
  /\ UNCHANGED <<stack, ctxDone, cancelPc, history>>

\* executeFromNode up to the call of the node's executor: node and executor
\* are found and the expressions of its config evaluate.
StartNode ==
  /\ pc = "enter" /\ cur \in Known
  /\ pc' = "run"
  /\ runs' = [runs EXCEPT ![cur] = @ + 1]
  /\ late' = IF ctxDone THEN late + 1 ELSE late
  /\ UNCHANGED <<cur, stack, outputs, err, status, ctxDone, cancelPc, chosen, taken>>

\* "node not found", "executor for node type not found", "failed to evaluate
\* config"
CannotStart ==
  /\ pc = "enter"
  /\ Abort
  /\ UNCHANGED <<cur, stack, outputs, status, ctxDone, cancelPc, history>>

\* The executor returns an error, or an output with an error and the
\* workflow stops on errors.
NodeFails ==
  /\ pc = "run"
  /\ Abort
  /\ UNCHANGED <<cur, stack, outputs, status, ctxDone, cancelPc, history>>

\* state.NodeOutputs[nodeID] = output.Data, also when the output has an error
Stored(failed) == outputs \cup {cur}

\* The node's output is stored and its loop over the next nodes begins.
NodeReturns ==
  /\ pc = "run"
  /\ \E p \in Ports \cup {AllPorts} : \E failed \in IF workflow.stopOnError THEN {FALSE} ELSE BOOLEAN :
       /\ stack' = Append(stack, [node |-> cur, next |-> NextNodes(cur, p)])
       /\ chosen' = [i \in Edges |-> IF Selects(cur, p, i) THEN chosen[i] + 1 ELSE chosen[i]]
       /\ outputs' = Stored(failed)
  /\ pc' = "loop"
  /\ UNCHANGED <<cur, err, status, ctxDone, cancelPc, runs, taken, late>>

Stopped_Never == FALSE

\* case <-ctx.Done()
Stopped == ctxDone

NextNode_Last == Conns[CHOOSE i \in Top.next : \A j \in Top.next : j <= i].target

\* nextNodeID
NextNode == Conns[First(Top.next)].target

\* The next connection of the innermost loop.
Follow ==
  /\ pc = "loop" /\ stack # << >> /\ Top.next # {} /\ ~Stopped
  /\ pc' = "enter"
  /\ cur' = NextNode
  /\ stack' = [stack EXCEPT ![Len(stack)].next = @ \ {First(@)}]
  /\ taken' = [taken EXCEPT ![First(Top.next)] = @ + 1]
  /\ UNCHANGED <<outputs, err, status, ctxDone, cancelPc, runs, chosen, late>>

\* return ctx.Err()
SeeCancelled ==
  /\ pc = "loop" /\ stack # << >> /\ Top.next # {} /\ Stopped
  /\ Abort
  /\ UNCHANGED <<cur, stack, outputs, status, ctxDone, cancelPc, history>>

Callers_Same == stack

\* return nil: the caller's loop goes on.
Callers == SubSeq(stack, 1, Len(stack) - 1)

Return ==
  /\ pc = "loop" /\ stack # << >> /\ Top.next = {}
  /\ stack' = Callers
  /\ pc' = IF Callers = << >> THEN "finish" ELSE "loop"
  /\ UNCHANGED <<cur, outputs, err, status, ctxDone, cancelPc, history>>

FinalStatus_Completed == "completed"

FinalStatus == IF err THEN "failed" ELSE "completed"

\* The end of Execute overwrites whatever status it finds.
Finish ==
  /\ pc = "finish"
  /\ pc' = "done"
  /\ status' = FinalStatus
  /\ UNCHANGED <<cur, stack, outputs, err, ctxDone, cancelPc, history>>

----------------------------------------------------------------------------
(* CancelExecution, and the caller's own context                            *)

CancelExecution ==
  /\ cancelPc = "no"
  /\ ctxDone' = TRUE /\ cancelPc' = "marking"
  /\ UNCHANGED <<control, outputs, err, status, history>>

MarkCancelled ==
  /\ cancelPc = "marking"
  /\ status' = "cancelled" /\ cancelPc' = "done"
  /\ UNCHANGED <<control, outputs, err, ctxDone, history>>

ParentCancelled ==
  /\ ~ctxDone
  /\ ctxDone' = TRUE
  /\ UNCHANGED <<control, outputs, err, status, cancelPc, history>>

RunStep ==
  \/ Execute \/ StartNode \/ CannotStart \/ NodeFails \/ NodeReturns
  \/ Follow \/ SeeCancelled \/ Return \/ Finish

Next ==
  /\ RunStep \/ CancelExecution \/ MarkCancelled \/ ParentCancelled
  /\ UNCHANGED workflow

Spec == Init /\ [][Next]_vars

\* The goroutine inside Execute runs and the executors return.
FairSpec == Spec /\ WF_vars(RunStep /\ UNCHANGED workflow)

----------------------------------------------------------------------------
(* Properties *)

\* Deliveries to a node: connections to it that were followed, and the start.
Due(n) ==
  FoldFunctionOnSet(+, 0, taken, {i \in Edges : Conns[i].target = n})
    + (IF n = Trigger /\ pc # "start" THEN 1 ELSE 0)

\* The recursion visits what the outputs select, no more and no less: a node is
\* started exactly once for each delivery (save the delivery it is at or that
\* it failed to start), a connection is followed only if its source's output
\* selected its port, and an execution without error has followed all of them.
\* The node that runs finds the output of what led to it stored.
TraversalExact ==
  /\ \A n \in Nodes :
       \/ runs[n] = Due(n)
       \/ runs[n] = Due(n) - 1 /\ n = cur /\ (pc = "enter" \/ err)
  /\ \A i \in Edges : taken[i] <= chosen[i]
  /\ pc = "done" /\ ~err => taken = chosen
  /\ pc = "run" /\ runs[cur] > (IF cur = Trigger THEN 1 ELSE 0) =>
       \E i \in Edges : Conns[i].target = cur /\ Conns[i].source \in outputs

\* After the context is cancelled at most one more node is started: the one
\* already chosen when the select of the loop was passed.
StopsAfterCancel == late <= 1

\* The status of an ended execution tells its outcome, unless CancelExecution
\* wrote its own afterwards.
StatusTellsOutcome ==
  pc = "done" => \/ status = (IF err THEN "failed" ELSE "completed")
                 \/ status = "cancelled" /\ cancelPc = "done"

\* On an acyclic workflow Execute returns.
ExecuteReturns == <>(pc = "done")

----------------------------------------------------------------------------
(* Proofs, for every workflow, cyclic ones included, where the recursion of  *)
(* executeFromNode need not end.                                            *)

\* Before the cancellation no node is late; a late node was the last the
\* recursion entered.
LateNodes ==
  /\ ctxDone \in BOOLEAN
  /\ late \in {0, 1}
  /\ ~ctxDone => late = 0
  /\ pc \in {"start", "enter"} => late = 0

\* Follow passes the select only while the context is not cancelled.
LEMMA LateStep == LateNodes /\ [Next]_vars => LateNodes'
<1> SUFFICES ASSUME LateNodes, [Next]_vars PROVE LateNodes'
  OBVIOUS
<1>1. CASE StartNode
  <2>1. late = 0 /\ pc' = "run" /\ ctxDone' = ctxDone
    BY <1>1 DEF LateNodes, StartNode
  <2>2. CASE ctxDone
    <3>1. late' = 0 + 1
      BY <1>1, <2>1, <2>2 DEF StartNode
    <3> QED
      BY <2>1, <2>2, <3>1 DEF LateNodes
  <2>3. CASE ~ctxDone
    BY <1>1, <2>1, <2>3 DEF LateNodes, StartNode
  <2> QED
    BY <2>2, <2>3
<1>2. CASE Follow
  BY <1>2 DEF LateNodes, Follow, Stopped, history
<1>3. CASE Execute
  BY <1>3 DEF LateNodes, Execute, history
<1>4. CASE CannotStart \/ NodeFails \/ NodeReturns \/ SeeCancelled
  BY <1>4 DEF LateNodes, CannotStart, NodeFails, NodeReturns, SeeCancelled, Abort, history
<1>5. CASE Return \/ Finish
  BY <1>5 DEF LateNodes, Return, Finish, history
<1>6. CASE CancelExecution \/ MarkCancelled \/ ParentCancelled
  BY <1>6 DEF LateNodes, CancelExecution, MarkCancelled, ParentCancelled, control, history
<1>7. CASE UNCHANGED vars
  BY <1>7 DEF LateNodes, vars, control, history
<1> QED
  BY <1>1, <1>2, <1>3, <1>4, <1>5, <1>6, <1>7 DEF Next, RunStep

\* Execute and CancelExecution write the status in any order; whoever is
\* last, it is the outcome or the caller's own "cancelled".
LEMMA StatusStep == StatusTellsOutcome /\ [Next]_vars => StatusTellsOutcome'
<1> SUFFICES ASSUME StatusTellsOutcome, [Next]_vars PROVE StatusTellsOutcome'
  OBVIOUS
<1>1. CASE Execute
  BY <1>1 DEF StatusTellsOutcome, Execute
<1>2. CASE StartNode \/ CannotStart \/ NodeFails \/ NodeReturns \/ Follow \/ SeeCancelled
  BY <1>2 DEF StatusTellsOutcome, StartNode, CannotStart, NodeFails, NodeReturns, Follow,
              SeeCancelled, Abort
<1>3. CASE Return
  BY <1>3 DEF StatusTellsOutcome, Return
<1>4. CASE Finish
  BY <1>4 DEF StatusTellsOutcome, Finish, FinalStatus
<1>5. CASE CancelExecution \/ MarkCancelled \/ ParentCancelled
  BY <1>5 DEF StatusTellsOutcome, CancelExecution, MarkCancelled, ParentCancelled, control
<1>6. CASE UNCHANGED vars
  BY <1>6 DEF StatusTellsOutcome, vars, control
<1> QED
  BY <1>1, <1>2, <1>3, <1>4, <1>5, <1>6 DEF Next, RunStep

\* After CancelExecution, or the end of the caller's context, executeFromNode
\* starts at most one more node, for every workflow.
THEOREM AtMostOneLateNode == Spec => []StopsAfterCancel
<1>1. Init => LateNodes
  BY DEF Init, LateNodes
<1>2. LateNodes => StopsAfterCancel
  BY DEF LateNodes, StopsAfterCancel
<1> QED
  BY <1>1, <1>2, LateStep, PTL DEF Spec

\* When Execute has returned, Status is its outcome or was overwritten by
\* CancelExecution, for every workflow.
THEOREM StatusIsOutcome == Spec => []StatusTellsOutcome
<1>1. Init => StatusTellsOutcome
  BY DEF Init, StatusTellsOutcome
<1> QED
  BY <1>1, StatusStep, PTL DEF Spec

\* A step of the recursion or of the cancellation keeps the fields' types: a
\* loop holds connections of the workflow, so that each one followed has a target.
LEMMA TypeStep == TypeOK /\ [Next]_vars => TypeOK'
<1> SUFFICES ASSUME TypeOK, [Next]_vars PROVE TypeOK'
  OBVIOUS
<1>0. /\ workflow' = workflow /\ Edges' = Edges /\ Targets' = Targets /\ Frames' = Frames
      /\ Trigger \in Nodes \cup {None}
  BY WorkflowsAssumption DEF TypeOK, Next, vars, Edges, Targets, Frames, Conns, Trigger
<1> USE <1>0
<1>1. CASE Execute
  BY <1>1 DEF TypeOK, Execute, history
<1>2. CASE StartNode
  BY <1>2, NamesAssumption DEF TypeOK, StartNode
<1>3. CASE CannotStart \/ NodeFails \/ SeeCancelled
  BY <1>3 DEF TypeOK, CannotStart, NodeFails, SeeCancelled, Abort, history
<1>4. CASE NodeReturns
  <2> USE <1>4 DEF NodeReturns
  <2>1. PICK p \in Ports \cup {AllPorts}, failed \in BOOLEAN :
          /\ stack' = Append(stack, [node |-> cur, next |-> NextNodes(cur, p)])
          /\ chosen' = [i \in Edges |-> IF Selects(cur, p, i) THEN chosen[i] + 1 ELSE chosen[i]]
          /\ outputs' = Stored(failed)
    OBVIOUS
  <2>2. cur \in Nodes
    BY DEF TypeOK
  <2>3. [node |-> cur, next |-> NextNodes(cur, p)] \in Frames
    BY <2>2 DEF NextNodes, Frames
  <2>4. stack' \in Seq(Frames)
    BY <2>1, <2>3 DEF TypeOK
  <2>5. chosen' \in [Edges -> Nat]
    BY <2>1 DEF TypeOK
  <2>6. outputs' \subseteq Nodes
    BY <2>1, <2>2 DEF TypeOK, Stored
  <2> QED
    BY <2>4, <2>5, <2>6 DEF TypeOK
<1>5. CASE Follow
  <2> USE <1>5 DEF Follow
  <2>1. Len(stack) \in 1..Len(stack) /\ Top \in Frames
    BY DEF TypeOK, Top
  <2>2. Top.next \subseteq Edges /\ Top.next # {}
    BY <2>1 DEF Frames
  <2>3. First(Top.next) \in Edges
    <3>1. workflow \in Workflows
      BY DEF TypeOK
    <3>2. \E i \in Top.next : \A j \in Top.next : i <= j
      BY <2>2, <3>1, WorkflowsAssumption DEF Edges, Conns
    <3> QED
      BY <2>2, <3>2 DEF First
  <2>4. cur' \in Targets
    BY <2>3 DEF NextNode, Targets
  <2>5. stack' \in Seq(Frames)
    <3>1. [Top EXCEPT !.next = @ \ {First(@)}] \in Frames
      BY <2>1 DEF Frames
    <3> QED
      BY <2>1, <3>1 DEF TypeOK, Top
  <2>6. taken' \in [Edges -> Nat]
    BY <2>3 DEF TypeOK
  <2> QED
    BY <2>4, <2>5, <2>6 DEF TypeOK
<1>6. CASE Return
  <2>1. Callers \in Seq(Frames)
    BY <1>6 DEF Return, Callers, TypeOK
  <2> QED
    BY <1>6, <2>1 DEF Return, TypeOK, history
<1>7. CASE Finish
  BY <1>7 DEF TypeOK, Finish, FinalStatus, history
<1>8. CASE CancelExecution \/ MarkCancelled \/ ParentCancelled
  BY <1>8 DEF TypeOK, CancelExecution, MarkCancelled, ParentCancelled, control, history
<1>9. CASE UNCHANGED vars
  BY <1>9 DEF TypeOK, vars, control, history
<1> QED
  BY <1>1, <1>2, <1>3, <1>4, <1>5, <1>6, <1>7, <1>8, <1>9 DEF Next, RunStep

\* Type correctness of an execution, for every workflow: only known nodes run,
\* and only outputs of nodes are stored.
THEOREM TypeCorrect == Spec => []TypeOK
<1>1. ASSUME Init PROVE TypeOK
  <2> USE <1>1 DEF Init
  <2>1. stack \in Seq(Frames)
    OBVIOUS
  <2>2. runs \in [Nodes -> Nat]
    OBVIOUS
  <2>3. chosen \in [Edges -> Nat] /\ taken \in [Edges -> Nat]
    OBVIOUS
  <2> QED
    BY <2>1, <2>2, <2>3 DEF TypeOK
<1> QED
  BY <1>1, TypeStep, PTL DEF Spec

----------------------------------------------------------------------------
(* The instance: every workflow whose connections are among seven: a        *)
(* trigger, a branching node, nodes with several predecessors, a target     *)
(* that does not exist.                                                     *)
Edge(s, p, d) == [source |-> s, port |-> p, target |-> d]
Offered == << Edge("t", "yes", "a"), Edge("t", "yes", "b"), Edge("a", "yes", "m"), Edge("a", "no", "ghost"),
              Edge("a", "no", "b"), Edge("b", "yes", "m"), Edge("b", "no", "m") >>
Chosen(I) == [k \in 1..Cardinality(I) |->
                Offered[CHOOSE i \in I : Cardinality({j \in I : j < i}) = k - 1]]
MCWorkflows ==
  [trigger : {"t", None}, conns : {Chosen(I) : I \in SUBSET (1..7)}, stopOnError : BOOLEAN]
=============================================================================
