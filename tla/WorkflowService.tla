--------------------------- MODULE WorkflowService ---------------------------
(***************************************************************************)
(* One workflow edited by concurrent calls of the WorkflowService in       *)
(* internal/workflow/app/service/workflow_service.go: every call loads the *)
(* row, changes the aggregate of domain/model/workflow.go in memory, and   *)
(* writes it back with an UPDATE that compares the row's version           *)
(* (adapters/repository/postgres/workflow_repository.go).                  *)
(*                                                                         *)
(* A node is its ID and a connection the pair of its endpoints (one port   *)
(* each).  Names, settings, timestamps and the event store are left out;   *)
(* an event is the increment of the version that addEvent makes.           *)
(***************************************************************************)
EXTENDS Integers, Sequences, FiniteSets, SequencesExt

CONSTANTS
  Callers,
  NodeIDs,
  Triggers,    \* the nodes of type "trigger"
  Commands,    \* arguments of CreateWorkflow and UpdateWorkflow
  MaxWrites,   \* bound: no call starts after this many writes of the row
  None

VARIABLES
  row,   \* the row of the workflow, None before it is created
  wf,    \* [Callers -> the aggregate of the call in progress, or None]
  read,  \* history: [Callers -> version of the row the call loaded]
  writes \* history: successful Updates

vars == <<row, wf, read, writes>>

----------------------------------------------------------------------------
(* The aggregate.  `ok' turns FALSE when a method returns an error that    *)
(* the service passes on.  A suffixed name is a faulty variant.            *)

\* NewWorkflow: its creation is the first event.
NewWorkflow == [status |-> "draft", nodes |-> << >>, conns |-> << >>, version |-> 1, ok |-> TRUE]

Refused(w) == [w EXCEPT !.ok = FALSE]

\* An active workflow whose structure changes is a draft again.
StructureStatus(w) == IF w.status = "active" THEN "draft" ELSE w.status

Changed(w) == [w EXCEPT !.status = StructureStatus(w), !.version = @ + 1]

\* maxNodes (100) is out of the commands' reach.
AddNode(w, n) ==
  IF w.status = "archived" \/ n \in ToSet(w.nodes) THEN Refused(w)
  ELSE [Changed(w) EXCEPT !.nodes = Append(@, n)]

Detached_Outgoing(conns, n) == SelectSeq(conns, LAMBDA e : e[1] # n)

\* The connections that stay when node n goes.
Detached(conns, n) == SelectSeq(conns, LAMBDA e : e[1] # n /\ e[2] # n)

RemoveNode(w, n) ==
  IF w.status = "archived" \/ n \notin ToSet(w.nodes) THEN w
  ELSE [Changed(w) EXCEPT !.nodes = Remove(@, n), !.conns = Detached(@, n)]

AddConnection(w, e) ==
  IF w.status = "archived" \/ ~{e[1], e[2]} \subseteq ToSet(w.nodes) \/ e \in ToSet(w.conns)
    THEN Refused(w)
    ELSE [Changed(w) EXCEPT !.conns = Append(@, e)]

AfterVisit_Marked(s, n) == s

\* recStack[node] = false
AfterVisit(s, n) == [s EXCEPT !.recStack = @ \ {n}]

\* hasCycleDFS: s has the visited nodes, those on the stack, and the answer.
RECURSIVE HasCycleDFS(_, _, _)
HasCycleDFS(w, s, n) ==
  LET entered == [s EXCEPT !.visited = @ \cup {n}, !.recStack = @ \cup {n}]
      Neighbor(acc, e) ==
        IF e[1] # n \/ acc.cycle THEN acc
        ELSE IF e[2] \notin acc.visited THEN HasCycleDFS(w, acc, e[2])
        ELSE [acc EXCEPT !.cycle = e[2] \in acc.recStack]
      left == FoldLeft(Neighbor, entered, w.conns)
  IN IF left.cycle THEN left ELSE AfterVisit(left, n)

HasCycle(w) ==
  LET Root(s, n) == IF s.cycle \/ n \in s.visited THEN s ELSE HasCycleDFS(w, s, n)
  IN FoldLeft(Root, [visited |-> {}, recStack |-> {}, cycle |-> FALSE], w.nodes).cycle

ValidConnections_NoCycleCheck(w) == \A e \in ToSet(w.conns) : {e[1], e[2]} \subseteq ToSet(w.nodes)

ValidConnections(w) ==
  (\A e \in ToSet(w.conns) : {e[1], e[2]} \subseteq ToSet(w.nodes)) /\ ~HasCycle(w)

Activated(w) ==
  IF /\ w.status \in {"draft", "inactive"}
     /\ ValidConnections(w)
     /\ ToSet(w.nodes) \cap Triggers # {}
    THEN [w EXCEPT !.status = "active", !.version = @ + 1]
    ELSE Refused(w)

Deactivated(w) ==
  IF w.status = "active" THEN [w EXCEPT !.status = "inactive", !.version = @ + 1] ELSE Refused(w)

Archived(w) ==
  IF w.status # "archived" THEN [w EXCEPT !.status = "archived", !.version = @ + 1] ELSE Refused(w)

----------------------------------------------------------------------------
(* The service                                                             *)

Filled(w, cmd) == FoldLeft(AddConnection, FoldLeft(AddNode, w, cmd.nodes), cmd.conns)

\* for _, node := range workflow.Nodes(): the loop runs over the array that
\* RemoveNode shifts in place, in its original length.
Cleared(w) ==
  LET Visit(acc, k) ==
        LET next == RemoveNode(acc.w, acc.array[k])
            live == Len(next.nodes)
        IN [w |-> next, array |-> next.nodes \o SubSeq(acc.array, live + 1, Len(acc.array))]
  IN FoldLeftDomain(Visit, [w |-> w, array |-> w.nodes], w.nodes).w

Updated(w, cmd) == Filled(Cleared(w), cmd)

\* WorkflowRepository.Save and FindByID: one row, its JSON columns and all.
Save(w) == row' = w
FindByID == row

\* CreateWorkflow up to Save: the row has the version that counts its events.
CreateWorkflow(cmd) ==
  LET w == Filled(NewWorkflow, cmd) IN
  /\ row = None
  /\ w.ok
  /\ Save(w)
  /\ UNCHANGED <<wf, read, writes>>

\* FindByID and the change in memory; a refused change ends the call.
Load(c, w) ==
  /\ row # None /\ writes < MaxWrites /\ wf[c] = None
  /\ w.ok
  /\ wf' = [wf EXCEPT ![c] = w]
  /\ read' = [read EXCEPT ![c] = FindByID.version]
  /\ UNCHANGED <<row, writes>>

UpdateWorkflow(c) == \E cmd \in Commands : Load(c, Updated(row, cmd))
ActivateWorkflow(c) == Load(c, Activated(row))
DeactivateWorkflow(c) == Load(c, Deactivated(row))
DeleteWorkflow(c) == Load(c, Archived(row))

\* UPDATE ... SET version = Version()+1 WHERE version = Version(), with the
\* Version() that the events of this call have already raised.
Update(c) ==
  /\ wf[c] # None
  /\ row.version = wf[c].version
  /\ row' = [wf[c] EXCEPT !.version = @ + 1]
  /\ wf' = [wf EXCEPT ![c] = None]
  /\ writes' = writes + 1
  /\ UNCHANGED read

\* No row affected: ErrOptimisticLock.
UpdateRefused(c) ==
  /\ wf[c] # None
  /\ row.version # wf[c].version
  /\ wf' = [wf EXCEPT ![c] = None]
  /\ UNCHANGED <<row, read, writes>>

----------------------------------------------------------------------------
(* WorkflowHandler: the routes.  A body that cannot be decoded, or a       *)
(* request that does not validate, is answered without a call.             *)

PostWorkflow == \E cmd \in Commands : CreateWorkflow(cmd)
PutWorkflow(c) == UpdateWorkflow(c)
DeleteRoute(c) == DeleteWorkflow(c)
PostActivate(c) == ActivateWorkflow(c)
PostDeactivate(c) == DeactivateWorkflow(c)

Init ==
  /\ row = None /\ wf = [c \in Callers |-> None]
  /\ read = [c \in Callers |-> 0] /\ writes = 0

Next ==
  \/ PostWorkflow
  \/ \E c \in Callers :
       \/ PutWorkflow(c) \/ PostActivate(c) \/ PostDeactivate(c) \/ DeleteRoute(c)
       \/ Update(c) \/ UpdateRefused(c)

Spec == Init /\ [][Next]_vars

----------------------------------------------------------------------------
(* Properties *)

Aggregates == ({row} \cup {wf[c] : c \in Callers}) \ {None}

\* Every aggregate, loaded or stored, is sound: its nodes have distinct IDs
\* and no connection dangles, whatever RemoveNode shifted below the loop of
\* UpdateWorkflow.
WellFormed ==
  \A w \in Aggregates :
    /\ w.status \in {"draft", "active", "inactive", "archived"} /\ w.version \in Nat /\ w.ok
    /\ w.nodes \in Seq(NodeIDs) /\ IsInjective(w.nodes)
    /\ \A e \in ToSet(w.conns) : {e[1], e[2]} \subseteq ToSet(w.nodes)

\* Some nodes of the workflow all lead to one another.
Cyclic(w) ==
  \E S \in (SUBSET ToSet(w.nodes)) \ {{}} :
    \A n \in S : \E e \in ToSet(w.conns) : e[1] = n /\ e[2] \in S

\* hasCycle answers TRUE for exactly the graphs in which a node reaches itself.
HasCycleExact == \A w \in Aggregates : HasCycle(w) <=> Cyclic(w)

\* An active workflow can be executed: it has a trigger and no cycle.  Every
\* change of structure after Activate takes it back to draft.
ActiveIsRunnable ==
  \A w \in Aggregates : w.status = "active" =>
    ToSet(w.nodes) \cap Triggers # {} /\ ~Cyclic(w)

\* "Update with optimistic locking" (workflow_repository.go:278): a write
\* succeeds only on the version of the row that the call loaded.
WritesWhatItLoaded ==
  [][\A c \in Callers : Update(c) => row.version = read[c]]_vars
=============================================================================
