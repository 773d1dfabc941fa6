----------------------------- MODULE NodeService -----------------------------
(***************************************************************************)
(* Node definitions: handler, service, repository and cache.  Requests and *)
(* the goroutine that installs the system nodes at start-up run statement  *)
(* by statement against one table.  A row keeps its name, whether it has   *)
(* the ports, icon and handler it was created with, and its system mark.   *)
(* The table is external: the migration names other columns.               *)
(***************************************************************************)
EXTENDS Naturals, Sequences

CONSTANTS
    NodeIds,                \* ids the table can come to hold
    NodeNames,              \* names of the definitions that clients create
    SystemNodes,            \* sequence of the default definitions' names
    NodeCalls,              \* requests in flight
    BootBound,              \* times the service is started
    FreshId,                \* an id that no row has
    NoNode, Gone             \* no row yet, no row any more

VARIABLES
    nodeRows,               \* id -> row; NoNode or Gone
    nodeCache,              \* ids with an entry "node:<id>" in the cache
    nodeCall,               \* request -> the statement it sends next
    boot,                   \* InitializeSystemNodes: [pc, rest, node, starts]
    unchecked               \* history: names two creations of which overlapped,
                            \* or whose lookup failed

nodeVars == <<nodeRows, nodeCache, nodeCall, boot, unchecked>>

-------------------------------------------------------------------------------
\* The aggregate. A name counts how often " (Copy)" was appended to it.
Name(n, k) == [base |-> n, copies |-> k]
NewNodeDefinition(name) ==
    [id |-> FreshId, name |-> name, ports |-> "none", system |-> FALSE]
MarkAsSystem(n) == [n EXCEPT !.system = TRUE]
Clone(n) == [n EXCEPT !.id = FreshId, !.system = FALSE,
                      !.name = Name(n.name.base, n.name.copies + 1)]

\* What a client sends: ports that are fine, that repeat an id, or that lack
\* a name. The first are stored; the others are refused by AddInput, AddOutput
\* and AddProperty, and by Validate.
AddPorts(n, ports) == [n EXCEPT !.ports = ports]
Addable(ports) == ports # "repeated"
Validate(n) == n.ports # "unnamed"

-------------------------------------------------------------------------------
\* The repository.
Stored(id) == nodeRows[id] \notin {NoNode, Gone}
RowOf(n) == [name |-> n.name, ports |-> n.ports, system |-> n.system]

\* Only what NewNodeDefinition takes is read back: not the id, nor the mark.
toDomain(id) == NewNodeDefinition(nodeRows[id].name)

FindByName_System(name) ==
    \E id \in NodeIds : Stored(id) /\ nodeRows[id].name = name /\ nodeRows[id].system
FindByName(name) == \E id \in NodeIds : Stored(id) /\ nodeRows[id].name = name
Save(n, id) ==
    /\ nodeRows[id] = NoNode
    /\ nodeRows' = [nodeRows EXCEPT ![id] = RowOf(n)]
Found(n) == n.id \in NodeIds /\ Stored(n.id)
Update(n) == nodeRows' = IF Found(n) THEN [nodeRows EXCEPT ![n.id] = RowOf(n)]
                         ELSE nodeRows
Delete(id) ==
    nodeRows' = IF Stored(id) THEN [nodeRows EXCEPT ![id] = Gone] ELSE nodeRows

-------------------------------------------------------------------------------
\* Requests. The answer stays until the client sends the next one.
Answered(r) == nodeCall[r].pc = "answered"
Answer(r, code) ==
    nodeCall' = [nodeCall EXCEPT ![r] = [pc |-> "answered", code |-> code]]
Goto(r, pc, id, n) ==
    nodeCall' = [nodeCall EXCEPT ![r] = [pc |-> pc, id |-> id, node |-> n]]

\* The status a handler makes of what the service returned.
CreateStatus(err) ==
    CASE err = "none" -> 201 [] err = "exists" -> 409 [] OTHER -> 500
GetStatus(err) == IF err = "none" THEN 200 ELSE 404
UpdateStatus(err) ==
    CASE err = "none" -> 200 [] err = "notFound" -> 404 [] err = "system" -> 403
      [] OTHER -> 500
DeleteStatus(err) == UpdateStatus(err)
CloneStatus(err) ==
    CASE err = "none" -> 201 [] err = "notFound" -> 404 [] OTHER -> 500

\* The name is looked up; then the object is built and validated; then saved.
\* A lookup that fails counts as one that found nothing: its error is dropped.
Creating(name) ==
    \/ \E r \in NodeCalls : nodeCall[r].pc = "save" /\ nodeCall[r].node.name = name
    \/ boot.pc = "save" /\ boot.node.name = name
LooksFree(name) ==
    \/ ~FindByName(name)
       /\ unchecked' = IF Creating(name) THEN unchecked \union {name} ELSE unchecked
    \/ unchecked' = unchecked \union {name}
NewNode(name, ports) == AddPorts(NewNodeDefinition(Name(name, 0)), ports)
CreateNode(r, name, ports) ==
    LET node == NewNode(name, ports) IN
    /\ Answered(r)
    /\ \/ FindByName(node.name) /\ Answer(r, CreateStatus("exists"))
          /\ UNCHANGED unchecked
       \/ (~Addable(ports) \/ ~Validate(node)) /\ Answer(r, CreateStatus("invalid"))
          /\ UNCHANGED unchecked
       \/ /\ Addable(ports) /\ Validate(node) /\ LooksFree(node.name)
          /\ Goto(r, "save", FreshId, node)
    /\ UNCHANGED <<nodeRows, nodeCache>>

\* The insert fails when the database refuses it.
SaveNode(r) ==
    /\ nodeCall[r].pc = "save"
    /\ \/ (\E id \in NodeIds : Save(nodeCall[r].node, id))
          /\ Answer(r, CreateStatus("none"))
       \/ UNCHANGED nodeRows /\ Answer(r, CreateStatus("database"))
    /\ UNCHANGED <<nodeCache, unchecked>>

\* A cached definition has lost all its fields, which are not exported: the
\* answer is an empty definition.
GetNode(r, id) ==
    /\ Answered(r)
    /\ IF id \in nodeCache THEN Answer(r, GetStatus("none"))
       ELSE IF Stored(id) THEN Goto(r, "cache", id, toDomain(id))
       ELSE Answer(r, GetStatus("notFound"))
    /\ UNCHANGED <<nodeRows, nodeCache, unchecked>>
CacheNode(r) ==
    /\ nodeCall[r].pc = "cache"
    /\ nodeCache' = nodeCache \union {nodeCall[r].id}
    /\ Answer(r, GetStatus("none"))
    /\ UNCHANGED <<nodeRows, unchecked>>
CacheExpires(id) ==
    /\ id \in nodeCache
    /\ nodeCache' = nodeCache \ {id}
    /\ UNCHANGED <<nodeRows, nodeCall, unchecked>>

\* A request that loads a definition, then writes.
Load(r, id, pc) ==
    /\ Answered(r)
    /\ IF ~Stored(id) THEN Answer(r, UpdateStatus("notFound"))
       ELSE Goto(r, pc, id, toDomain(id))
    /\ UNCHANGED <<nodeRows, nodeCache, unchecked>>

\* The system mark of the loaded object decides whether it may be written.
\* Whatever the client changes of it, its new id meets no row.
UpdateNode(r) ==
    LET q == nodeCall[r] IN
    /\ q.pc = "update"
    /\ IF q.node.system THEN Answer(r, UpdateStatus("system"))
                            /\ UNCHANGED <<nodeRows, nodeCache>>
       ELSE /\ Update(q.node)
            /\ Answer(r, UpdateStatus(IF Found(q.node) THEN "none" ELSE "database"))
            /\ nodeCache' = IF Found(q.node) THEN nodeCache \ {q.id} ELSE nodeCache
    /\ UNCHANGED unchecked
DeleteNode(r) ==
    LET q == nodeCall[r] IN
    /\ q.pc = "delete"
    /\ IF q.node.system THEN Answer(r, DeleteStatus("system"))
                            /\ UNCHANGED <<nodeRows, nodeCache>>
       ELSE /\ Delete(q.id)
            /\ Answer(r, DeleteStatus(IF Stored(q.id) THEN "none" ELSE "database"))
            /\ nodeCache' = IF Stored(q.id) THEN nodeCache \ {q.id} ELSE nodeCache
    /\ UNCHANGED unchecked
CloneNode(r) ==
    LET q == nodeCall[r] IN
    /\ q.pc = "clone"
    /\ \/ (\E id \in NodeIds : Save(Clone(q.node), id))
          /\ Answer(r, CloneStatus("none"))
       \/ UNCHANGED nodeRows /\ Answer(r, CloneStatus("database"))
    /\ UNCHANGED <<nodeCache, unchecked>>

RegisterRoutes(r) ==
    \/ \E name \in NodeNames, ports \in {"given", "repeated", "unnamed"} :
          CreateNode(r, name, ports)
    \/ \E id \in NodeIds : \/ GetNode(r, id) \/ Load(r, id, "update")
                           \/ Load(r, id, "delete") \/ Load(r, id, "clone")
    \/ SaveNode(r) \/ CacheNode(r) \/ UpdateNode(r) \/ DeleteNode(r) \/ CloneNode(r)

-------------------------------------------------------------------------------
\* The system nodes are installed one after the other: a name that is taken is
\* skipped; CreateNode looks it up once more; the new row is marked by an
\* update of the object just saved.
AtBoot(pc) == boot.pc = pc
NextDefault == boot' = [boot EXCEPT !.pc = "check", !.rest = Tail(@)]
DefaultNode == NewNode(Head(boot.rest), "given")
InitializeSystemNodes ==
    /\ AtBoot("check") /\ boot.rest # <<>>
    /\ \/ FindByName(DefaultNode.name) /\ NextDefault
       \/ boot' = [boot EXCEPT !.pc = "create"]
    /\ UNCHANGED <<nodeRows, unchecked>>
CreateDefault ==
    /\ AtBoot("create")
    /\ \/ FindByName(DefaultNode.name) /\ NextDefault /\ UNCHANGED unchecked
       \/ /\ LooksFree(DefaultNode.name)
          /\ boot' = [boot EXCEPT !.pc = "save", !.node = DefaultNode]
    /\ UNCHANGED nodeRows
SaveDefault ==
    /\ AtBoot("save")
    /\ \/ \E id \in NodeIds :
             Save(boot.node, id)
             /\ boot' = [boot EXCEPT !.pc = "mark", !.node.id = id]
       \/ NextDefault /\ UNCHANGED nodeRows
    /\ UNCHANGED unchecked
MarkDefault ==
    /\ AtBoot("mark")
    /\ Update(MarkAsSystem(boot.node)) \/ UNCHANGED nodeRows
    /\ NextDefault
    /\ UNCHANGED unchecked
Booting == (InitializeSystemNodes \/ CreateDefault \/ SaveDefault \/ MarkDefault)
           /\ UNCHANGED <<nodeCache, nodeCall>>

\* The process ends anywhere and is started again; table and cache stay.
Started(k) == [pc |-> "check", rest |-> SystemNodes, node |-> NoNode, starts |-> k]
Silent == [r \in NodeCalls |-> [pc |-> "answered", code |-> 0]]
Restart ==
    /\ boot.starts < BootBound
    /\ boot' = Started(boot.starts + 1)
    /\ nodeCall' = Silent
    /\ UNCHANGED <<nodeRows, nodeCache, unchecked>>

Init ==
    /\ nodeRows = [id \in NodeIds |-> NoNode]
    /\ nodeCache = {}
    /\ nodeCall = Silent
    /\ boot = Started(1)
    /\ unchecked = {}

Next ==
    \/ (\E r \in NodeCalls : RegisterRoutes(r)) /\ UNCHANGED boot
    \/ (\E id \in NodeIds : CacheExpires(id)) /\ UNCHANGED boot
    \/ Booting
    \/ Restart

Spec == Init /\ [][Next]_nodeVars

-------------------------------------------------------------------------------
\* Two definitions share the name they were created with only if two creations
\* of it were under way at once, or a lookup of it failed, whose error nobody
\* looks at: CreateNode looks a name up and saves it in two statements, for
\* requests and for the start-up alike (node_service.go:69-72, 130, 423-429).
\* A clone gets another name, which nobody looks up.
Created(id) == Stored(id) /\ nodeRows[id].name.copies = 0
NamesAreUnique ==
    \A i, j \in NodeIds :
        Created(i) /\ Created(j) /\ nodeRows[i].name = nodeRows[j].name /\ i # j =>
            nodeRows[i].name \in unchecked

\* Why: one row or one creation has the name, and a row keeps its name: what a
\* request loads has an id no row has, and the start-up marks what it has just
\* saved.
SystemNames == {SystemNodes[i] : i \in DOMAIN SystemNodes}
Names == [base : SystemNames \union NodeNames, copies : Nat]
Named(id, name) == Stored(id) /\ nodeRows[id].name = name
Saves(r, name) == nodeCall[r].pc = "save" /\ nodeCall[r].node.name = name
BootSaves(name) == boot.pc = "save" /\ boot.node.name = name
OneHas(name) ==
    /\ \A i, j \in NodeIds : Named(i, name) /\ Named(j, name) => i = j
    /\ \A r, q \in NodeCalls : Saves(r, name) /\ Saves(q, name) => r = q
    /\ \A r \in NodeCalls : Saves(r, name) => ~BootSaves(name)
    /\ \A i \in NodeIds : Named(i, name) => ~BootSaves(name) /\ \A r \in NodeCalls : ~Saves(r, name)
Objects == [id : {FreshId}, name : Names, ports : {"none", "given"}, system : {FALSE}]
KnownCall(q) == q.pc # "answered" => q.node \in Objects
NodeInv ==
    /\ DOMAIN nodeRows = NodeIds /\ DOMAIN nodeCall = NodeCalls
    /\ \A id \in NodeIds : Stored(id) => nodeRows[id].name \in Names
    /\ \A r \in NodeCalls : KnownCall(nodeCall[r])
    /\ boot = [pc |-> boot.pc, rest |-> boot.rest, node |-> boot.node, starts |-> boot.starts]
    /\ boot.rest \in Seq(SystemNames)
    /\ boot.pc \in {"create", "save", "mark"} => boot.rest # <<>>
    /\ boot.pc = "save" => /\ boot.node \in Objects /\ boot.node.ports = "given"
                           /\ boot.node.name \in [base : SystemNames, copies : {0}]
    /\ boot.pc = "mark" =>
         /\ boot.node = [id |-> boot.node.id, name |-> boot.node.name,
                         ports |-> boot.node.ports, system |-> FALSE]
         /\ boot.node.id \in NodeIds /\ boot.node.name \in Names
         /\ nodeRows[boot.node.id] \in {Gone, RowOf(boot.node)} \ {NoNode}
    /\ \A name \in Names : name.copies = 0 /\ name \notin unchecked => OneHas(name)
===============================================================================
