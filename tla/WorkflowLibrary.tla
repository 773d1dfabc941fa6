-------------------------- MODULE WorkflowLibrary ---------------------------
(***************************************************************************)
(* How workflows are filed and copied: the folder tree, and the ways a     *)
(* workflow is duplicated, merged, exported, imported and made from a      *)
(* template. The two share no state; each has a specification of its own.  *)
(***************************************************************************)
EXTENDS Naturals, Sequences, SequencesExt, FiniteSets

(***************************************************************************)
(* Workflow folders. Every repository call holds the map's lock, a service *)
(* call makes several of them and holds none in between: a move walks up   *)
(* from the new parent one fetch at a time, writes the folder it fetched   *)
(* in place and puts it back into the map. The map holds the callers' own  *)
(* objects: a caller may change one it fetched, or give a new one with an  *)
(* ID that is taken. Names, paths and order are left out.                  *)
(***************************************************************************)

CONSTANTS
    FolderIds,          \* IDs of folders, made by the service or the caller
    Objects,            \* Folder objects: one per ID and call are enough
    FolderCalls,        \* calls in flight
    MaxDepth,           \* FolderService.maxDepth
    DepthBound,         \* depth that moves may reach, which nothing limits
    StackBound,         \* recursion of a deletion, endless on a circle
    Top                 \* no parent; no object

VARIABLES
    folder,             \* heap: object -> [id, parent, depth]; Top: free
    filed,              \* the map: ID -> object; Top: not in the map
    filing,             \* call -> the step it takes next
    unchecked           \* history: see FolderCall

folderVars == <<folder, filed, filing, unchecked>>

Idle == [pc |-> "idle"]

FolderInit ==
    /\ folder = [o \in Objects |-> Top]
    /\ filed = [f \in FolderIds |-> Top]
    /\ filing = [r \in FolderCalls |-> Idle]
    /\ unchecked = FALSE

At(r, pc) == filing[r].pc = pc
Goto(r, q) == filing' = [filing EXCEPT ![r] = q]
Done(r) == Goto(r, Idle)

\* The objects a call writes or the map holds; the others are free.
HeldBy(r) == IF filing[r].pc \in {"put", "walk", "move"} THEN {filing[r].object} ELSE {}
Live == {filed[f] : f \in FolderIds} \union UNION {HeldBy(r) : r \in FolderCalls}
Unused == CHOOSE o \in Objects : o \notin Live
Kept == folder' = [o \in Objects |-> IF o \in Live' THEN folder[o] ELSE Top]

-------------------------------------------------------------------------------
\* InMemoryFolderRepository.
FindByID(f) == filed[f] # Top
Parent(f) == folder[filed[f]].parent
ListByParent(f) == {c \in FolderIds : FindByID(c) /\ Parent(c) = f}
Put(o) == filed' = [filed EXCEPT ![folder[o].id] = o]     \* Create and Update
Delete(f) == filed' = [filed EXCEPT ![f] = Top]

\* A parent is given that does not exist.
Missing(p) == p # Top /\ ~FindByID(p)

\* The depth below a parent that exists, or at the top.
Below(p) == IF p = Top THEN 0 ELSE folder[filed[p]].depth + 1

-------------------------------------------------------------------------------
\* FolderService. The object given to a create or an update is the caller's
\* own; whether its ID is taken is not asked, and a new parent has to exist.
Give(r, f, p, depth) ==
    /\ folder' = [folder EXCEPT ![Unused] = [id |-> f, parent |-> p, depth |-> depth]]
    /\ Goto(r, [pc |-> "put", object |-> Unused])

CreateFolder(r, f, p) ==
    /\ IF Missing(p) \/ Below(p) > MaxDepth THEN Done(r) /\ UNCHANGED folder
       ELSE Give(r, f, p, Below(p))
    /\ UNCHANGED filed

\* The depth of a folder that is updated stays what the caller says.
UpdateFolder(r, f, p) ==
    /\ IF Missing(p) THEN Done(r) /\ UNCHANGED folder
       ELSE \E depth \in 0..MaxDepth : Give(r, f, p, depth)
    /\ UNCHANGED filed

\* The object is the one in the map: what its caller wrote into it is there
\* before the call, also when that fails.
UpdateFetched(r, f, p) ==
    /\ FindByID(f)
    /\ folder' = [folder EXCEPT ![filed[f]].parent = p]
    /\ IF Missing(p) THEN Done(r) ELSE Goto(r, [pc |-> "put", object |-> filed[f]])
    /\ UNCHANGED filed

PutStep(r) ==
    /\ At(r, "put")
    /\ Put(filing[r].object)
    /\ Done(r)
    /\ Kept

MoveFolder(r, f, p) ==
    /\ IF ~FindByID(f) THEN Done(r)
       ELSE Goto(r, [pc |-> "walk", object |-> filed[f], to |-> p, at |-> p])
    /\ UNCHANGED <<folder, filed>>

\* The circular reference check: one parent per step. A parent that is not
\* found ends the walk without an error.
WalkStep_FirstOnly(r) ==
    LET q == filing[r] IN
    /\ At(r, "walk")
    /\ IF q.at = folder[q.object].id THEN Done(r) ELSE Goto(r, [q EXCEPT !.pc = "move"])
    /\ UNCHANGED filed
    /\ Kept
WalkStep(r) ==
    LET q == filing[r] IN
    /\ At(r, "walk")
    /\ IF q.at = folder[q.object].id THEN Done(r)
       ELSE IF q.at # Top /\ FindByID(q.at)
       THEN Goto(r, [q EXCEPT !.at = Parent(q.at)])
       ELSE Goto(r, [q EXCEPT !.pc = "move"])
    /\ UNCHANGED filed
    /\ Kept

\* The new parent is fetched again. The depth of what is below the folder, and
\* MaxDepth, are not looked at.
MoveStep(r) ==
    LET q == filing[r] IN
    /\ At(r, "move")
    /\ UNCHANGED filed
    /\ IF Missing(q.to) THEN Done(r) /\ Kept
       ELSE /\ Below(q.to) <= DepthBound
            /\ folder' = [folder EXCEPT ![q.object].parent = q.to,
                                        ![q.object].depth = Below(q.to)]
            /\ Goto(r, [pc |-> "put", object |-> q.object])

\* The recursion of DeleteFolder as a stack of folders, each with the children
\* that are left to delete before it.
DeleteFolder(r, f, recursive) ==
    /\ IF ~recursive /\ ListByParent(f) # {} THEN Done(r)
       ELSE Goto(r, [pc |-> "delete",
                     stack |-> <<[id |-> f, todo |-> ListByParent(f)]>>])
    /\ UNCHANGED <<folder, filed>>

DeleteStep(r) ==
    LET stack == filing[r].stack
        top == Last(stack) IN
    /\ At(r, "delete")
    /\ IF top.todo = {}
       THEN /\ Delete(top.id)
            /\ IF Len(stack) = 1 THEN Done(r)
               ELSE Goto(r, [filing[r] EXCEPT !.stack = Front(@)])
       ELSE \E c \in top.todo :
               /\ Len(stack) < StackBound
               /\ Goto(r, [filing[r] EXCEPT !.stack =
                     Append([@ EXCEPT ![Len(@)].todo = top.todo \ {c}],
                            [id |-> c, todo |-> ListByParent(c)])])
               /\ UNCHANGED filed
    /\ Kept

\* The history: a move and another call were in flight together, or a caller
\* wrote the parent of a folder itself: an update that changes it, or a folder
\* given with an ID that folders are filed below or a call is busy with.
Moving(r) == filing[r].pc \in {"walk", "move"}
MoveOverlaps(r) ==
    \E q \in FolderCalls \ {r} : ~At(q, "idle") /\ (Moving(q) \/ Moving(r)')
InUse(f) == \E o \in Live \ {Top} : f \in {folder[o].id, folder[o].parent}
SameParent(f, p) == FindByID(f) /\ Parent(f) = p

FolderCall(r) ==
    /\ At(r, "idle")
    /\ \E f \in FolderIds :
          \/ \E p \in FolderIds \union {Top} :
                \/ /\ CreateFolder(r, f, p)
                   /\ unchecked' = (unchecked \/ InUse(f) \/ MoveOverlaps(r))
                \/ /\ UpdateFolder(r, f, p) \/ UpdateFetched(r, f, p)
                   /\ unchecked' = (unchecked \/ ~SameParent(f, p) \/ MoveOverlaps(r))
                \/ /\ MoveFolder(r, f, p)
                   /\ unchecked' = (unchecked \/ MoveOverlaps(r))
          \/ \E recursive \in BOOLEAN :
                /\ DeleteFolder(r, f, recursive)
                /\ unchecked' = (unchecked \/ MoveOverlaps(r))

FolderStep(r) ==
    /\ PutStep(r) \/ WalkStep(r) \/ MoveStep(r) \/ DeleteStep(r)
    /\ UNCHANGED unchecked

\* A behaviour is followed up to the first such write: past it anything can
\* happen to the tree.
FolderNext == ~unchecked /\ \E r \in FolderCalls : FolderCall(r) \/ FolderStep(r)

FolderSpec == FolderInit /\ [][FolderNext]_folderVars

-------------------------------------------------------------------------------
\* A folder is its own ancestor only after a move that overlapped another call,
\* or a parent that a caller wrote with UpdateFolder, or with CreateFolder and
\* an ID in use, neither of which looks for circles: one mover's walk is
\* enough, also over the deletions, renamings and creations that overlapped
\* each other before it. On a circle the walk and a recursive deletion never
\* end (folders.go:65-180).
CircleIsUnchecked ==
    LET Parents(S) == {Parent(f) : f \in S} \intersect {f \in FolderIds : FindByID(f)}
        \* the ancestors of f at most n levels up
        Above[f \in {g \in FolderIds : FindByID(g)}, n \in Nat] ==
            IF n = 0 THEN Parents({f})
            ELSE Above[f, n - 1] \union Parents(Above[f, n - 1]) IN
    ~unchecked =>
        \A f \in {g \in FolderIds : FindByID(g)} : f \notin Above[f, Cardinality(FolderIds)]
-----------------------------------------------------------------------------
(***************************************************************************)
(* The ways a workflow is copied: the domain service duplicates and merges *)
(* saved workflows, the features package exports and imports them, has a   *)
(* duplication of its own, and makes templates that are instantiated. A    *)
(* node is its ID, a sequence of numbers: a fresh UUID is <<copy, node>>,  *)
(* MergeWorkflows puts the source in front of the old ID. Configurations,  *)
(* names and settings are left out. The library keeps what each call has   *)
(* built; the features package itself saves nothing.                       *)
(***************************************************************************)

CONSTANTS
    Originals,          \* workflows drawn by hand: [nodes, conns]
    LibraryBound        \* workflows in the library

VARIABLES
    library,            \* the saved workflows: [nodes, conns, how, from]
    template,           \* the template repository: one template or none
    usage               \* its UsageCount

copyVars == <<library, template, usage>>

Empty == [nodes |-> <<>>, conns |-> <<>>]
CopyInit == library = <<>> /\ template = <<>> /\ usage = 0

\* The aggregate refuses a node it has, and a connection it has or whose ends
\* it does not have.
HasNode(w, n) == n \in ToSet(w.nodes)
CanConnect(w, e) == HasNode(w, e[1]) /\ HasNode(w, e[2]) /\ e \notin ToSet(w.conns)
AddNode(w, n) == [w EXCEPT !.nodes = Append(@, n)]
AddConnection(w, e) == [w EXCEPT !.conns = Append(@, e)]
\* With the refused connections left out, as Import and MergeWorkflows do.
ConnectAll(w, conns) ==
    FoldLeft(LAMBDA acc, e : IF CanConnect(acc, e) THEN AddConnection(acc, e) ELSE acc,
             w, conns)

\* A copy is saved as the next workflow of the library.
New == Len(library) + 1
Save(w, how, from) ==
    library' = Append(library, [nodes |-> w.nodes, conns |-> w.conns,
                                how |-> how, from |-> from])
FreshID(w, n) == <<New, SelectInSeq(w.nodes, LAMBDA m : m = n)>>
Fresh(w) == [i \in DOMAIN w.nodes |-> FreshID(w, w.nodes[i])]

-------------------------------------------------------------------------------
\* Drawn by hand.
CreateWorkflow(w) == Save(w, "drawn", <<>>) /\ UNCHANGED <<template, usage>>

\* The domain service's duplicate keeps the node IDs.
DuplicateWorkflow(i) ==
    /\ Save(library[i], "duplicated", <<i>>)
    /\ UNCHANGED <<template, usage>>

\* One map from old to new IDs for all sources: of two nodes with the same ID
\* the last one wins.
MergedID(i, n) == <<i>> \o n
nodeIDMapping(i, j, n) ==
    IF HasNode(library[j], n) THEN MergedID(j, n) ELSE MergedID(i, n)

MergeWorkflows(i, j) ==
    LET Nodes(k) == [x \in DOMAIN library[k].nodes |-> MergedID(k, library[k].nodes[x])]
        Mapped(e) == <<nodeIDMapping(i, j, e[1]), nodeIDMapping(i, j, e[2])>>
        conns == library[i].conns \o library[j].conns IN
    /\ i # j
    /\ Save(ConnectAll([Empty EXCEPT !.nodes = Nodes(i) \o Nodes(j)],
                       [x \in DOMAIN conns |-> Mapped(conns[x])]),
            "merged", <<i, j>>)
    /\ UNCHANGED <<template, usage>>

-------------------------------------------------------------------------------
\* Export writes the workflow down, Import gives every node a fresh ID and
\* every connection the new IDs of its ends.
Export(i) == library[i]
Import_OldTarget(data) ==
    ConnectAll([Empty EXCEPT !.nodes = Fresh(data)],
               [x \in DOMAIN data.conns |->
                   <<FreshID(data, data.conns[x][1]), data.conns[x][2]>>])
Import(data) ==
    ConnectAll([Empty EXCEPT !.nodes = Fresh(data)],
               [x \in DOMAIN data.conns |->
                   <<FreshID(data, data.conns[x][1]), FreshID(data, data.conns[x][2])>>])

BulkImport(i) ==
    /\ Save(Import(Export(i)), "imported", <<i>>)
    /\ UNCHANGED <<template, usage>>

\* The features' duplicate imports its export, drops the result and copies the
\* nodes alone: the connections are lost.
Duplicate(i) ==
    /\ Save([Empty EXCEPT !.nodes = Fresh(library[i])], "copied", <<i>>)
    /\ UNCHANGED <<template, usage>>

-------------------------------------------------------------------------------
CreateFromWorkflow(i) ==
    /\ template' = <<i>> /\ usage' = 0
    /\ UNCHANGED library

\* The nodes get fresh IDs, the connections keep the old ones: the first one
\* is refused and with it the whole instance.
InstantiateTemplate ==
    LET source == library[template[1]]
        instance == [Empty EXCEPT !.nodes = Fresh(source)]
        ok == \A x \in DOMAIN source.conns : CanConnect(instance, source.conns[x]) IN
    /\ template # <<>> /\ usage < LibraryBound
    /\ IF ok THEN /\ Save(ConnectAll(instance, source.conns), "instantiated", template)
                  /\ usage' = usage + 1
       ELSE UNCHANGED <<library, usage>>
    /\ UNCHANGED template

DeleteTemplate == template' = <<>> /\ usage' = 0 /\ UNCHANGED library

Copy(i) ==
    \/ DuplicateWorkflow(i) \/ Duplicate(i) \/ BulkImport(i)
    \/ \E j \in DOMAIN library : MergeWorkflows(i, j)

CopyNext ==
    \/ /\ Len(library) < LibraryBound
       /\ \/ \E w \in Originals : CreateWorkflow(w)
          \/ \E i \in DOMAIN library : Copy(i)
          \/ InstantiateTemplate
    \/ \E i \in DOMAIN library : CreateFromWorkflow(i)
    \/ DeleteTemplate

CopySpec == CopyInit /\ [][CopyNext]_copyVars

-------------------------------------------------------------------------------
\* What the ways of copying keep that are meant to keep the connections,
\* however copies are copied again: an import and the domain service's
\* duplicate have all connections of their source, and a merge has those of
\* both sources when these share no node ID, as a duplicate and its source do
\* (workflow_domain_service.go:81-168, import_export.go:213-236).
CopiesKeepConnections ==
    \A k \in DOMAIN library :
        LET w == library[k]
            Count(f) == Len(library[w.from[f]].conns)
            Disjoint == ToSet(library[w.from[1]].nodes)
                          \intersect ToSet(library[w.from[2]].nodes) = {} IN
        /\ w.how \in {"imported", "duplicated"} => Len(w.conns) = Count(1)
        /\ w.how = "merged" /\ Disjoint => Len(w.conns) = Count(1) + Count(2)
=============================================================================
