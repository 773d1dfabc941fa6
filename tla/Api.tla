--------------------------------- MODULE Api ---------------------------------
(***************************************************************************)
(* The stand-alone API server.  Every handler works on the tables of one   *)
(* database, statement by statement and without transactions, so that      *)
(* requests run in between the statements of another.  A request names the *)
(* session token it carries; users are named by their e-mail address.  An  *)
(* execution runs in a goroutine of its own, after its request was         *)
(* answered; what the engine does in it is the subject of EngineRun.       *)
(* Handlers that answer without touching a table are left out.             *)
(***************************************************************************)
EXTENDS Naturals, FiniteSets, Sequences

CONSTANTS
    Emails, Tokens,         \* users that can register, sessions they can get
    FlowIds,                \* workflows that can be created
    Drawings,               \* graphs a client can save
    RunIds,                 \* executions that can be started
    ScheduleIds, WebhookIds, NotificationIds, OrgSlugs,
    ApiCalls,               \* requests in flight
    RowBound,               \* rows the small tables hold together
    NoRow

VARIABLES
    apiUsers,               \* e-mail -> "none", "active" or "deleted"
    apiSessions,            \* token -> NoRow or [user, state]
    apiWorkflows,           \* id -> NoRow or [owner, status, nodes, conns]
    apiExecutions,          \* id -> NoRow or [owner, status]
    apiTables,              \* the tables of the small resources
    apiCall,                \* request -> the statement it sends next
    apiRunning,             \* executions whose goroutine has not ended
    torn                    \* workflows with a save that was no whole graph,
                            \* overlapped another or lost a statement, and
                            \* copies taken in the middle of a save

apiVars == <<apiUsers, apiSessions, apiWorkflows, apiExecutions, apiTables,
             apiCall, apiRunning, torn>>

Quiet == [pc |-> "idle"]

Init ==
    /\ apiUsers = [u \in Emails |-> "none"]
    /\ apiSessions = [t \in Tokens |-> NoRow]
    /\ apiWorkflows = [w \in FlowIds |-> NoRow]
    /\ apiExecutions = [e \in RunIds |-> NoRow]
    /\ apiTables = [schedules |-> [s \in ScheduleIds |-> NoRow],
                    webhooks |-> [h \in WebhookIds |-> NoRow],
                    notifications |-> [n \in NotificationIds |-> NoRow],
                    organizations |-> {}]
    /\ apiCall = [r \in ApiCalls |-> Quiet]
    /\ apiRunning = {} /\ torn = {}

At(r, pc) == apiCall[r].pc = pc
Goto(r, q) == apiCall' = [apiCall EXCEPT ![r] = q]
Done(r) == Goto(r, Quiet)

\* A token that is neither revoked nor expired stands for its user, whatever
\* became of the user meanwhile.
authMiddleware(t, u) ==
    apiSessions[t] # NoRow /\ apiSessions[t] = [user |-> u, state |-> "live"]

-------------------------------------------------------------------------------
\* Users and sessions. The rows of register go in one by one; the insert of
\* the user fails when another request was first with the address.
registerHandler(r) ==
    /\ At(r, "idle")
    /\ \E u \in Emails : apiUsers[u] = "none"
                         /\ Goto(r, [pc |-> "insertUser", user |-> u])
    /\ UNCHANGED <<apiUsers, apiSessions>>

insertUser(r) ==
    LET u == apiCall[r].user IN
    /\ At(r, "insertUser")
    /\ IF apiUsers[u] # "none" THEN Done(r) /\ UNCHANGED apiUsers
       ELSE /\ apiUsers' = [apiUsers EXCEPT ![u] = "active"]
            /\ Goto(r, [pc |-> "insertSession", user |-> u])
    /\ UNCHANGED apiSessions

loginHandler(r) ==
    /\ At(r, "idle")
    /\ \E u \in Emails : apiUsers[u] = "active"
                         /\ Goto(r, [pc |-> "insertSession", user |-> u])
    /\ UNCHANGED <<apiUsers, apiSessions>>

insertSession(r) ==
    /\ At(r, "insertSession")
    /\ \/ \E t \in Tokens :
             /\ apiSessions[t] = NoRow
             /\ apiSessions' = [apiSessions EXCEPT
                   ![t] = [user |-> apiCall[r].user, state |-> "live"]]
       \/ UNCHANGED apiSessions
    /\ Done(r)
    /\ UNCHANGED apiUsers

logoutHandler(t) ==
    /\ apiSessions[t] # NoRow
    /\ apiSessions' = [apiSessions EXCEPT ![t].state = "over"]
    /\ UNCHANGED <<apiUsers, apiCall>>

SessionExpires(t) ==
    /\ apiSessions[t] # NoRow /\ apiSessions[t].state = "live"
    /\ apiSessions' = [apiSessions EXCEPT ![t].state = "over"]
    /\ UNCHANGED <<apiUsers, apiCall>>

\* Any session may delete any user; the user's own sessions stay.
deleteUserHandler(v) ==
    /\ apiUsers' = [apiUsers EXCEPT ![v] = IF @ = "none" THEN @ ELSE "deleted"]
    /\ UNCHANGED <<apiSessions, apiCall>>

-------------------------------------------------------------------------------
\* Workflows: a statement touches a row only if the row is its owner's.
Row(w) == apiWorkflows[w]
Owned(w, u) == Row(w) # NoRow /\ Row(w).owner = u

\* An id is new when there is no row and no request that names it.
Saving(w) == {r \in ApiCalls : At(r, "save") /\ apiCall[r].flow = w}
Insert(w, u, nodes, conns) ==
    /\ Row(w) = NoRow /\ Saving(w) = {}
    /\ torn' = IF nodes # conns THEN torn \union {w} ELSE torn \ {w}
    /\ apiWorkflows' = [apiWorkflows EXCEPT
          ![w] = [owner |-> u, status |-> "draft", nodes |-> nodes, conns |-> conns]]

createWorkflowHandler(u) ==
    /\ \E w \in FlowIds, d \in Drawings : Insert(w, u, d, d)
    /\ UNCHANGED apiCall

\* A save names a workflow that was created and sends nodes, connections or
\* both, which go in by a statement each.  A statement that fails goes unnoticed.
SaveFields == {<<"nodes", "conns">>, <<"nodes">>, <<"conns">>}
updateWorkflowHandler(r, u, w, d, fields) ==
    /\ At(r, "idle") /\ Row(w) # NoRow
    /\ Goto(r, [pc |-> "save", flow |-> w, user |-> u, drawing |-> d,
                fields |-> fields])
    /\ torn' = IF Saving(w) # {} \/ Len(fields) = 1 THEN torn \union {w} ELSE torn
    /\ UNCHANGED apiWorkflows

saveField_FirstOnly(r) ==
    LET q == apiCall[r] IN
    /\ At(r, "save")
    /\ apiWorkflows' = IF Owned(q.flow, q.user)
                       THEN [apiWorkflows EXCEPT ![q.flow].nodes = q.drawing]
                       ELSE apiWorkflows
    /\ Done(r)
    /\ UNCHANGED torn
saveField(r) ==
    LET q == apiCall[r] IN
    /\ At(r, "save")
    /\ \/ /\ apiWorkflows' =
                IF ~Owned(q.flow, q.user) THEN apiWorkflows
                ELSE IF Head(q.fields) = "nodes"
                     THEN [apiWorkflows EXCEPT ![q.flow].nodes = q.drawing]
                     ELSE [apiWorkflows EXCEPT ![q.flow].conns = q.drawing]
          /\ UNCHANGED torn
       \/ torn' = torn \union {q.flow} /\ UNCHANGED apiWorkflows
    /\ IF Len(q.fields) = 1 THEN Done(r)
       ELSE Goto(r, [q EXCEPT !.fields = Tail(@)])

deleteWorkflowHandler(w, u) ==
    /\ Owned(w, u)
    /\ apiWorkflows' = [apiWorkflows EXCEPT ![w] = NoRow]
    /\ UNCHANGED <<apiCall, torn>>

activateWorkflowHandler(w, u) ==
    /\ Owned(w, u)
    /\ apiWorkflows' = [apiWorkflows EXCEPT ![w].status = "active"]
    /\ UNCHANGED <<apiCall, torn>>

deactivateWorkflowHandler(w, u) ==
    /\ Owned(w, u)
    /\ apiWorkflows' = [apiWorkflows EXCEPT ![w].status = "inactive"]
    /\ UNCHANGED <<apiCall, torn>>

\* The graph is read in one statement and inserted again in another.
cloneWorkflowHandler(r, u, w) ==
    /\ At(r, "idle") /\ Owned(w, u)
    /\ Goto(r, [pc |-> "clone", user |-> u,
                nodes |-> Row(w).nodes, conns |-> Row(w).conns])
    /\ UNCHANGED <<apiWorkflows, torn>>

insertClone(r) ==
    LET q == apiCall[r] IN
    /\ At(r, "clone")
    /\ \E w \in FlowIds : Insert(w, q.user, q.nodes, q.conns)
    /\ Done(r)

-------------------------------------------------------------------------------
\* Executions. The row says running before the goroutine starts; at its end
\* the goroutine writes the outcome by the execution's id alone, and does not
\* notice when that fails.
executeWorkflowHandler(r, u, w) ==
    /\ At(r, "idle") /\ Owned(w, u)
    /\ Goto(r, [pc |-> "insertRun", user |-> u])
    /\ UNCHANGED <<apiExecutions, apiRunning>>

insertExecution(r) ==
    /\ At(r, "insertRun")
    /\ \/ \E e \in RunIds :
             /\ apiExecutions[e] = NoRow
             /\ apiExecutions' = [apiExecutions EXCEPT
                   ![e] = [owner |-> apiCall[r].user, status |-> "running"]]
             /\ apiRunning' = apiRunning \union {e}
       \/ UNCHANGED <<apiExecutions, apiRunning>>
    /\ Done(r)

runEnds(e) ==
    /\ e \in apiRunning
    /\ \/ \E s \in {"completed", "failed"} :
             apiExecutions' = [apiExecutions EXCEPT ![e].status = s]
       \/ UNCHANGED apiExecutions
    /\ apiRunning' = apiRunning \ {e}
    /\ UNCHANGED apiCall

cancelExecutionHandler_Any(e, u) ==
    /\ apiExecutions[e] # NoRow /\ apiExecutions[e].owner = u
    /\ apiExecutions' = [apiExecutions EXCEPT ![e].status = "cancelled"]
    /\ UNCHANGED <<apiRunning, apiCall>>
cancelExecutionHandler(e, u) ==
    /\ apiExecutions[e] # NoRow /\ apiExecutions[e].owner = u
    /\ apiExecutions[e].status \in {"pending", "running"}
    /\ apiExecutions' = [apiExecutions EXCEPT ![e].status = "cancelled"]
    /\ UNCHANGED <<apiRunning, apiCall>>

-------------------------------------------------------------------------------
\* Small resources, one statement each. Schedules, webhooks and workspaces are
\* anyone's who has a session; a notification is its user's.
Stored(table) == {k \in DOMAIN table : table[k] # NoRow}
Room == Cardinality(Stored(apiTables.schedules)) + Cardinality(Stored(apiTables.webhooks))
        + Cardinality(Stored(apiTables.notifications))
        + Cardinality(apiTables.organizations) < RowBound

createScheduleHandler(s) ==
    /\ Room /\ apiTables.schedules[s] = NoRow
    /\ apiTables' = [apiTables EXCEPT !.schedules[s] = "active"]
deleteScheduleHandler(s) ==
    apiTables' = [apiTables EXCEPT !.schedules[s] = NoRow]
pauseScheduleHandler(s) ==
    /\ apiTables.schedules[s] # NoRow
    /\ apiTables' = [apiTables EXCEPT !.schedules[s] = "paused"]
resumeScheduleHandler(s) ==
    /\ apiTables.schedules[s] # NoRow
    /\ apiTables' = [apiTables EXCEPT !.schedules[s] = "active"]

createWebhookHandler(h) ==
    /\ Room /\ apiTables.webhooks[h] = NoRow
    /\ apiTables' = [apiTables EXCEPT !.webhooks[h] = "active"]
deleteWebhookHandler(h) ==
    apiTables' = [apiTables EXCEPT !.webhooks[h] = NoRow]

createNotificationHandler(n, u) ==
    /\ Room /\ apiTables.notifications[n] = NoRow
    /\ apiTables' = [apiTables EXCEPT
          !.notifications[n] = [owner |-> u, status |-> "unread"]]
markNotificationReadHandler(n, u) ==
    /\ apiTables.notifications[n] # NoRow
    /\ apiTables.notifications[n].owner = u
    /\ apiTables' = [apiTables EXCEPT !.notifications[n].status = "read"]

createWorkspaceHandler(o) ==
    /\ Room /\ o \notin apiTables.organizations
    /\ apiTables' = [apiTables EXCEPT !.organizations = @ \union {o}]
deleteWorkspaceHandler(o) ==
    apiTables' = [apiTables EXCEPT !.organizations = @ \ {o}]

SmallResources(u) ==
    \/ \E s \in ScheduleIds :
          createScheduleHandler(s) \/ deleteScheduleHandler(s)
          \/ pauseScheduleHandler(s) \/ resumeScheduleHandler(s)
    \/ \E h \in WebhookIds : createWebhookHandler(h) \/ deleteWebhookHandler(h)
    \/ \E n \in NotificationIds :
          createNotificationHandler(n, u) \/ markNotificationReadHandler(n, u)
    \/ \E o \in OrgSlugs : createWorkspaceHandler(o) \/ deleteWorkspaceHandler(o)

-------------------------------------------------------------------------------
Accounts ==
    /\ \/ \E r \in ApiCalls : registerHandler(r) \/ insertUser(r)
                              \/ loginHandler(r) \/ insertSession(r)
       \/ \E t \in Tokens :
             \/ logoutHandler(t) \/ SessionExpires(t)
             \/ \E u, v \in Emails : authMiddleware(t, u) /\ deleteUserHandler(v)
    /\ UNCHANGED <<apiWorkflows, apiExecutions, apiTables, apiRunning, torn>>

WorkflowRequest(u) ==
    \/ createWorkflowHandler(u)
    \/ \E w \in FlowIds :
          \/ deleteWorkflowHandler(w, u)
          \/ activateWorkflowHandler(w, u) \/ deactivateWorkflowHandler(w, u)
          \/ \E r \in ApiCalls :
                \/ cloneWorkflowHandler(r, u, w)
                \/ \E d \in Drawings, fields \in SaveFields :
                      updateWorkflowHandler(r, u, w, d, fields)

Flows ==
    /\ \/ \E t \in Tokens, u \in Emails : authMiddleware(t, u) /\ WorkflowRequest(u)
       \/ \E r \in ApiCalls : saveField(r) \/ insertClone(r)
    /\ UNCHANGED <<apiUsers, apiSessions, apiExecutions, apiTables, apiRunning>>

Runs ==
    /\ \/ \E t \in Tokens, u \in Emails :
             /\ authMiddleware(t, u)
             /\ \/ \E r \in ApiCalls, w \in FlowIds : executeWorkflowHandler(r, u, w)
                \/ \E e \in RunIds : cancelExecutionHandler(e, u)
       \/ \E r \in ApiCalls : insertExecution(r)
       \/ \E e \in RunIds : runEnds(e)
    /\ UNCHANGED <<apiUsers, apiSessions, apiWorkflows, apiTables, torn>>

Small ==
    /\ \E t \in Tokens, u \in Emails : authMiddleware(t, u) /\ SmallResources(u)
    /\ UNCHANGED <<apiUsers, apiSessions, apiWorkflows, apiExecutions, apiCall,
                   apiRunning, torn>>

Next == Accounts \/ Flows \/ Runs \/ Small

Spec == Init /\ [][Next]_apiVars

-------------------------------------------------------------------------------
\* A stored workflow is a graph somebody saved, not the nodes of one save
\* with the connections of another, unless a save is still going on, two
\* saves overlapped, one of them sent only half a graph or lost a statement,
\* or it was copied in the middle of one: the two columns are written each if
\* it was sent, by separate statements whose errors are dropped
\* (main.go:879-886).
SavedTogether ==
    \A w \in FlowIds :
        Row(w) # NoRow /\ Row(w).nodes # Row(w).conns =>
            w \in torn \/ Saving(w) # {}

\* A settled execution changes only once more, when its own run ends: a
\* cancelled execution is overwritten by the outcome of the run that nobody
\* stopped (main.go:995-1010), and after that its status stays.
SettlesItself ==
    \A e \in RunIds :
        /\ apiExecutions[e] # NoRow
        /\ apiExecutions[e].status # "running"
        /\ apiExecutions'[e] # apiExecutions[e]
        => e \in apiRunning /\ e \notin apiRunning'
SettledByItsRun == [][SettlesItself]_apiVars

\* Why: a whole save that meets no other and loses no statement puts nodes and
\* connections together again, and a run stays registered until it has written its outcome.
SaveKnown(r) ==
    LET q == apiCall[r] IN
    At(r, "save") =>
        /\ q = [pc |-> "save", flow |-> q.flow, user |-> q.user, drawing |-> q.drawing, fields |-> q.fields]
        /\ q.flow \in FlowIds /\ q.fields \in SaveFields
FlowKnown(w) ==
    LET row == Row(w) IN
    /\ row # NoRow =>
         row = [owner |-> row.owner, status |-> row.status, nodes |-> row.nodes, conns |-> row.conns]
    /\ w \notin torn =>
         /\ \A r, q \in Saving(w) : r = q
         /\ row # NoRow /\ Saving(w) = {} => row.nodes = row.conns
         /\ \A r \in Saving(w) : apiCall[r].fields # <<"nodes">>
         /\ \A r \in Saving(w) : row # NoRow =>
              IF apiCall[r].user = row.owner
              THEN apiCall[r].fields = <<"conns">> => row.nodes = apiCall[r].drawing
              ELSE row.nodes = row.conns
RunKnown(e) ==
    LET row == apiExecutions[e] IN
    /\ row # NoRow => /\ row = [owner |-> row.owner, status |-> row.status]
                      /\ row.status \in {"running", "completed", "failed", "cancelled"}
    /\ e \in apiRunning => row = [owner |-> row.owner, status |-> row.status]
ApiInv ==
    /\ DOMAIN apiCall = ApiCalls /\ DOMAIN apiWorkflows = FlowIds /\ DOMAIN apiExecutions = RunIds
    /\ apiRunning \subseteq RunIds
    /\ \A r \in ApiCalls : SaveKnown(r)
    /\ \A w \in FlowIds : FlowKnown(w)
    /\ \A e \in RunIds : RunKnown(e)
===============================================================================
