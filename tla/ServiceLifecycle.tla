--------------------------- MODULE ServiceLifecycle ---------------------------
(***************************************************************************)
(* The life of a service process, from main to its end.  A service is      *)
(* described by what its main does itself, what its server opens and in    *)
(* which order, and what its server closes; the process that runs these    *)
(* descriptions is the same for all of them.  Requests are counted, and so *)
(* are the tasks that outlive the request or the start that began them.    *)
(***************************************************************************)
EXTENDS Naturals, Sequences, FiniteSets

CONSTANTS
    RequestBound,       \* requests being served at a time
    TaskBound           \* background tasks at a time

VARIABLES
    service,            \* the service this process runs
    phase,              \* where main is
    steps,              \* what it still has to open, or to close
    opened,             \* connections, pools and providers that are open
    listener,           \* "off", "listening", "failed" or "closed"
    requests, tasks,    \* requests being served, background tasks running
    overran             \* http.Server.Shutdown gave up waiting

lifeVars == <<service, phase, steps, opened, listener, requests, tasks, overran>>

Required(r) == [name |-> r, required |-> TRUE]
Optional(r) == [name |-> r, required |-> FALSE]

\* What main does: whether it can do without its configuration, what it opens
\* itself, what it closes by defer, and what becomes of it when the listener
\* fails: it shuts down, only logs it, or ends by log.Fatal.
PlainMain == [config |-> TRUE, opens |-> <<>>, defers |-> {}, deaf |-> "wakes"]
TracedMain == [PlainMain EXCEPT !.opens = <<Required("telemetry")>>,
                                !.defers = {"telemetry"}]
BareMain == [PlainMain EXCEPT !.config = FALSE, !.deaf = "logs"]

adminMain == PlainMain
analyticsMain == TracedMain
authMain == TracedMain
backupMain == PlainMain
configMain == PlainMain
executionMain == TracedMain
gatewayMain == PlainMain
integrationMain == PlainMain
migrationMain == [PlainMain EXCEPT !.opens = <<Required("database")>>,
                                   !.defers = {"database"}]
monitoringMain == PlainMain
nodeMain == TracedMain
notificationMain == TracedMain
scheduleMain == TracedMain
searchMain == TracedMain
storageMain == PlainMain
userMain == TracedMain
webhookMain == TracedMain
workflowMain == TracedMain
credentialMain == BareMain
tenantMain == BareMain
executorMain == [BareMain EXCEPT !.opens = <<Required("workers")>>]
apiMain == [BareMain EXCEPT !.opens = <<Required("database")>>,
                            !.defers = {"database"}, !.deaf = "fatal"]

\* What initialize opens. Cache and publisher are done without if they fail.
DatabaseOnly == <<Required("database")>>
WithCache == <<Required("database"), Optional("cache")>>
WithEvents == <<Required("database"), Optional("cache"), Optional("publisher")>>

analyticsOpens == WithCache
authOpens == DatabaseOnly
executionOpens == WithEvents
nodeOpens == WithEvents
notificationOpens == WithEvents
scheduleOpens == WithEvents \o <<Required("scheduler")>>
userOpens == DatabaseOnly
webhookOpens == WithEvents
workflowOpens == DatabaseOnly

\* What Shutdown does in order; "http" is http.Server.Shutdown.
HttpOnly == <<"http">>
analyticsShutdown == <<"http", "database", "cache">>
authShutdown == <<"http", "database">>
executionShutdown == <<"http", "database", "cache", "publisher">>
nodeShutdown == <<"http", "database", "cache", "publisher">>
notificationShutdown == <<"http", "database", "cache", "publisher">>
scheduleShutdown == <<"scheduler", "http", "database", "cache", "publisher">>
searchShutdown == HttpOnly
userShutdown == <<"http", "database">>
webhookShutdown_Events == <<"http", "database", "cache">>
webhookShutdown == <<"http", "database", "cache", "publisher">>
workflowShutdown_Early == <<"database", "http">>
workflowShutdown == <<"http", "database">>
executorShutdown == <<"workers", "http">>

Entry(main, opens, shutdown, background) ==
    [main |-> main, opens |-> opens, shutdown |-> shutdown, background |-> background]

\* Background work nobody waits for: the installation of the system nodes,
\* and executions that go on after the request that started them.
Service ==
    [admin |-> Entry(adminMain, <<>>, HttpOnly, "none"),
     analytics |-> Entry(analyticsMain, analyticsOpens, analyticsShutdown, "none"),
     auth |-> Entry(authMain, authOpens, authShutdown, "none"),
     backup |-> Entry(backupMain, <<>>, HttpOnly, "none"),
     config |-> Entry(configMain, <<>>, HttpOnly, "none"),
     execution |-> Entry(executionMain, executionOpens, executionShutdown, "request"),
     gateway |-> Entry(gatewayMain, <<>>, HttpOnly, "none"),
     integration |-> Entry(integrationMain, <<>>, HttpOnly, "none"),
     migration |-> Entry(migrationMain, <<>>, HttpOnly, "none"),
     monitoring |-> Entry(monitoringMain, <<>>, HttpOnly, "none"),
     node |-> Entry(nodeMain, nodeOpens, nodeShutdown, "start"),
     notification |-> Entry(notificationMain, notificationOpens, notificationShutdown, "none"),
     schedule |-> Entry(scheduleMain, scheduleOpens, scheduleShutdown, "none"),
     search |-> Entry(searchMain, <<>>, searchShutdown, "none"),
     storage |-> Entry(storageMain, <<>>, HttpOnly, "none"),
     user |-> Entry(userMain, userOpens, userShutdown, "none"),
     webhook |-> Entry(webhookMain, webhookOpens, webhookShutdown, "none"),
     workflow |-> Entry(workflowMain, workflowOpens, workflowShutdown, "none"),
     credential |-> Entry(credentialMain, <<>>, HttpOnly, "none"),
     tenant |-> Entry(tenantMain, <<>>, HttpOnly, "none"),
     executor |-> Entry(executorMain, <<>>, executorShutdown, "none"),
     api |-> Entry(apiMain, <<>>, HttpOnly, "request")]

Init ==
    /\ service \in DOMAIN Service
    /\ phase = "config" /\ steps = <<>> /\ opened = {}
    /\ listener = "off" /\ requests = 0 /\ tasks = 0 /\ overran = FALSE

this == Service[service]

-------------------------------------------------------------------------------
LoadConfig ==
    /\ phase = "config"
    /\ \/ phase' = "opening" /\ steps' = this.main.opens \o this.opens
       \/ this.main.config /\ phase' = "panicked" /\ steps' = <<>>
    /\ UNCHANGED <<service, opened, listener, requests, tasks, overran>>

\* A required step that fails ends the process by log.Fatal: deferred calls do
\* not run, and what is open is left to the operating system.
initialize ==
    /\ phase = "opening" /\ steps # <<>>
    /\ \/ /\ opened' = opened \union {Head(steps).name}
          /\ steps' = Tail(steps) /\ UNCHANGED phase
       \/ /\ Head(steps).name # "workers"
          /\ IF Head(steps).required THEN phase' = "fatal" /\ steps' = <<>>
             ELSE steps' = Tail(steps) /\ UNCHANGED phase
          /\ UNCHANGED opened
    /\ UNCHANGED <<service, listener, requests, tasks, overran>>

\* server.New returned; Start goes on in a goroutine of its own.
New ==
    /\ phase = "opening" /\ steps = <<>>
    /\ phase' = "waiting"
    /\ tasks' = IF this.background = "start" THEN 1 ELSE 0
    /\ UNCHANGED <<service, steps, opened, listener, requests, overran>>

\* ListenAndServe takes the port or fails.
Start ==
    /\ phase \in {"waiting", "stopping"} /\ listener = "off"
    /\ listener' \in {"listening", "failed"}
    /\ phase' = IF listener' = "failed" /\ this.main.deaf = "fatal" THEN "fatal"
                ELSE phase
    /\ UNCHANGED <<service, steps, opened, requests, tasks, overran>>

RequestComes ==
    /\ listener = "listening" /\ requests < RequestBound
    /\ requests' = requests + 1
    /\ UNCHANGED <<service, phase, steps, opened, listener, tasks, overran>>

RequestEnds ==
    /\ requests > 0
    /\ requests' = requests - 1
    /\ \/ UNCHANGED tasks
       \/ this.background = "request" /\ tasks < TaskBound /\ tasks' = tasks + 1
    /\ UNCHANGED <<service, phase, steps, opened, listener, overran>>

TaskEnds ==
    /\ tasks > 0
    /\ tasks' = tasks - 1
    /\ UNCHANGED <<service, phase, steps, opened, listener, requests, overran>>

\* main is woken by a signal or, where it waits for that too, by the failure
\* of the listener; after either it calls Shutdown.
Wake ==
    /\ phase = "waiting"
    /\ phase' = "stopping" /\ steps' = this.shutdown
    /\ UNCHANGED <<service, opened, listener, requests, tasks, overran>>

Signal == Wake
ListenerFailed == this.main.deaf = "wakes" /\ listener = "failed" /\ Wake

\* The listener is closed at once; then the requests are waited for, but not
\* longer than the context allows. The api ends by log.Fatal then.
HttpShutdown ==
    /\ phase = "stopping" /\ steps # <<>> /\ Head(steps) = "http"
    /\ IF listener \in {"off", "listening"}
       THEN listener' = "closed" /\ UNCHANGED <<phase, steps, overran>>
       ELSE /\ UNCHANGED listener
            /\ \/ requests = 0 /\ steps' = Tail(steps) /\ UNCHANGED <<phase, overran>>
               \/ /\ requests > 0 /\ overran' = TRUE
                  /\ IF this.main.deaf = "fatal" THEN phase' = "fatal" /\ steps' = <<>>
                     ELSE steps' = Tail(steps) /\ UNCHANGED phase
    /\ UNCHANGED <<service, opened, requests, tasks>>

Close ==
    /\ phase = "stopping" /\ steps # <<>> /\ Head(steps) # "http"
    /\ opened' = opened \ {Head(steps)}
    /\ steps' = Tail(steps)
    /\ UNCHANGED <<service, phase, listener, requests, tasks, overran>>

\* The deferred calls of main close what main opened.
Return ==
    /\ phase = "stopping" /\ steps = <<>>
    /\ opened' = opened \ this.main.defers
    /\ phase' = "returned"
    /\ UNCHANGED <<service, steps, listener, requests, tasks, overran>>

Ended == phase \in {"returned", "fatal", "panicked"}

Next ==
    \/ LoadConfig
    \/ ~Ended /\ ( \/ initialize \/ New \/ Start
                   \/ RequestComes \/ RequestEnds \/ TaskEnds
                   \/ Signal \/ ListenerFailed
                   \/ HttpShutdown \/ Close \/ Return )

Spec == Init /\ [][Next]_lifeVars

-------------------------------------------------------------------------------
ToSet(s) == {s[i] : i \in DOMAIN s}
Openings == this.main.opens \o this.opens
NeedsDatabase == "database" \in {r.name : r \in ToSet(Openings)}

\* A request is served with its database open until it ends or its time is
\* over: a server waits for its requests before it closes what they use, and
\* only the timeout of http.Server.Shutdown cuts a request off.  Background
\* tasks have no such promise (execution_service.go:322, node server.go).
ServedWithDatabase ==
    requests > 0 /\ ~overran /\ ~Ended /\ NeedsDatabase => "database" \in opened

\* A main that returns has closed all that was opened on the way, whatever
\* was available at the start and however long the requests took.
ClosedWhenReturned == phase = "returned" => opened = {}

\* Why: what is still to be closed covers what is open, the database comes after
\* "http", and past "http" no request is left that was not cut off.
LifeInv ==
    /\ service \in DOMAIN Service /\ requests \in Nat
    /\ phase \in {"config", "opening", "waiting", "stopping", "returned", "fatal", "panicked"}
    /\ listener \in {"off", "listening", "failed", "closed"}
    /\ phase \in {"config", "opening"} => requests = 0 /\ listener = "off"
    /\ phase = "config" => opened = {}
    /\ "http" \notin opened
    /\ phase = "opening" =>
         /\ steps \in Seq(ToSet(Openings))
         /\ NeedsDatabase => "database" \in opened \union {r.name : r \in ToSet(steps)}
    /\ phase \in {"opening", "waiting"} => opened \subseteq ToSet(this.shutdown) \union this.main.defers
    /\ phase = "waiting" /\ NeedsDatabase => "database" \in opened
    /\ phase = "stopping" =>
         /\ steps \in Seq(ToSet(this.shutdown))
         /\ opened \subseteq ToSet(steps) \union this.main.defers
         /\ \A i, j \in DOMAIN steps : steps[i] = "database" /\ steps[j] = "http" => j < i
         /\ IF "http" \in ToSet(steps) THEN NeedsDatabase => "database" \in opened
            ELSE listener \in {"closed", "failed"} /\ (requests = 0 \/ overran)
    /\ ClosedWhenReturned
===============================================================================
