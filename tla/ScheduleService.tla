---------------------------- MODULE ScheduleService ---------------------------
(***************************************************************************)
(* The schedule service: HTTP handlers, ScheduleService, the cron-backed   *)
(* Scheduler, the schedules table and the Redis cache.  The server calls   *)
(* Scheduler.Start before it listens, so requests come only once Start has *)
(* returned; a restart loses the cron jobs and keeps the table.            *)
(***************************************************************************)
EXTENDS Naturals, FiniteSets

CONSTANTS
    ScheduleIds,        \* schedules that can be created
    Owners,             \* authenticated users
    NoSchedule,         \* no such row
    RunBound            \* bound on the runs that are recorded

VARIABLES
    scheduleRows,       \* schedules table: id -> [owner, status, runs] or NoSchedule
    dueRows,            \* ids whose next_run_at has passed
    scheduleCache,      \* ids cached by GetSchedule
    scheduler,          \* "down" | "running" | "stuck"
    jobs,               \* Scheduler.jobs: ids with a cron entry
    triggered,          \* runs requested by event: [by, id] -> count
    scheduleReply       \* the last answer: [op, code]

scheduleVars ==
    <<scheduleRows, dueRows, scheduleCache, scheduler, jobs, triggered,
      scheduleReply>>

Init ==
    /\ scheduleRows = [id \in ScheduleIds |-> NoSchedule]
    /\ dueRows = {}
    /\ scheduleCache = {}
    /\ scheduler = "down"
    /\ jobs = {}
    /\ triggered = [by \in {"manual", "scheduler"} |-> 0]
    /\ scheduleReply = [op |-> "none", code |-> 0]

-------------------------------------------------------------------------------
\* The aggregate in memory: which row it believes to be, whether a mutator has
\* set updatedAt since it was read, and where its next run lies.

\* The model's parser takes five fields, and nothing else.
NewSchedule(id, owner, fields, ended) ==
    [ok |-> fields = 5,
     s |-> [id |-> id, owner |-> owner, touched |-> ended, runs |-> 0,
            status |-> IF ended THEN "expired" ELSE "active",
            nextRun |-> "future"]]

\* A row comes back through NewSchedule: active unless its end date has passed,
\* never run, due in the future, and under an id of its own.
toDomain(id) ==
    NewSchedule(NoSchedule, scheduleRows[id].owner, 5,
                scheduleRows[id].status = "expired").s

Pause(s) ==
    [ok |-> s.status = "active",
     s |-> [s EXCEPT !.status = "paused", !.touched = TRUE]]

Resume(s) ==
    [ok |-> s.status = "paused",
     s |-> [s EXCEPT !.status = "active", !.touched = TRUE]]

\* The setters that an update calls; the values it sets have been checked.
Edit(s) == [ok |-> TRUE, s |-> [s EXCEPT !.touched = TRUE]]

RecordRun(s) == [s EXCEPT !.runs = @ + 1, !.touched = TRUE]

ShouldRun(s) == s.status = "active" /\ s.nextRun = "past"

-------------------------------------------------------------------------------
\* The repository.
RowOf(s) == [owner |-> s.owner, status |-> s.status, runs |-> s.runs]

Save(s) == [scheduleRows EXCEPT ![s.id] = RowOf(s)]

\* WHERE id AND updated_at = what the object says it was.
Update(s) ==
    IF s.id \in ScheduleIds /\ ~s.touched /\ scheduleRows[s.id] # NoSchedule
    THEN [ok |-> TRUE, rows |-> Save(s)]
    ELSE [ok |-> FALSE, rows |-> scheduleRows]

FindByStatus(st) ==
    {id \in ScheduleIds : scheduleRows[id] # NoSchedule /\ scheduleRows[id].status = st}

FindDueSchedules == dueRows \intersect FindByStatus("active")

-------------------------------------------------------------------------------
\* The scheduler. Its cron was built WithSeconds: it wants six fields, where
\* every expression that NewSchedule accepted has five.
AddFunc(fields) == fields = 6

RegisterSchedule(s, fields) ==
    jobs' = IF scheduler # "running" THEN jobs
            ELSE (jobs \ {s.id}) \union
                 (IF s.status = "active" /\ AddFunc(fields) THEN {s.id} ELSE {})

\* The event is published or the failure is recorded; the update that records
\* the run is refused silently either way.
ExecuteSchedule(s, by) ==
    /\ scheduleRows' = Update(RecordRun(s)).rows
    /\ \/ triggered' = [triggered EXCEPT ![by] = @ + 1]
       \/ UNCHANGED triggered

\* Start holds s.mu while loadActiveSchedules registers each active schedule,
\* which locks s.mu again: with one active row it never returns.
Start ==
    /\ scheduler = "down"
    /\ scheduler' = IF FindByStatus("active") = {} THEN "running" ELSE "stuck"
    /\ UNCHANGED <<scheduleRows, dueRows, scheduleCache, jobs, triggered,
                   scheduleReply>>

\* Shutdown calls Stop; a crash ends the process as well. Either way the cron
\* jobs are gone, and a process stuck in Start can only be killed.
Stop ==
    /\ scheduler # "down"
    /\ scheduler' = "down"
    /\ jobs' = {}
    /\ UNCHANGED <<scheduleRows, dueRows, scheduleCache, triggered,
                   scheduleReply>>

\* The minute tick: a due schedule that has no job is registered and executed,
\* if the object read from its row says that it should run.
checkDueSchedules ==
    /\ scheduler = "running"
    /\ \E id \in FindDueSchedules :
          LET s == toDomain(id) IN
          IF ShouldRun(s) /\ s.id \notin jobs
          THEN /\ triggered["scheduler"] < RunBound
               /\ RegisterSchedule(s, 5)
               /\ ExecuteSchedule(s, "scheduler")
          ELSE UNCHANGED <<jobs, scheduleRows, triggered>>
    /\ UNCHANGED <<dueRows, scheduleCache, scheduler, scheduleReply>>

-------------------------------------------------------------------------------
\* The service. An operation that finds the row and checks the owner answers
\* with an error of its own, "none" when it went through.
LoadErr(id, u) ==
    IF scheduleRows[id] = NoSchedule THEN "not found"
    ELSE IF scheduleRows[id].owner # u THEN "unauthorized"
    ELSE "none"

CreateSchedule(id, u, fields, ended) ==
    LET n == NewSchedule(id, u, fields, ended) IN
    IF n.ok
    THEN /\ scheduleRows' = Save(n.s)
         /\ RegisterSchedule(n.s, fields)
    ELSE UNCHANGED <<scheduleRows, jobs>>

\* Update, pause and resume write the object read from the row, then tell the
\* scheduler and drop the cache entry: [err, s].
WriteErr(id, u, m) ==
    IF LoadErr(id, u) # "none" THEN LoadErr(id, u)
    ELSE IF m.ok /\ Update(m.s).ok THEN "none" ELSE "refused"

UpdateSchedule(id, u) ==
    LET m == Edit(toDomain(id)) IN
    IF WriteErr(id, u, m) = "none"
    THEN /\ scheduleRows' = Update(m.s).rows
         /\ RegisterSchedule(m.s, 5)
         /\ scheduleCache' = scheduleCache \ {id}
    ELSE UNCHANGED <<scheduleRows, jobs, scheduleCache>>

PauseSchedule(id, u) ==
    LET m == Pause(toDomain(id)) IN
    IF WriteErr(id, u, m) = "none"
    THEN /\ scheduleRows' = Update(m.s).rows
         /\ jobs' = jobs \ {id}
         /\ scheduleCache' = scheduleCache \ {id}
    ELSE UNCHANGED <<scheduleRows, jobs, scheduleCache>>

ResumeSchedule(id, u) ==
    LET m == Resume(toDomain(id)) IN
    IF WriteErr(id, u, m) = "none"
    THEN /\ scheduleRows' = Update(m.s).rows
         /\ RegisterSchedule(m.s, 5)
         /\ scheduleCache' = scheduleCache \ {id}
    ELSE UNCHANGED <<scheduleRows, jobs, scheduleCache>>

\* Mutant: the row is gone before the owner is asked for.
DeleteSchedule_Unasked(id, u) ==
    IF LoadErr(id, u) # "not found"
    THEN /\ scheduleRows' = [scheduleRows EXCEPT ![id] = NoSchedule]
         /\ jobs' = jobs \ {id}
         /\ scheduleCache' = scheduleCache \ {id}
    ELSE UNCHANGED <<scheduleRows, jobs, scheduleCache>>

DeleteSchedule(id, u) ==
    IF LoadErr(id, u) = "none"
    THEN /\ scheduleRows' = [scheduleRows EXCEPT ![id] = NoSchedule]
         /\ jobs' = jobs \ {id}
         /\ scheduleCache' = scheduleCache \ {id}
    ELSE UNCHANGED <<scheduleRows, jobs, scheduleCache>>

\* The cache holds an empty schedule (no field is exported), which belongs to
\* nobody: a hit is refused to the owner too.
GetErr(id, u) == IF id \in scheduleCache THEN "unauthorized" ELSE LoadErr(id, u)

GetSchedule(id, u) ==
    scheduleCache' = IF GetErr(id, u) = "none" THEN scheduleCache \union {id}
                                               ELSE scheduleCache

-------------------------------------------------------------------------------
\* The handlers.
CodeOf(err, refused) ==
    CASE err = "none" -> 200 [] err = "not found" -> 404
      [] err = "unauthorized" -> 403 [] OTHER -> refused

Reply(op, code) == scheduleReply' = [op |-> op, code |-> code]

HandleCreateSchedule(id) ==
    /\ scheduler = "running" /\ scheduleRows[id] = NoSchedule
    /\ \E u \in Owners, fields \in {5, 6}, ended \in BOOLEAN :
          /\ CreateSchedule(id, u, fields, ended)
          /\ Reply("create", IF fields = 5 THEN 201 ELSE 500)
    \* The row is a new one, whose next run lies in the future.
    /\ dueRows' = dueRows \ {id}
    /\ UNCHANGED <<scheduleCache, scheduler, triggered>>

HandleGetSchedule(id, u) ==
    /\ scheduler = "running"
    /\ GetSchedule(id, u)
    /\ Reply("get", CodeOf(GetErr(id, u), 500))
    /\ UNCHANGED <<scheduleRows, dueRows, scheduler, jobs, triggered>>

HandleUpdateSchedule(id, u) ==
    /\ scheduler = "running"
    /\ UpdateSchedule(id, u)
    /\ Reply("update", CodeOf(WriteErr(id, u, Edit(toDomain(id))), 400))
    /\ UNCHANGED <<dueRows, scheduler, triggered>>

HandlePauseSchedule(id, u) ==
    /\ scheduler = "running"
    /\ PauseSchedule(id, u)
    /\ Reply("pause", CodeOf(WriteErr(id, u, Pause(toDomain(id))), 400))
    /\ UNCHANGED <<dueRows, scheduler, triggered>>

HandleResumeSchedule(id, u) ==
    /\ scheduler = "running"
    /\ ResumeSchedule(id, u)
    /\ Reply("resume", CodeOf(WriteErr(id, u, Resume(toDomain(id))), 400))
    /\ UNCHANGED <<dueRows, scheduler, triggered>>

HandleDeleteSchedule(id, u) ==
    /\ scheduler = "running"
    /\ DeleteSchedule(id, u)
    /\ Reply("delete", CodeOf(LoadErr(id, u), 500))
    /\ UNCHANGED <<dueRows, scheduler, triggered>>

HandleExecuteSchedule(id, u) ==
    /\ scheduler = "running"
    /\ triggered["manual"] < RunBound
    /\ Reply("execute", CodeOf(LoadErr(id, u), 500))
    /\ IF LoadErr(id, u) = "none" THEN ExecuteSchedule(toDomain(id), "manual")
       ELSE UNCHANGED <<scheduleRows, triggered>>
    /\ UNCHANGED <<dueRows, scheduleCache, scheduler, jobs>>

\* The database refuses the statement of a request: the error is answered
\* before the scheduler or the cache is told anything.
RepositoryFails(op) ==
    /\ scheduler = "running"
    /\ Reply(op, IF op \in {"update", "pause", "resume"} THEN 400 ELSE 500)
    /\ UNCHANGED <<scheduleRows, dueRows, scheduleCache, scheduler, jobs, triggered>>

\* Time: a row becomes due, a cache entry expires.
BecomesDue(id) ==
    /\ scheduleRows[id] # NoSchedule /\ id \notin dueRows
    /\ dueRows' = dueRows \union {id}
    /\ UNCHANGED <<scheduleRows, scheduleCache, scheduler, jobs, triggered,
                   scheduleReply>>

CacheExpires(id) ==
    /\ id \in scheduleCache
    /\ scheduleCache' = scheduleCache \ {id}
    /\ UNCHANGED <<scheduleRows, dueRows, scheduler, jobs, triggered,
                   scheduleReply>>

Next ==
    \/ Start \/ Stop \/ checkDueSchedules
    \/ \E op \in {"create", "get", "update", "pause", "resume", "delete", "execute"} :
          RepositoryFails(op)
    \/ \E id \in ScheduleIds :
          \/ HandleCreateSchedule(id) \/ BecomesDue(id) \/ CacheExpires(id)
          \/ \E u \in Owners :
                \/ HandleGetSchedule(id, u) \/ HandleUpdateSchedule(id, u)
                \/ HandlePauseSchedule(id, u) \/ HandleResumeSchedule(id, u)
                \/ HandleDeleteSchedule(id, u) \/ HandleExecuteSchedule(id, u)

\* The supervisor restarts the process; the minute ticker ticks.
Spec ==
    /\ Init /\ [][Next]_scheduleVars
    /\ WF_scheduleVars(Start) /\ WF_scheduleVars(checkDueSchedules)

-------------------------------------------------------------------------------
\* A request that is answered with an error has changed nothing: whoever asks,
\* and whether the row, the owner, the expression, the state or the database
\* refuses it, rows, jobs, cache and runs are as they were
\* (schedule_service.go:78-445).
RefusalLeavesNoTrace ==
    scheduleReply' # scheduleReply /\ scheduleReply'.code >= 400 =>
        UNCHANGED <<scheduleRows, jobs, scheduleCache, triggered>>
===============================================================================
