---------------------------- MODULE EngineScheduler ---------------------------
(***************************************************************************)
(* The engine's Scheduler (internal/engine/scheduler.go) with its in-memory *)
(* repository.  Callers are goroutines; s.mu is a lock that is not          *)
(* re-entrant, so a caller that takes it twice waits for itself.  A         *)
(* schedule is one shared object: the repository, the map and the cron      *)
(* closures hold pointers to it.                                            *)
(***************************************************************************)
EXTENDS Naturals, FiniteSets

CONSTANTS
    Callers,            \* goroutines that call the scheduler
    EngineSchedules,    \* schedule ids
    EntryBound,         \* bound on cron entries ever added
    Nobody              \* the lock is free

VARIABLES
    mu,                 \* holder of s.mu
    pc,                 \* caller -> [op, id, entry], op "idle" between calls
    toLoad,             \* enabled schedules that Start has yet to add
    stored,             \* ids in the repository
    schedules,          \* s.schedules: ids in the map
    entryOf,            \* id -> EntryID of its object, 0 if none
    entries,            \* live cron entries <<EntryID, id>>
    lastEntry,          \* EntryIDs given out
    overlapped          \* history: ids on which calls overlapped, or which were
                        \* enabled or created while they were in the map

engineSchedulerVars ==
    <<mu, pc, toLoad, stored, schedules, entryOf, entries, lastEntry, overlapped>>
cronVars == <<entryOf, entries, lastEntry>>

Idle == [op |-> "idle", id |-> Nobody, entry |-> 0]

Init ==
    /\ mu = Nobody
    /\ pc = [c \in Callers |-> Idle]
    \* What the repository holds when the process starts, enabled or not.
    /\ stored \in SUBSET EngineSchedules
    /\ toLoad \in SUBSET stored
    /\ schedules = {}
    /\ entryOf = [id \in EngineSchedules |-> 0]
    /\ entries = {}
    /\ lastEntry = 0
    /\ overlapped = {}

Goto(c, op, id) == pc' = [pc EXCEPT ![c] = [op |-> op, id |-> id, entry |-> 0]]

\* The call of c is over; UpdateSchedule gives its lock back.
Return(c) == pc' = [pc EXCEPT ![c] = Idle] /\ mu' = IF mu = c THEN Nobody ELSE mu

\* c may call: it is not in a call, and Start has loaded everything.
Free(c) == pc[c] = Idle /\ toLoad = {}

UnderWay(id) == \E c \in Callers : pc[c].op # "idle" /\ pc[c].id = id

\* A call on id begins, adding says that it is to add a cron entry.
Begin(id, adding) ==
    overlapped' = IF UnderWay(id) \/ (adding /\ id \in schedules)
                  THEN overlapped \union {id} ELSE overlapped

\* cron.Remove of the entry that the object of id names.
Removed(id) == {e \in entries : e[1] # entryOf[id]}

-------------------------------------------------------------------------------
\* addSchedule, step by step: the cron entry is live before the object names
\* it, and the object names it before the map knows of it.  A schedule with
\* neither an expression nor an interval, and a spec that cron refuses, end the
\* call with an error.
AddFunc(c) ==
    /\ pc[c].op = "addfunc"
    /\ \/ Return(c) /\ UNCHANGED <<entries, lastEntry>>
       \/ /\ lastEntry < EntryBound
          /\ lastEntry' = lastEntry + 1
          /\ entries' = entries \union {<<lastEntry + 1, pc[c].id>>}
          /\ pc' = [pc EXCEPT ![c].op = "name", ![c].entry = lastEntry + 1]
          /\ UNCHANGED mu
    /\ UNCHANGED <<toLoad, stored, schedules, entryOf, overlapped>>

\* Mutant: a schedule keeps the EntryID it was given first.
NameEntry_FirstId(c) ==
    /\ pc[c].op = "name"
    /\ entryOf' = [entryOf EXCEPT ![pc[c].id] = IF @ = 0 THEN pc[c].entry ELSE @]
    /\ Goto(c, "add", pc[c].id)
    /\ UNCHANGED <<mu, toLoad, stored, schedules, entries, lastEntry, overlapped>>

\* schedule.EntryID = entryID, without the lock.
NameEntry(c) ==
    /\ pc[c].op = "name"
    /\ entryOf' = [entryOf EXCEPT ![pc[c].id] = pc[c].entry]
    /\ Goto(c, "add", pc[c].id)
    /\ UNCHANGED <<mu, toLoad, stored, schedules, entries, lastEntry, overlapped>>

\* The lock at the end of addSchedule, and the map entry made under it.  A
\* caller that holds the lock already waits here for itself.
AddToMap(c) ==
    /\ pc[c].op = "add"
    /\ mu = Nobody
    /\ schedules' = schedules \union {pc[c].id}
    /\ Return(c)
    /\ UNCHANGED <<toLoad, stored, cronVars, overlapped>>

\* Start loads the enabled schedules one by one, before the cron runs and
\* before anyone calls, and passes over those that addSchedule refuses.
Start(id) ==
    /\ id \in toLoad
    /\ toLoad' = toLoad \ {id}
    /\ \/ UNCHANGED <<cronVars, schedules>>
       \/ /\ lastEntry < EntryBound
          /\ lastEntry' = lastEntry + 1
          /\ entries' = entries \union {<<lastEntry + 1, id>>}
          /\ entryOf' = [entryOf EXCEPT ![id] = lastEntry + 1]
          /\ schedules' = schedules \union {id}
    /\ UNCHANGED <<mu, pc, stored, overlapped>>

-------------------------------------------------------------------------------
\* The operations.  The repository refuses a write or takes it; a call that it
\* refuses ends with the error.
CreateSchedule(c, id, on) ==
    /\ Free(c) /\ id \notin stored
    /\ Begin(id, TRUE)
    /\ stored' = stored \union {id}
    /\ IF on THEN Goto(c, "addfunc", id) ELSE UNCHANGED pc
    /\ UNCHANGED <<toLoad, mu, schedules, cronVars>>

\* UpdateSchedule holds s.mu to its end, addSchedule included.
UpdateSchedule(c, id, on) ==
    /\ Free(c) /\ mu = Nobody
    /\ Begin(id, FALSE)
    /\ entries' = IF id \in schedules THEN Removed(id) ELSE entries
    /\ schedules' = schedules \ {id}
    /\ \/ UNCHANGED <<stored, mu, pc>>
       \/ /\ stored' = stored \union {id}
          /\ IF on THEN mu' = c /\ Goto(c, "addfunc", id) ELSE UNCHANGED <<mu, pc>>
    /\ UNCHANGED <<toLoad, entryOf, lastEntry>>

DeleteSchedule(c, id) ==
    /\ Free(c) /\ mu = Nobody
    /\ Begin(id, FALSE)
    /\ entries' = IF id \in schedules THEN Removed(id) ELSE entries
    /\ schedules' = schedules \ {id}
    /\ stored' \in {stored, stored \ {id}}
    /\ UNCHANGED <<toLoad, mu, pc, entryOf, lastEntry>>

\* EnableSchedule looks the object up under the lock, and changes and adds it
\* after the unlock, whether or not it is enabled already.
EnableSchedule(c, id) ==
    /\ Free(c) /\ mu = Nobody
    /\ id \in schedules \union stored
    /\ Begin(id, TRUE)
    /\ Goto(c, "enable", id)
    /\ UNCHANGED <<toLoad, mu, stored, schedules, cronVars>>

EnableUpdate(c) ==
    /\ pc[c].op = "enable"
    /\ \/ Return(c) /\ UNCHANGED stored
       \/ /\ stored' = stored \union {pc[c].id}
          /\ Goto(c, "addfunc", pc[c].id)
          /\ UNCHANGED mu
    /\ UNCHANGED <<toLoad, schedules, cronVars, overlapped>>

DisableSchedule(c, id) ==
    /\ Free(c) /\ mu = Nobody
    /\ id \in schedules
    /\ Begin(id, FALSE)
    /\ entries' = Removed(id)
    /\ schedules' = schedules \ {id}
    /\ stored' \in {stored, stored \union {id}}
    /\ UNCHANGED <<toLoad, mu, pc, entryOf, lastEntry>>

\* A cron entry fires, without the lock: a scheduler without a worker pool
\* writes the object back, deleted or not.
executeScheduledWorkflow(e) ==
    /\ stored' = stored \union {e[2]}
    /\ UNCHANGED <<mu, pc, toLoad, schedules, cronVars, overlapped>>

CallerStep(c) == AddFunc(c) \/ NameEntry(c) \/ AddToMap(c) \/ EnableUpdate(c)

Next ==
    \/ \E c \in Callers, id \in EngineSchedules :
          \/ DeleteSchedule(c, id)
          \/ EnableSchedule(c, id) \/ DisableSchedule(c, id)
          \/ \E on \in BOOLEAN :
                CreateSchedule(c, id, on) \/ UpdateSchedule(c, id, on)
    \/ \E c \in Callers : CallerStep(c)
    \/ \E id \in EngineSchedules : Start(id)
    \/ \E e \in entries : executeScheduledWorkflow(e)

Spec ==
    /\ Init /\ [][Next]_engineSchedulerVars
    /\ \A c \in Callers : WF_engineSchedulerVars(CallerStep(c))

-------------------------------------------------------------------------------
\* A schedule on which calls never overlapped, and which nobody enabled twice,
\* is run by the one entry its object names while the map has it, and by none
\* otherwise: what Disable, Update and Delete took out of the map never fires
\* again, whatever errors came in between.  Calls that do overlap leave
\* entries that no call removes any more (scheduler.go:189-217, 292-307).
QuietWhenOff ==
    \A id \in EngineSchedules \ overlapped :
        \/ UnderWay(id)
        \/ {e \in entries : e[2] = id} =
              IF id \in schedules THEN {<<entryOf[id], id>>} ELSE {}
===============================================================================
