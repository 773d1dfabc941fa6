------------------------------ MODULE Migrations ------------------------------
(***************************************************************************)
(* The migration service.  MigrateUp and MigrateDown execute one file      *)
(* after the other and record each in schema_migrations with a second      *)
(* statement, whose error is dropped; no lock keeps two requests apart.    *)
(***************************************************************************)
EXTENDS Integers, Sequences, FiniteSets

CONSTANTS
    UpFiles,                \* versions with an up file
    DownChoices,            \* sets of versions that may have a down file
    SeedFiles,              \* the seed files, in directory order
    MigrationCalls          \* requests in flight

VARIABLES
    downFiles,              \* versions with a down file
    schema,                 \* versions whose changes are in the database
    history,                \* schema_migrations: version -> status
    seeded,                 \* seed files that were executed
    migrationCall,          \* request -> what it does next
    disturbed               \* history: a request overlapped another, a record
                            \* was lost or a down file was skipped

migrationVars == <<downFiles, schema, history, seeded, migrationCall, disturbed>>

NoVersion == 0
At(r, pc) == migrationCall[r].pc = pc
Ready == [pc |-> "ready"]
Goto(r, q) == migrationCall' = [migrationCall EXCEPT ![r] = q]

EnsureMigrationTable == history = [v \in UpFiles |-> "none"]
Init ==
    /\ downFiles \in DownChoices /\ schema = {} /\ EnsureMigrationTable
    /\ seeded = {} /\ disturbed = FALSE
    /\ migrationCall = [r \in MigrationCalls |-> Ready]

-------------------------------------------------------------------------------
\* The repository.  An upsert by version: a row keeps its direction, up, and
\* takes the new status.
CreateHistory(v, status) == history' = [history EXCEPT ![v] = status]
GetAppliedMigrations == {v \in UpFiles : history[v] = "applied"}
GetCurrentVersion ==
    IF GetAppliedMigrations = {} THEN NoVersion
    ELSE CHOOSE v \in GetAppliedMigrations : \A w \in GetAppliedMigrations : w <= v
\* The statement may fail, and then changes nothing.
Execute(v, up) == schema' = IF up THEN schema \union {v} ELSE schema \ {v}

loadMigrations(up) == IF up THEN UpFiles ELSE downFiles
findDownMigration(v) == v \in loadMigrations(FALSE)

\* The files are sorted, upwards or downwards, cut after that many steps, and
\* taken from the front.
Ascending(v, w) == v < w
Descending_Ascending(v, w) == v < w
Descending(v, w) == w < v
Before(up, v, w) == IF up THEN Ascending(v, w) ELSE Descending(v, w)
Limited(up, S, steps) ==
    {v \in S : steps = 0 \/ Cardinality({w \in S : Before(up, w, v)}) < steps}
Foremost(q, v) == v \in q.plan /\ \A w \in q.plan \ {v} : Before(q.up, v, w)

-------------------------------------------------------------------------------
PendingUps == {v \in loadMigrations(TRUE) : v > GetCurrentVersion}
UpPlan(steps) == Limited(TRUE, PendingUps, steps)
DownPlan(steps) == Limited(FALSE, GetAppliedMigrations, steps)
Running(up, plan, reset) ==
    [pc |-> "run", up |-> up, plan |-> plan, reset |-> reset]
Begin(r, q) ==
    /\ At(r, "ready") /\ Goto(r, q)
    /\ disturbed' = (disturbed \/ \E o \in MigrationCalls : ~At(o, "ready"))
    /\ UNCHANGED <<downFiles, schema, history, seeded>>

\* A dry run executes and records nothing.
MigrateUp(r, steps) == Begin(r, Running(TRUE, UpPlan(steps), FALSE))
MigrateDown(r, steps) == Begin(r, Running(FALSE, DownPlan(steps), FALSE))
Reset(r) == Begin(r, Running(FALSE, DownPlan(0), TRUE))

\* After the last file the request returns; a reset then goes up.
Finish(r) ==
    LET q == migrationCall[r] IN
    /\ At(r, "run") /\ q.plan = {}
    /\ IF q.reset THEN Goto(r, Running(TRUE, UpPlan(0), FALSE)) ELSE Goto(r, Ready)
    /\ UNCHANGED <<downFiles, schema, history, seeded, disturbed>>

RunUp(r) ==
    LET q == migrationCall[r] IN
    /\ At(r, "run") /\ q.up
    /\ \E v \in UpFiles :
          /\ Foremost(q, v)
          /\ \/ Execute(v, TRUE) /\ Goto(r, [q EXCEPT !.pc = "record"])
             \/ UNCHANGED schema /\ Goto(r, Running(q.up, {}, q.reset))
    /\ UNCHANGED <<downFiles, history, seeded, disturbed>>

\* A version without a down file is passed over, and the next one is taken.
RunDown(r) ==
    LET q == migrationCall[r] IN
    /\ At(r, "run") /\ ~q.up
    /\ \E v \in UpFiles :
          /\ Foremost(q, v)
          /\ IF ~findDownMigration(v)
             THEN Goto(r, Running(q.up, q.plan \ {v}, q.reset)) /\ UNCHANGED schema /\ disturbed' = TRUE
             ELSE /\ \/ Execute(v, FALSE) /\ Goto(r, [q EXCEPT !.pc = "record"])
                     \/ UNCHANGED schema /\ Goto(r, Running(q.up, {}, q.reset))
                  /\ UNCHANGED disturbed
    /\ UNCHANGED <<downFiles, history, seeded>>

\* The error of the record is dropped and the next file is executed.
Record(r) ==
    LET q == migrationCall[r] IN
    /\ At(r, "record")
    /\ \E v \in UpFiles :
          /\ Foremost(q, v)
          /\ \/ /\ CreateHistory(v, IF q.up THEN "applied" ELSE "rolled_back")
                /\ UNCHANGED disturbed
             \/ UNCHANGED history /\ disturbed' = TRUE
          /\ Goto(r, Running(q.up, q.plan \ {v}, q.reset))
    /\ UNCHANGED <<downFiles, schema, seeded>>

FilesIn(s) == {s[k] : k \in DOMAIN s}
\* Seed executes the files in order, all or those asked for, until one fails.
Seed(files) ==
    LET wanted == SelectSeq(SeedFiles, LAMBDA f : f \in files) IN
    /\ \E k \in 0..Len(wanted) : seeded' = seeded \union FilesIn(SubSeq(wanted, 1, k))
    /\ UNCHANGED <<downFiles, schema, history, migrationCall, disturbed>>

Restart ==
    /\ \E r \in MigrationCalls : ~At(r, "ready")
    /\ disturbed' = (disturbed \/ \E r \in MigrationCalls : At(r, "record"))
    /\ migrationCall' = [r \in MigrationCalls |-> Ready]
    /\ UNCHANGED <<downFiles, schema, history, seeded>>

-------------------------------------------------------------------------------
\* The handlers: a request to go down means one step unless it says more.
Steps == 0..Cardinality(UpFiles)
HandleMigrateUp(r) == \E steps \in Steps : MigrateUp(r, steps)
HandleMigrateDown(r) ==
    \E steps \in Steps : MigrateDown(r, IF steps = 0 THEN 1 ELSE steps)
HandleReset(r) == Reset(r)
HandleSeed == \E files \in SUBSET FilesIn(SeedFiles) : Seed(files)

Next ==
    \/ \E r \in MigrationCalls :
          \/ HandleMigrateUp(r) \/ HandleMigrateDown(r) \/ HandleReset(r)
          \/ RunUp(r) \/ RunDown(r) \/ Record(r) \/ Finish(r)
    \/ HandleSeed \/ Restart

Spec == Init /\ [][Next]_migrationVars

-------------------------------------------------------------------------------
\* As long as no two requests overlapped, no record was lost
\* (migration_service.go:222-231, 294-303) and no down file was skipped
\* (:273-277), the database has exactly the versions up to the current one,
\* whatever executions failed: what MigrateUp does next is then complete.
SchemaIsCurrent ==
    ~disturbed /\ (\A r \in MigrationCalls : ~At(r, "record")) =>
        schema = {v \in UpFiles : v <= GetCurrentVersion}

-------------------------------------------------------------------------------
\* The state of the service that makes SchemaIsCurrent inductive.  Only one
\* request runs, the applied versions have no gap, a request goes up from
\* where they end and down from there, and the schema is one step ahead of
\* the record while that is being written.
KnownCall(r) ==
    LET q == migrationCall[r] IN
    \/ q = Ready
    \/ /\ q = [pc |-> q.pc, up |-> q.up, plan |-> q.plan, reset |-> q.reset]
       /\ q.pc \in {"run", "record"} /\ q.up \in BOOLEAN /\ q.plan \subseteq UpFiles
NoGap(S) == \A v, w \in UpFiles : v < w /\ w \in S => v \in S
FromTheEnd(q) ==
    IF q.up
    THEN /\ q.plan \cap GetAppliedMigrations = {}
         /\ NoGap(GetAppliedMigrations \union q.plan)
    ELSE /\ q.plan \subseteq GetAppliedMigrations
         /\ NoGap(GetAppliedMigrations \ q.plan)
\* What the schema is next to its record, for a request at q.
Ahead(q) ==
    IF q.pc # "record" THEN schema = GetAppliedMigrations
    ELSE \A v \in UpFiles : Foremost(q, v) =>
            schema = IF q.up THEN GetAppliedMigrations \union {v} ELSE GetAppliedMigrations \ {v}
Alone == \A r, o \in MigrationCalls : ~At(r, "ready") /\ ~At(o, "ready") => r = o
Undisturbed ==
    /\ Alone /\ NoGap(GetAppliedMigrations)
    /\ \A r \in MigrationCalls : ~At(r, "ready") =>
          FromTheEnd(migrationCall[r]) /\ Ahead(migrationCall[r])
    /\ (\A r \in MigrationCalls : ~At(r, "record")) => schema = GetAppliedMigrations
SchemaInv ==
    /\ DOMAIN history = UpFiles /\ DOMAIN migrationCall = MigrationCalls
    /\ schema \subseteq UpFiles
    /\ \A r \in MigrationCalls : KnownCall(r)
    /\ ~disturbed => Undisturbed
===============================================================================
