---------------------------- MODULE RunFeatures -----------------------------
(***************************************************************************)
(* The workflow features that act on runs: sub-workflows, debug sessions,  *)
(* and the recording and replay of executions. They share no state; each   *)
(* has a specification of its own.                                         *)
(***************************************************************************)
EXTENDS Naturals, Sequences, SequencesExt, FiniteSets

(***************************************************************************)
(* Workflows that call workflows (features/subworkflow.go). A sub-workflow *)
(* node starts another execution one level deeper and waits for it; the    *)
(* executor that runs the nodes of a workflow is behind an interface, and  *)
(* taken to run a workflow's sub-workflow nodes in order, to fail with the *)
(* first node that fails and when its context ends. The state is the stack *)
(* of executions in progress; data is the set of keys that carry a value.  *)
(***************************************************************************)

CONSTANTS Flows,     \* workflow -> its sub-workflow nodes, a sequence of
                     \* [flow, onError, timed, in, out]; in and out map keys
          Roots,     \* workflows that are started
          RootKeys,  \* the keys a started workflow is given
          maxDepth   \* nesting allowed (10 in the code)

VARIABLES stored,    \* workflows the repository has
          stack,     \* executions in progress, the innermost last
          ended      \* how the outermost one ended

subVars == <<stored, stack, ended>>

Top == Last(stack)
Pop == Front(stack)

Frame(flow, depth, node, keys) ==
    [flow |-> flow, depth |-> depth, node |-> node, keys |-> keys, next |-> 1,
     failed |-> FALSE]
SetTop(frame) == stack' = Append(Pop, frame)

(* A chain is valid when the workflow was not visited before: the walk     *)
(* never goes past its first workflow.                                     *)
ValidateSubWorkflowChain(flow, visited) == flow \notin visited

StartRoot(flow) ==
    /\ stack = << >> /\ ended = "no"
    /\ ValidateSubWorkflowChain(flow, {})
    /\ stack' = <<Frame(flow, 0, "root", RootKeys)>>
    /\ UNCHANGED <<stored, ended>>

(* Target keys whose source carries a value; no mapping passes everything  *)
(* in, and leaves the output alone.                                        *)
Mapped(keys, mapping) == {k \in DOMAIN mapping : mapping[k] \in keys}
mapInput(keys, mapping) == IF DOMAIN mapping = {} THEN keys ELSE Mapped(keys, mapping)
mapOutput(keys, mapping) == IF DOMAIN mapping = {} THEN keys ELSE Mapped(keys, mapping)

TooDeep(frame) == frame.depth >= maxDepth

SubOptions_SameDepth(frame) == frame.depth

SubOptions(frame) == frame.depth + 1

Running == stack # << >> /\ ~Top.failed /\ Top.next <= Len(Flows[Top.flow])

(* The next node of the innermost workflow; whatever it is told to do on   *)
(* errors, it fails when the limit is reached or the workflow is gone.     *)
ExecuteSubWorkflow ==
    /\ Running
    /\ LET node == Flows[Top.flow][Top.next] IN
       IF TooDeep(Top) \/ node.flow \notin stored
       THEN SetTop([Top EXCEPT !.failed = TRUE])
       ELSE stack' = Append(stack, Frame(node.flow, SubOptions(Top), node,
                                         mapInput(Top.keys, node.in)))
    /\ UNCHANGED <<stored, ended>>

(* "continue" and "fallback" turn an error into a result; the values they  *)
(* give instead are left out.                                              *)
HandledBelow(node) == node.onError \in {"continue", "fallback"}

(* The innermost execution returns to the node that called it. *)
ExecuteReturns ==
    /\ stack # << >>
    /\ Top.failed \/ Top.next > Len(Flows[Top.flow])
    /\ IF Len(stack) = 1
       THEN /\ stack' = << >>
            /\ ended' = IF Top.failed THEN "failed" ELSE "completed"
       ELSE LET caller == Last(Pop)
                output == mapOutput(Top.keys, Top.node.out)
                after == IF Top.failed /\ ~HandledBelow(Top.node)
                         THEN [caller EXCEPT !.failed = TRUE]
                         ELSE IF Top.failed THEN [caller EXCEPT !.next = @ + 1]
                         ELSE [caller EXCEPT !.next = @ + 1, !.keys = @ \cup output]
            IN /\ stack' = Append(Front(Pop), after)
               /\ UNCHANGED ended
    /\ UNCHANGED stored

(* The timeout of a node ends the context of everything below it. *)
Timeout ==
    /\ \E i \in 2..Len(stack) :
         /\ stack[i].node.timed /\ ~stack[i].failed
         /\ stack' = [j \in DOMAIN stack |->
                        IF j >= i THEN [stack[j] EXCEPT !.failed = TRUE] ELSE stack[j]]
    /\ UNCHANGED <<stored, ended>>

(* A workflow is deleted while others call it. *)
DeleteFlow ==
    /\ \E f \in stored : stored' = stored \ {f}
    /\ UNCHANGED <<stack, ended>>

SubInit == stored = DOMAIN Flows /\ stack = << >> /\ ended = "no"

SubNext ==
    \/ \E f \in Roots : StartRoot(f)
    \/ ExecuteSubWorkflow
    \/ ExecuteReturns
    \/ Timeout
    \/ DeleteFlow

SubSpec == SubInit /\ [][SubNext]_subVars

------------------------------------------------------------------------
(* Workflows that call each other in a circle pass the validation and stop *)
(* at the nesting limit (subworkflow.go:80-82), and every execution knows  *)
(* how deep it is, whatever was deleted or timed out.                      *)
NestingIsBounded ==
    /\ Len(stack) <= maxDepth + 1
    /\ \A i \in DOMAIN stack : stack[i].depth = i - 1

(* What failed deep down goes up to the first node that handles errors and *)
(* no further: where an execution has failed with one still below it, the  *)
(* context of both has ended.                                              *)
FailureStopsAtHandlers ==
    \A i \in DOMAIN stack :
      stack[i].failed /\ i < Len(stack) =>
        /\ \A j \in i..Len(stack) : stack[j].failed
        /\ \E j \in 2..i : stack[j].node.timed
-----------------------------------------------------------------------------
(***************************************************************************)
(* Debug sessions of workflows. The manager's map is under its own lock,   *)
(* each session under another; EndSession writes a session under the       *)
(* manager's lock only. A caller keeps the session it created or got, so   *)
(* that it can still start, resume or step one that was stopped or         *)
(* evicted. The run that is debugged enters and leaves nodes and waits     *)
(* while the session is paused. Events, variables, watches and node data   *)
(* are left out; the age of a session's last activity is the order of      *)
(* lastActivity.                                                           *)
(***************************************************************************)

CONSTANTS
    SessionIds,         \* sessions that can be created
    Debuggers,          \* pairs of a workflow and a user
    DebugNodes,         \* nodes of a workflow
    MaxSessions,        \* DebugManager.maxSessions
    StackLimit,         \* bound on the call stack
    NoSession

VARIABLES
    session,            \* heap: id -> object or NoSession
    sessions,           \* DebugManager.sessions
    lastActivity,       \* ids, the one that was used last at the end
    run,                \* id -> where the debugged run is
    revived             \* history: sessions used again after their stop

debugVars == <<session, sessions, lastActivity, run, revived>>

NewSession(d) ==
    [of |-> d, status |-> "idle", step |-> "none", breakpoints |-> {},
     stack |-> <<>>]

DebugInit ==
    /\ session = [s \in SessionIds |-> NoSession]
    /\ sessions = {}
    /\ lastActivity = <<>>
    /\ run = [s \in SessionIds |-> "none"]
    /\ revived = {}

Touched(s) == Append(Remove(lastActivity, s), s)

Becomes(s, o) ==
    /\ session' = [session EXCEPT ![s] = o]
    /\ revived' = IF session[s].status = "stopped" /\ o.status # "stopped"
                  THEN revived \union {s} ELSE revived
    /\ UNCHANGED sessions

\* A method of the session, under its lock: the object becomes o.
Set(s, o) == Becomes(s, o) /\ lastActivity' = Touched(s)

-------------------------------------------------------------------------------
\* DebugManager. A session that is not stopped keeps a second one away; when
\* the map is over its size, the stopped session that was used first goes.
cleanupOldestSession(all) ==
    LET stopped == SelectSeq(lastActivity, LAMBDA t :
                       t \in all /\ session[t].status = "stopped") IN
    IF stopped = <<>> THEN all ELSE all \ {Head(stopped)}

Exists_AnyUse(d) ==
    \E s \in sessions : session[s].of = d
                      /\ session[s].status \in {"running", "paused"}
Exists(d) == \E s \in sessions : session[s].of = d /\ session[s].status # "stopped"

CreateSession(s, d) ==
    /\ session[s] = NoSession /\ ~Exists(d)
    /\ session' = [session EXCEPT ![s] = NewSession(d)]
    /\ lastActivity' = Touched(s)
    /\ sessions' = LET all == sessions \union {s} IN
                   IF Cardinality(all) > MaxSessions
                   THEN cleanupOldestSession(all) ELSE all
    /\ UNCHANGED <<run, revived>>

EndSession(s) ==
    /\ s \in sessions
    /\ session' = [session EXCEPT ![s].status = "stopped"]
    /\ UNCHANGED <<sessions, lastActivity, run, revived>>

-------------------------------------------------------------------------------
\* DebugSession: none of its methods looks at the status it leaves.
SetBreakpoint(s, n) == Set(s, [session[s] EXCEPT !.breakpoints = @ \union {n}])
RemoveBreakpoint(s, n) == Set(s, [session[s] EXCEPT !.breakpoints = @ \ {n}])
ClearBreakpoints(s) == Set(s, [session[s] EXCEPT !.breakpoints = {}])
Pause(s) == Set(s, [session[s] EXCEPT !.status = "paused"])
Resume(s) == Set(s, [session[s] EXCEPT !.status = "running", !.step = "none"])
StepInto(s) == Set(s, [session[s] EXCEPT !.status = "stepping", !.step = "step_into"])
StepOver(s) == Set(s, [session[s] EXCEPT !.status = "stepping", !.step = "step_over"])
StepOut(s) == Set(s, [session[s] EXCEPT !.status = "stepping", !.step = "step_out"])
Stop(s) == Set(s, [session[s] EXCEPT !.status = "stopped"])
Start(s) == Set(s, [session[s] EXCEPT !.status = "running"])

HasBreakpoint(s, n) == n \in session[s].breakpoints

\* Whether a node pauses the run: a breakpoint, or a step in progress.
ShouldPause(s, n) == HasBreakpoint(s, n) \/ session[s].step # "none"

\* A pause returns before the activity is noted.
EnterNode(s, n) ==
    LET o == [session[s] EXCEPT !.stack = Append(@, n)] IN
    IF ShouldPause(s, n)
    THEN Becomes(s, [o EXCEPT !.status = "paused"]) /\ UNCHANGED lastActivity
    ELSE Set(s, o)

ExitNode(s) ==
    Set(s, [session[s] EXCEPT !.stack = IF @ = <<>> THEN @ ELSE Front(@)])

\* The failed node keeps its frame.
NodeError(s) == Set(s, [session[s] EXCEPT !.status = "paused"])

-------------------------------------------------------------------------------
\* The debugged run calls these hooks: EnterNode tells it whether to wait,
\* WaitForResume looks at the status again and again.
Execute(s) ==
    /\ run[s] = "none"
    /\ Start(s)
    /\ run' = [run EXCEPT ![s] = "between"]

RunEnters(s, n) ==
    /\ run[s] = "between" /\ Len(session[s].stack) < StackLimit
    /\ EnterNode(s, n)
    /\ run' = [run EXCEPT ![s] = IF ShouldPause(s, n) THEN "waiting" ELSE "inside"]

WaitForResume(s) ==
    /\ run[s] = "waiting"
    /\ CASE session[s].status \in {"running", "stepping"} ->
              run' = [run EXCEPT ![s] = "inside"]
         [] session[s].status = "stopped" -> run' = [run EXCEPT ![s] = "ended"]
         [] OTHER -> UNCHANGED run
    /\ UNCHANGED <<session, sessions, lastActivity, revived>>

RunLeaves(s) ==
    /\ run[s] = "inside"
    /\ \/ ExitNode(s) /\ run' = [run EXCEPT ![s] = "between"]
       \/ NodeError(s) /\ run' = [run EXCEPT ![s] = "waiting"]

\* What the user of a session does, on a pointer it may have kept.
Command(s) ==
    /\ \/ \E n \in DebugNodes : SetBreakpoint(s, n) \/ RemoveBreakpoint(s, n)
       \/ ClearBreakpoints(s)
       \/ Pause(s) \/ Resume(s) \/ Stop(s)
       \/ StepInto(s) \/ StepOver(s) \/ StepOut(s)
    /\ UNCHANGED run

RunStep(s) ==
    \/ \E n \in DebugNodes : RunEnters(s, n)
    \/ WaitForResume(s) \/ RunLeaves(s)

DebugNext ==
    \/ \E s \in SessionIds, d \in Debuggers : CreateSession(s, d)
    \/ \E s \in SessionIds :
          /\ session[s] # NoSession
          /\ EndSession(s) \/ Command(s) \/ Execute(s) \/ RunStep(s)

DebugSpec == DebugInit /\ [][DebugNext]_debugVars

-------------------------------------------------------------------------------
\* Two sessions of one user on one workflow are live at the same time only
\* when one of them was used again after it had been stopped: CreateSession
\* refuses a second one, but a stopped session can be resumed, stepped or
\* reach a breakpoint, also after it was evicted (debug.go:150-155,298-359).
SecondSessionWasRevived ==
    \A s, t \in SessionIds :
        /\ s # t /\ session[s] # NoSession /\ session[t] # NoSession
        /\ session[s].of = session[t].of
        /\ session[s].status # "stopped" /\ session[t].status # "stopped"
        => s \in revived \/ t \in revived
-----------------------------------------------------------------------------
(***************************************************************************)
(* Recording executions and replaying them. The recorder's lock covers     *)
(* each call; executions record beside each other, are replayed while they *)
(* record, and can be evicted or started anew between two calls. Times are *)
(* the order in which recordings started; inputs, outputs, variables and   *)
(* durations are left out.                                                 *)
(***************************************************************************)

CONSTANTS
    Recorded,           \* executions
    ReplayNodes,        \* nodes
    MaxSize,            \* ExecutionRecorder.maxSize
    SnapshotBound,      \* snapshots of one recording
    StartBound,         \* recordings started
    NoRecording

VARIABLES
    recording,          \* heap: number of its start -> recording
    recordings,         \* the map: execution -> its recording or NoRecording
    started,            \* recordings started so far, their clock
    imports,            \* recordings imported
    replay              \* the replayer: [of, at, skip, stop, breaks, ...]

replayVars == <<recording, recordings, started, imports, replay>>
recorderVars == <<recording, recordings, started, imports>>

NoReplay == [of |-> 0, at |-> 1, skip |-> {}, stop |-> {}, breaks |-> {},
             replayed |-> 0, skipped |-> 0, status |-> "none"]
NewRecording == [status |-> "running", snapshots |-> <<>>]

ReplayInit ==
    /\ recording = [n \in 0..StartBound |-> NewRecording]
    /\ recordings = [e \in Recorded |-> NoRecording]
    /\ started = 0 /\ imports = 0
    /\ replay = NoReplay

Kept == {e \in Recorded : recordings[e] # NoRecording}
Of(e) == recording[recordings[e]]

-------------------------------------------------------------------------------
\* ExecutionRecorder. Over its size, the map loses the recording that started
\* first, whether or not it is complete.
cleanupOldest(recs) ==
    LET kept == {e \in Recorded : recs[e] # NoRecording}
        oldest == CHOOSE e \in kept : \A f \in kept : recs[e] <= recs[f] IN
    [recs EXCEPT ![oldest] = NoRecording]

StartRecording_Late(e) ==
    LET recs == [recordings EXCEPT ![e] = started + 1] IN
    /\ started < StartBound
    /\ started' = started + 1
    /\ recordings' = IF Cardinality(Kept) > MaxSize
                     THEN cleanupOldest(recs) ELSE recs
    /\ UNCHANGED <<recording, imports, replay>>
StartRecording(e) ==
    LET recs == [recordings EXCEPT ![e] = started + 1] IN
    /\ started < StartBound
    /\ started' = started + 1
    /\ recordings' = IF Cardinality(Kept \union {e}) > MaxSize
                     THEN cleanupOldest(recs) ELSE recs
    /\ UNCHANGED <<recording, imports, replay>>

RecordStep(e, new) ==
    /\ recording' = [recording EXCEPT ![recordings[e]] = new]
    /\ UNCHANGED <<recordings, started, imports, replay>>

RecordNodeStart(e, n) ==
    /\ e \in Kept /\ Len(Of(e).snapshots) < SnapshotBound
    /\ RecordStep(e, [Of(e) EXCEPT !.snapshots =
                         Append(@, [node |-> n, status |-> "running"])])

\* The last snapshot of the node that still runs gets the outcome; nothing
\* happens when there is none.
Settled(snaps, n, status) ==
    LET i == SelectLastInSeq(snaps, LAMBDA s : s.node = n /\ s.status = "running") IN
    IF i = 0 THEN snaps ELSE [snaps EXCEPT ![i].status = status]
RecordNodeComplete(e, n) ==
    e \in Kept /\ RecordStep(e, [Of(e) EXCEPT !.snapshots = Settled(@, n, "completed")])
RecordNodeError(e, n) ==
    e \in Kept /\ RecordStep(e, [Of(e) EXCEPT !.snapshots = Settled(@, n, "failed")])

CompleteRecording(e, status) ==
    e \in Kept /\ RecordStep(e, [Of(e) EXCEPT !.status = status])

DeleteRecording(e) ==
    /\ recordings' = [recordings EXCEPT ![e] = NoRecording]
    /\ UNCHANGED <<recording, started, imports, replay>>

\* An exported recording comes back under its own execution id, whatever the
\* size of the map: here one from before all the others.
ImportRecording(e) ==
    /\ imports = 0
    /\ imports' = imports + 1
    /\ recordings' = [recordings EXCEPT ![e] = 0]
    /\ UNCHANGED <<recording, started, replay>>

-------------------------------------------------------------------------------
\* ExecutionReplayer. Replay gets the recording once and walks over its
\* snapshots without the recorder's lock, while the execution may append more
\* and the map may drop it.
Replay(e, from, opts) ==
    LET i == SelectInSeq(Of(e).snapshots, LAMBDA s : s.node = from) IN
    /\ e \in Kept /\ replay.status # "running"
    /\ replay' = [opts EXCEPT !.of = recordings[e], !.status = "running",
                              !.at = IF i = 0 THEN 1 ELSE i]
    /\ UNCHANGED recorderVars

\* One snapshot: stop, skip, pause at a breakpoint, or replay it.
ReplayOne(snap) ==
    CASE snap.node \in replay.stop -> [replay EXCEPT !.status = "completed"]
      [] snap.node \in replay.skip ->
            [replay EXCEPT !.skipped = @ + 1, !.at = @ + 1]
      [] snap.node \in replay.breaks -> [replay EXCEPT !.status = "paused"]
      [] OTHER -> [replay EXCEPT !.replayed = @ + 1, !.at = @ + 1]

ReplayStep ==
    LET snaps == recording[replay.of].snapshots IN
    /\ replay.status = "running"
    /\ replay' = IF replay.at > Len(snaps)
                 THEN [replay EXCEPT !.status = "completed"]
                 ELSE ReplayOne(snaps[replay.at])
    /\ UNCHANGED recorderVars

\* The context ends during the delay of a snapshot: no result.
ReplayCancelled ==
    /\ replay.status = "running"
    /\ replay' = NoReplay
    /\ UNCHANGED recorderVars

ReplayCalls ==
    \E e \in Recorded, from \in ReplayNodes,
       skip, stop, breaks \in SUBSET ReplayNodes :
        Replay(e, from, [NoReplay EXCEPT !.skip = skip, !.stop = stop,
                                         !.breaks = breaks])

ReplayNext ==
    \/ \E e \in Recorded :
          \/ StartRecording(e) \/ DeleteRecording(e) \/ ImportRecording(e)
          \/ \E status \in {"completed", "failed"} : CompleteRecording(e, status)
          \/ \E n \in ReplayNodes :
                \/ RecordNodeStart(e, n)
                \/ RecordNodeComplete(e, n) \/ RecordNodeError(e, n)
    \/ ReplayCalls \/ ReplayStep \/ ReplayCancelled

ReplaySpec == ReplayInit /\ [][ReplayNext]_replayVars

-------------------------------------------------------------------------------
\* The recorder keeps at most maxSize recordings, and one more for every
\* import, however starts, restarts of the same execution, deletions and
\* imports follow each other (replay.go:103-124,443-455).
SizeIsBounded == Cardinality(Kept) <= MaxSize + imports
=============================================================================
