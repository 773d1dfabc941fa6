---------------------------- MODULE TaskDispatcher ----------------------------
(***************************************************************************)
(* ExecutorService of internal/executor/app/service/executor_service.go:   *)
(* tasks wait in a channel, one dispatcher goroutine assigns them to the   *)
(* worker with the lowest load, and workers report success or failure by   *)
(* calls that read the task's row, give the worker's slot back, store the  *)
(* row and, on a retry, put the task into the channel again.  Heartbeats,  *)
(* the health check and restarts of the service run next to this.          *)
(*                                                                         *)
(* The rows are the repository's; every call of FindByID yields a copy.    *)
(* SubmitTask sets no tags, so hasAllTags never excludes a worker.         *)
(***************************************************************************)
EXTENDS Integers, Sequences, FiniteSets

CONSTANTS
  Tasks,
  Workers,
  Reporters,   \* goroutines that serve CompleteTask and FailTask
  Capacity,    \* [Workers -> worker.Capacity]
  QueueSize,   \* capacity of taskQueue
  MaxRetries,  \* task.MaxRetries
  MaxFaults,   \* bound: restarts, repeated reports, failed writes and
               \* heartbeats that change a load, all together
  None

ASSUME CapacityAssumption == Capacity \in [Workers -> Nat \ {0}]
ASSUME BoundsAssumption == {QueueSize, MaxRetries, MaxFaults} \subseteq Nat /\ None \notin Tasks \cup Workers

VARIABLES
  row,        \* [Tasks -> the stored status, workerId and retries]
  queue,      \* taskQueue: copies of tasks, of which the retries matter
  disp,       \* the dispatcher: where it is, the task and worker it holds
  load,       \* [Workers -> worker.CurrentLoad in s.workers]
  wstatus,    \* [Workers -> worker.Status in s.workers; "gone" when not there]
  stored,     \* [Workers -> load in the worker's row, None without a row]
  rep,        \* [Reporters -> the call in progress]
  owed,       \* history: tasks assigned and not yet reported
  duplicated, \* history: tasks reported more often than assigned
  disturbed,  \* history: workers whose load a heartbeat or failed write changed
  dropped,    \* history: tasks that met a full channel, a failed write or a restart
  faults      \* history: faults so far

taskVars   == <<row, queue, owed, duplicated, dropped>>
workerVars == <<load, wstatus, stored, disturbed>>
vars == <<taskVars, workerVars, disp, rep, faults>>

Final == {"completed", "failed"}
Rows == [status : {"none", "pending", "running"} \cup Final, worker : Workers \cup {None}, retries : 0..MaxRetries]
Copy == [task : Tasks, retries : 0..MaxRetries]
IdleDisp == [pc |-> "idle", copy |-> None, worker |-> None]
IdleRep  == [pc |-> "idle", ok |-> FALSE, task |-> None, row |-> None]

Dispatches == [pc : {"idle", "picked", "requeue", "selected", "counting"},
               copy : Copy \cup {None}, worker : Workers \cup {None}]
Calls == [pc : {"idle", "found", "released", "requeue"}, ok : BOOLEAN,
          task : Tasks \cup {None}, row : Rows \cup {None}]

TypeOK ==
  /\ row \in [Tasks -> Rows]
  /\ queue \in Seq(Copy) /\ Len(queue) <= QueueSize
  /\ disp \in Dispatches
  /\ load \in [Workers -> Int]
  /\ wstatus \in [Workers -> {"new", "idle", "busy", "offline", "gone"}]
  /\ stored \in [Workers -> Int \cup {None}]
  /\ rep \in [Reporters -> Calls]
  /\ owed \cup duplicated \cup dropped \subseteq Tasks /\ disturbed \subseteq Workers
  /\ faults \in 0..MaxFaults

Init ==
  /\ row = [t \in Tasks |-> [status |-> "none", worker |-> None, retries |-> 0]]
  /\ queue = << >> /\ disp = IdleDisp /\ rep = [r \in Reporters |-> IdleRep]
  /\ load = [w \in Workers |-> 0] /\ wstatus = [w \in Workers |-> "new"]
  /\ stored = [w \in Workers |-> None]
  /\ owed = {} /\ duplicated = {} /\ disturbed = {} /\ dropped = {} /\ faults = 0

\* Something the guarantees make an exception for happens.
Fault == faults < MaxFaults /\ faults' = faults + 1
NoFault == UNCHANGED faults

----------------------------------------------------------------------------
(* The rows: WorkerRepository, TaskRepository.  A statement is applied whole   *)
(* or not at all; the columns are those the service reads again.               *)

CreateTaskRow(t) == row' = [row EXCEPT ![t].status = "pending"]
FindTaskRow(t) == row[t]
UpdateTaskRow(t, new) == row' = [row EXCEPT ![t] = new]
CreateWorkerRow(w) == stored' = [stored EXCEPT ![w] = 0]
UpdateWorkerRow(w, l) == stored' = [stored EXCEPT ![w] = l]
DeleteWorkerRow(w) == stored' = [stored EXCEPT ![w] = None]
ListWorkerRows == {w \in Workers : stored[w] # None}

----------------------------------------------------------------------------
(* Submission, workers, heartbeats *)

Registered == {w \in Workers : wstatus[w] \notin {"new", "gone"}}

----------------------------------------------------------------------------
(* A suffixed name is a faulty variant.                                    *)

SendOrDrop_Drops(c) == queue' = queue /\ dropped' = dropped

\* select { case s.taskQueue <- task: default: }
SendOrDrop(c) ==
  IF Len(queue) < QueueSize
    THEN queue' = Append(queue, c) /\ UNCHANGED dropped
    ELSE dropped' = dropped \cup {c.task} /\ UNCHANGED queue

\* The row is created first; on a full channel the caller gets an error and
\* the row stays.
SubmitTask(t) ==
  /\ row[t].status = "none"
  /\ CreateTaskRow(t)
  /\ SendOrDrop([task |-> t, retries |-> 0])
  /\ UNCHANGED <<owed, duplicated, workerVars, disp, rep, faults>>

RegisterWorker(w) ==
  /\ wstatus[w] = "new"
  /\ wstatus' = [wstatus EXCEPT ![w] = "idle"]
  /\ CreateWorkerRow(w)
  /\ UNCHANGED <<taskVars, load, disturbed, disp, rep, faults>>

UnregisterWorker(w) ==
  /\ w \in Registered
  /\ wstatus' = [wstatus EXCEPT ![w] = "gone"]
  /\ DeleteWorkerRow(w)
  /\ UNCHANGED <<taskVars, load, disturbed, disp, rep, faults>>

\* A worker announces its status and the load it has, by its own account.
Heartbeat(w) ==
  /\ w \in Registered
  /\ \E s \in {"idle", "busy"}, l \in 0..Capacity[w] :
       /\ wstatus' = [wstatus EXCEPT ![w] = s]
       /\ load' = [load EXCEPT ![w] = l]
       /\ UpdateWorkerRow(w, l)
       /\ IF l = load[w] THEN NoFault /\ UNCHANGED disturbed
          ELSE Fault /\ disturbed' = disturbed \cup {w}
  /\ UNCHANGED <<taskVars, disp, rep>>

\* No heartbeat for 60 seconds.
HealthCheck(w) ==
  /\ w \in Registered
  /\ wstatus' = [wstatus EXCEPT ![w] = "offline"]
  /\ UNCHANGED <<taskVars, load, stored, disturbed, disp, rep, faults>>

----------------------------------------------------------------------------
(* dispatchTasks, selectWorker *)

Receive ==
  /\ disp.pc = "idle" /\ queue # << >>
  /\ disp' = [disp EXCEPT !.pc = "picked", !.copy = Head(queue)]
  /\ queue' = Tail(queue)
  /\ UNCHANGED <<row, owed, duplicated, dropped, workerVars, rep, faults>>

HasRoom_OnlyIdle(w) == wstatus[w] = "idle" /\ load[w] < Capacity[w]

\* worker.CurrentLoad >= worker.Capacity excludes a worker; "busy" does not.
HasRoom(w) == load[w] < Capacity[w]

Candidates == {w \in Registered : wstatus[w] # "offline" /\ HasRoom(w)}

\* A worker of lowest load; the map is read in any order.
SelectWorker ==
  /\ disp.pc = "picked"
  /\ \/ /\ Candidates = {}
        /\ disp' = [disp EXCEPT !.pc = "requeue"]
     \/ \E w \in Candidates :
          /\ \A v \in Candidates : load[w] <= load[v]
          /\ disp' = [disp EXCEPT !.pc = "selected", !.worker = w]
  /\ UNCHANGED <<taskVars, workerVars, rep, faults>>

\* After 100 ms the task goes to the end of the channel, if there is room.
Requeue ==
  /\ disp.pc = "requeue"
  /\ SendOrDrop(disp.copy)
  /\ disp' = IdleDisp
  /\ UNCHANGED <<row, owed, duplicated, workerVars, rep, faults>>

\* The row is stored; when that fails, the task is forgotten.
Assign ==
  LET t == disp.copy.task IN
  /\ disp.pc = "selected"
  /\ \/ /\ UpdateTaskRow(t, [status |-> "running", worker |-> disp.worker,
                             retries |-> disp.copy.retries])
        /\ NoFault
        /\ owed' = owed \cup {t}
        /\ disp' = [disp EXCEPT !.pc = "counting"]
        /\ UNCHANGED dropped
     \/ /\ Fault
        /\ dropped' = dropped \cup {t}
        /\ disp' = IdleDisp
        /\ UNCHANGED <<row, owed>>
  /\ UNCHANGED <<queue, duplicated, workerVars, rep>>

\* Only now the load is counted, on the worker object selected before.
CountLoad ==
  LET w == disp.worker IN
  /\ disp.pc = "counting"
  /\ load' = [load EXCEPT ![w] = @ + 1]
  /\ wstatus' = IF w \in Registered /\ load[w] + 1 >= Capacity[w]
                  THEN [wstatus EXCEPT ![w] = "busy"] ELSE wstatus
  /\ disp' = IdleDisp
  /\ UNCHANGED <<taskVars, stored, disturbed, rep, faults>>

----------------------------------------------------------------------------
(* CompleteTask, FailTask, releaseWorker *)

\* FindByID.  A worker reports a task once per assignment; a repeated call is
\* possible, and noted.
Report(r, t) ==
  /\ rep[r].pc = "idle" /\ row[t].status # "none"
  /\ \E ok \in BOOLEAN :
       rep' = [rep EXCEPT ![r] = [pc |-> "found", ok |-> ok, task |-> t, row |-> FindTaskRow(t)]]
  /\ owed' = owed \ {t}
  /\ IF t \in owed THEN NoFault /\ UNCHANGED duplicated
     ELSE Fault /\ duplicated' = duplicated \cup {t}
  /\ UNCHANGED <<row, queue, dropped, workerVars, disp>>

LoadAfterRelease_Kept(w) == load[w]

\* worker.CurrentLoad--
LoadAfterRelease(w) == load[w] - 1

\* releaseWorker: also an offline worker becomes idle.
Release(r) ==
  LET w == rep[r].row.worker IN
  /\ rep[r].pc = "found"
  /\ IF w \in Registered
       THEN /\ load' = [load EXCEPT ![w] = LoadAfterRelease(w)]
            /\ wstatus' = IF LoadAfterRelease(w) < Capacity[w]
                            THEN [wstatus EXCEPT ![w] = "idle"] ELSE wstatus
       ELSE UNCHANGED <<load, wstatus>>
  /\ rep' = [rep EXCEPT ![r].pc = "released"]
  /\ UNCHANGED <<taskVars, stored, disturbed, disp, faults>>

\* task.Retries < task.MaxRetries
MayRetry_OneLess(k) == k + 1 < MaxRetries

MayRetry(k) == k < MaxRetries

\* The row is stored as read, with its new status.
Store(r) ==
  LET t == rep[r].task
      old == rep[r].row
      retry == ~rep[r].ok /\ MayRetry(old.retries)
      new == IF retry THEN [status |-> "pending", worker |-> None, retries |-> old.retries + 1]
             ELSE [old EXCEPT !.status = IF rep[r].ok THEN "completed" ELSE "failed"]
  IN /\ rep[r].pc = "released"
     /\ UpdateTaskRow(t, new)
     /\ rep' = [rep EXCEPT ![r] = IF retry THEN [@ EXCEPT !.pc = "requeue", !.row = new] ELSE IdleRep]
     /\ UNCHANGED <<queue, owed, duplicated, dropped, workerVars, disp, faults>>

\* The write fails and the call returns an error, the worker already released.
StoreFails(r) ==
  /\ rep[r].pc = "released"
  /\ Fault
  /\ rep' = [rep EXCEPT ![r] = IdleRep]
  /\ disturbed' = disturbed \cup ({rep[r].row.worker} \ {None})
  /\ UNCHANGED <<taskVars, load, wstatus, stored, disp>>

RequeueRetry(r) ==
  /\ rep[r].pc = "requeue"
  /\ SendOrDrop([task |-> rep[r].task, retries |-> rep[r].row.retries])
  /\ rep' = [rep EXCEPT ![r] = IdleRep]
  /\ UNCHANGED <<row, owed, duplicated, workerVars, disp, faults>>

\* Copies of a task that will reach the dispatcher or are in its hands.
Holders(t) ==
  Cardinality({i \in 1..Len(queue) : queue[i].task = t})
    + (IF disp.pc \in {"picked", "requeue", "selected"} /\ disp.copy.task = t THEN 1 ELSE 0)
    + Cardinality({r \in Reporters : rep[r].pc = "requeue" /\ rep[r].task = t})

\* The process ends and Start loads the workers' rows; the channel is empty
\* and nobody reads the pending rows.
Restart ==
  /\ Fault
  /\ dropped' = dropped \cup {t \in Tasks : Holders(t) > 0}
  /\ queue' = << >> /\ disp' = IdleDisp /\ rep' = [r \in Reporters |-> IdleRep]
  /\ load' = [w \in Workers |-> IF w \in ListWorkerRows THEN stored[w] ELSE load[w]]
  /\ disturbed' = Workers
  /\ UNCHANGED <<row, owed, duplicated, wstatus, stored>>

----------------------------------------------------------------------------
(* ExecutorHandler: the routes.  A request that is refused (a wrong method, a  *)
(* body that cannot be read) changes nothing.                                  *)

submitTask(t) == SubmitTask(t)
registerWorker(w) == RegisterWorker(w)
unregisterWorker(w) == UnregisterWorker(w)
heartbeat(w) == Heartbeat(w)
handleTask(r, t) == Report(r, t)

Dispatch == Receive \/ SelectWorker \/ Requeue \/ Assign \/ CountLoad
Serve(r) == Release(r) \/ Store(r) \/ StoreFails(r) \/ RequeueRetry(r)

Next ==
  \/ Dispatch \/ Restart
  \/ \E t \in Tasks : submitTask(t) \/ \E r \in Reporters : handleTask(r, t)
  \/ \E r \in Reporters : Serve(r)
  \/ \E w \in Workers : registerWorker(w) \/ unregisterWorker(w) \/ heartbeat(w) \/ HealthCheck(w)

Spec == Init /\ [][Next]_vars

\* The dispatcher and the calls in progress go on; callers, workers and the
\* operator owe nothing.
FairSpec == Spec /\ WF_vars(Dispatch) /\ \A r \in Reporters : WF_vars(Serve(r))

----------------------------------------------------------------------------
(* Properties *)

\* Tasks that run on a worker by their row, and whose slot no report in
\* progress has given back.
RunningOn(w) ==
  {t \in Tasks : /\ row[t].status = "running" /\ row[t].worker = w
                 /\ \A r \in Reporters : ~(rep[r].pc = "released" /\ rep[r].task = t)}

\* The fields keep their types, and CurrentLoad is the number of tasks running
\* on the worker, less the one the dispatcher has assigned and not counted yet
\* (it may be -1 in between): assignment, report and retry, however
\* interleaved, keep the books and the worker's capacity, unless a heartbeat, a
\* repeated report or a failed write disturbed them.
LoadMatchesTasks ==
  /\ TypeOK
  /\ duplicated = {} => \A w \in Registered \ disturbed :
       /\ load[w] = Cardinality(RunningOn(w))
                      - (IF disp.pc = "counting" /\ disp.worker = w THEN 1 ELSE 0)
       /\ Cardinality(RunningOn(w)) <= Capacity[w]

\* A pending task is carried by exactly one copy and any other task by none,
\* so that it is never run twice at a time and never forgotten; the exceptions
\* are repeated reports, full channels, failed writes and restarts.
PendingIsCarried ==
  \A t \in Tasks \ duplicated :
    /\ Holders(t) <= 1
    /\ Holders(t) = 1 => row[t].status = "pending"
    /\ row[t].status = "pending" /\ t \notin dropped => Holders(t) = 1

\* A completed or failed task stays so, and is failed only after its retries,
\* if it is reported once per assignment.
OutcomeIsFinal ==
  [][\A t \in Tasks \ duplicated' :
       /\ row[t].status \in Final => row'[t] = row[t]
       /\ row'[t].status = "failed" => row'[t].retries = MaxRetries]_vars

\* While some worker that is not offline has room, a waiting task is assigned.
WaitingIsAssigned ==
  \A t \in Tasks :
    row[t].status = "pending" ~>
      \/ row[t].status # "pending" \/ t \in dropped
      \/ \A w \in Registered : wstatus[w] = "offline" \/ load[w] >= Capacity[w]

----------------------------------------------------------------------------
(* The instance: a worker runs one task at a time. *)

MCCapacity == [w \in Workers |-> 1]
=============================================================================
