------------------------ MODULE TaskDispatcherProofs ------------------------
(***************************************************************************)
(* Proofs about TaskDispatcher, for any tasks, workers, capacities and     *)
(* bounds on retries and faults.                                           *)
(***************************************************************************)
EXTENDS TaskDispatcher, FiniteSetTheorems, TLAPS

\* What the dispatcher and a call in progress hold is what their control
\* points say.
Holding ==
  /\ disp.pc # "idle" => disp.copy \in Copy
  /\ disp.pc \in {"selected", "counting"} =>
       disp.worker \in Workers /\ wstatus[disp.worker] # "new"
  /\ \A r \in Reporters : rep[r].pc # "idle" => rep[r].task \in Tasks /\ rep[r].row \in Rows

\* The three kinds of places a copy of a task can be in.
Waits(t)     == \E i \in 1..Len(queue) : queue[i].task = t
InHand(t)    == disp.pc \in {"picked", "requeue", "selected"} /\ disp.copy.task = t
Requeuing(t) == \E r \in Reporters : rep[r].pc = "requeue" /\ rep[r].task = t
Carried(t)   == Waits(t) \/ InHand(t) \/ Requeuing(t)

WaitsOnce(t) == \A i, j \in 1..Len(queue) : queue[i].task = t /\ queue[j].task = t => i = j
OneCall(t) ==
  \A r, s \in Reporters :
    /\ rep[r].pc # "idle" /\ rep[r].task = t
    /\ rep[s].pc # "idle" /\ rep[s].task = t
    => r = s

\* A task has one copy at most,
OneCopy(t) ==
  /\ WaitsOnce(t) /\ OneCall(t)
  /\ ~(Waits(t) /\ InHand(t)) /\ ~(Waits(t) /\ Requeuing(t)) /\ ~(InHand(t) /\ Requeuing(t))

\* and its row says who has it: a copy, a worker that owes a report, or a
\* report that has read the row.
RowTells(t) ==
  /\ Carried(t) => row[t].status = "pending"
  /\ row[t].status = "pending" /\ t \notin dropped => Carried(t)
  /\ t \in owed => row[t].status = "running"
  /\ row[t].status = "running" => row[t].worker \in Workers /\ wstatus[row[t].worker] # "new"
  /\ row[t].status = "failed" => row[t].retries = MaxRetries
  /\ \A r \in Reporters :
       rep[r].pc \in {"found", "released"} /\ rep[r].task = t =>
         row[t].status = "running" /\ rep[r].row = row[t] /\ t \notin owed

Settling == \A t \in Tasks \ duplicated : OneCopy(t) /\ RowTells(t)

\* The load of a worker and the room it had when it was selected.
Books(w) ==
  /\ IsFiniteSet(RunningOn(w))
  /\ load[w] = Cardinality(RunningOn(w))
                 - (IF disp.pc = "counting" /\ disp.worker = w THEN 1 ELSE 0)
  /\ Cardinality(RunningOn(w)) <= Capacity[w]
  /\ disp.pc = "selected" /\ disp.worker = w => Cardinality(RunningOn(w)) < Capacity[w]

Balanced ==
  duplicated = {} => \A w \in Workers \ disturbed : wstatus[w] # "gone" => Books(w)

\* The inductive invariant.
IInv == TypeOK /\ Holding /\ Settling /\ Balanced

----------------------------------------------------------------------------
(* Types *)

\* The empty service is well typed,
LEMMA TypeInit == Init => TypeOK /\ Holding
<1> SUFFICES ASSUME Init PROVE TypeOK /\ Holding
  OBVIOUS
<1> USE BoundsAssumption DEF Init, IdleDisp, IdleRep
<1>1. row \in [Tasks -> Rows]
  BY DEF Rows
<1>2. queue \in Seq(Copy) /\ Len(queue) <= QueueSize
  OBVIOUS
<1>3. rep \in [Reporters -> Calls] /\ disp \in Dispatches
  BY DEF Calls, Dispatches
<1>4. TypeOK
  <2>1. /\ load \in [Workers -> Int] /\ stored \in [Workers -> Int \cup {None}]
        /\ wstatus \in [Workers -> {"new", "idle", "busy", "offline", "gone"}]
    OBVIOUS
  <2>2. /\ owed \cup duplicated \cup dropped \subseteq Tasks /\ disturbed \subseteq Workers
        /\ faults \in 0..MaxFaults
    OBVIOUS
  <2> QED
    BY <1>1, <1>2, <1>3, <2>1, <2>2 DEF TypeOK
<1>5. Holding
  BY DEF Holding
<1> QED
  BY <1>4, <1>5

\* The channel takes a copy or drops the task.
LEMMA SendTypes ==
  ASSUME TypeOK, NEW c \in Copy, SendOrDrop(c)
  PROVE  /\ queue' \in Seq(Copy) /\ Len(queue') <= QueueSize
         /\ dropped' \subseteq Tasks
<1>1. queue \in Seq(Copy) /\ Len(queue) <= QueueSize
  BY DEF TypeOK
<1>2. Append(queue, c) \in Seq(Copy) /\ Len(Append(queue, c)) = Len(queue) + 1
  BY <1>1
<1>3. queue' \in Seq(Copy) /\ Len(queue') <= QueueSize
  BY <1>1, <1>2, BoundsAssumption DEF SendOrDrop
<1>4. dropped' \subseteq Tasks
  BY DEF SendOrDrop, TypeOK, Copy
<1> QED
  BY <1>3, <1>4

\* and every step keeps the types.
LEMMA TypeStep == TypeOK /\ Holding /\ [Next]_vars => TypeOK' /\ Holding'
<1> SUFFICES ASSUME TypeOK, Holding, [Next]_vars PROVE TypeOK' /\ Holding'
  OBVIOUS
<1> USE CapacityAssumption, BoundsAssumption DEF taskVars, workerVars, Fault, NoFault, IdleDisp, IdleRep
<1>1. ASSUME NEW t \in Tasks, SubmitTask(t) PROVE TypeOK' /\ Holding'
  <2>1. [task |-> t, retries |-> 0] \in Copy
    BY DEF Copy
  <2>2. queue' \in Seq(Copy) /\ Len(queue') <= QueueSize /\ dropped' \subseteq Tasks
    BY <1>1, <2>1, SendTypes DEF SubmitTask
  <2>3. row' \in [Tasks -> Rows]
    <3>1. row \in [Tasks -> Rows]
      BY DEF TypeOK
    <3>2. [row[t] EXCEPT !.status = "pending"] \in Rows
      BY <3>1 DEF Rows
    <3> QED
      BY <1>1, <3>1, <3>2 DEF SubmitTask, CreateTaskRow
  <2> QED
    BY <1>1, <2>2, <2>3 DEF SubmitTask, TypeOK, Holding
<1>2. ASSUME NEW w \in Workers, RegisterWorker(w) \/ UnregisterWorker(w) PROVE TypeOK' /\ Holding'
  <2>1. wstatus' \in [Workers -> {"new", "idle", "busy", "offline", "gone"}]
        /\ \A v \in Workers : wstatus[v] # "new" => wstatus'[v] # "new"
    BY <1>2 DEF RegisterWorker, UnregisterWorker, TypeOK
  <2>2. stored' \in [Workers -> Int \cup {None}]
    BY <1>2 DEF RegisterWorker, UnregisterWorker, CreateWorkerRow, DeleteWorkerRow, TypeOK
  <2> QED
    BY <1>2, <2>1, <2>2 DEF RegisterWorker, UnregisterWorker, TypeOK, Holding
<1>3. ASSUME NEW w \in Workers, Heartbeat(w) PROVE TypeOK' /\ Holding'
  BY <1>3 DEF Heartbeat, Registered, UpdateWorkerRow, TypeOK, Holding
<1>4. ASSUME NEW w \in Workers, HealthCheck(w) PROVE TypeOK' /\ Holding'
  BY <1>4 DEF HealthCheck, Registered, TypeOK, Holding
<1>5. CASE Receive
  <2>1. Head(queue) \in Copy /\ queue' \in Seq(Copy) /\ Len(queue') <= QueueSize
    BY <1>5 DEF Receive, TypeOK
  <2>2. disp' \in Dispatches /\ disp'.pc = "picked" /\ disp'.copy = Head(queue)
    BY <1>5, <2>1 DEF Receive, TypeOK, Dispatches
  <2>3. TypeOK'
    BY <1>5, <2>1, <2>2 DEF Receive, TypeOK
  <2>4. Holding'
    BY <1>5, <2>1, <2>2 DEF Receive, Holding
  <2> QED
    BY <2>3, <2>4
<1>6. CASE SelectWorker
  <2>1. disp \in Dispatches /\ disp.copy \in Copy
    BY <1>6 DEF SelectWorker, TypeOK, Holding
  <2>2. disp' \in Dispatches /\ disp'.copy = disp.copy
        /\ (disp'.pc = "requeue" \/ disp'.worker \in Candidates)
    BY <1>6, <2>1 DEF SelectWorker, Dispatches, Candidates, Registered
  <2>3. \A w \in Candidates : w \in Workers /\ wstatus[w] # "new"
    BY DEF Candidates, Registered
  <2>4. TypeOK'
    BY <1>6, <2>2 DEF SelectWorker, TypeOK
  <2>5. Holding'
    BY <1>6, <2>1, <2>2, <2>3 DEF SelectWorker, Holding
  <2> QED
    BY <2>4, <2>5
<1>7. CASE Requeue
  <2>1. queue' \in Seq(Copy) /\ Len(queue') <= QueueSize /\ dropped' \subseteq Tasks
    BY <1>7, SendTypes DEF Requeue, Holding
  <2>2. disp' \in Dispatches /\ disp'.pc = "idle"
    BY <1>7 DEF Requeue, Dispatches
  <2>3. TypeOK'
    BY <1>7, <2>1, <2>2 DEF Requeue, TypeOK
  <2>4. Holding'
    BY <1>7, <2>2 DEF Requeue, Holding
  <2> QED
    BY <2>3, <2>4
<1>8. CASE Assign
  <2>1. disp.copy \in Copy /\ disp.worker \in Workers /\ disp.copy.task \in Tasks
    BY <1>8 DEF Assign, Holding, Copy
  <2>2. row' \in [Tasks -> Rows]
    <3>1. [status |-> "running", worker |-> disp.worker, retries |-> disp.copy.retries] \in Rows
      BY <2>1 DEF Rows, Copy
    <3>2. row \in [Tasks -> Rows]
      BY DEF TypeOK
    <3> QED
      BY <1>8, <2>1, <3>1, <3>2 DEF Assign, UpdateTaskRow
  <2>3. /\ disp' \in Dispatches
        /\ disp'.pc # "idle" => disp'.copy = disp.copy /\ disp'.worker = disp.worker
    BY <1>8, <2>1 DEF Assign, TypeOK, Dispatches
  <2>4. owed' \subseteq Tasks /\ dropped' \subseteq Tasks /\ faults' \in 0..MaxFaults
    BY <1>8, <2>1 DEF Assign, TypeOK
  <2>5. disp'.pc # "idle" => wstatus[disp.worker] # "new"
    BY <1>8 DEF Assign, Holding
  <2>6. TypeOK'
    <3>1. UNCHANGED <<queue, load, wstatus, stored, rep, duplicated, disturbed>>
      BY <1>8 DEF Assign
    <3> QED
      BY <2>2, <2>3, <2>4, <3>1 DEF TypeOK
  <2>7. Holding'
    <3>1. UNCHANGED <<wstatus, rep>>
      BY <1>8 DEF Assign
    <3> QED
      BY <2>1, <2>3, <2>5, <3>1 DEF Holding
  <2> QED
    BY <2>6, <2>7
<1>9. CASE CountLoad
  <2>1. disp' \in Dispatches /\ disp'.pc = "idle"
    BY <1>9 DEF CountLoad, Dispatches
  <2>2. load' \in [Workers -> Int]
        /\ wstatus' \in [Workers -> {"new", "idle", "busy", "offline", "gone"}]
    BY <1>9 DEF CountLoad, Holding, TypeOK
  <2>3. TypeOK'
    BY <1>9, <2>1, <2>2 DEF CountLoad, TypeOK
  <2>4. Holding'
    BY <1>9, <2>1 DEF CountLoad, Holding
  <2> QED
    BY <2>3, <2>4
<1>10. ASSUME NEW r \in Reporters, NEW t \in Tasks, Report(r, t) PROVE TypeOK' /\ Holding'
  <2>1. row[t] \in Rows
    BY DEF TypeOK
  <2>2. rep' \in [Reporters -> Calls]
        /\ rep'[r].task = t /\ rep'[r].row = row[t] /\ \A s \in Reporters \ {r} : rep'[s] = rep[s]
    BY <1>10, <2>1 DEF Report, FindTaskRow, TypeOK, Calls
  <2>3. owed' \subseteq Tasks /\ duplicated' \subseteq Tasks /\ faults' \in 0..MaxFaults
    BY <1>10 DEF Report, TypeOK
  <2>4. TypeOK'
    BY <1>10, <2>2, <2>3 DEF Report, TypeOK
  <2>5. Holding'
    BY <1>10, <2>1, <2>2 DEF Report, Holding
  <2> QED
    BY <2>4, <2>5
<1>11. ASSUME NEW r \in Reporters, Release(r) PROVE TypeOK' /\ Holding'
  <2>1. load' \in [Workers -> Int]
    BY <1>11 DEF Release, LoadAfterRelease, Registered, TypeOK
  <2>2. wstatus' \in [Workers -> {"new", "idle", "busy", "offline", "gone"}]
        /\ \A v \in Workers : wstatus[v] # "new" => wstatus'[v] # "new"
    BY <1>11 DEF Release, Registered, TypeOK
  <2>3. rep' \in [Reporters -> Calls]
    <3>1. rep \in [Reporters -> Calls]
      BY DEF TypeOK
    <3>2. [rep[r] EXCEPT !.pc = "released"] \in Calls
      BY <3>1 DEF Calls
    <3> QED
      BY <1>11, <3>1, <3>2 DEF Release
  <2>4. \A s \in Reporters : rep'[s].pc # "idle" =>
          rep[s].pc # "idle" /\ rep'[s].task = rep[s].task /\ rep'[s].row = rep[s].row
    BY <1>11 DEF Release, TypeOK
  <2>5. TypeOK'
    BY <1>11, <2>1, <2>2, <2>3 DEF Release, TypeOK
  <2>6. Holding'
    BY <1>11, <2>2, <2>4 DEF Release, Holding
  <2> QED
    BY <2>5, <2>6
<1>12. ASSUME NEW r \in Reporters, Store(r) PROVE TypeOK' /\ Holding'
  <2> DEFINE old == rep[r].row
             retry == ~rep[r].ok /\ MayRetry(old.retries)
             new == IF retry
                      THEN [status |-> "pending", worker |-> None, retries |-> old.retries + 1]
                      ELSE [old EXCEPT !.status = IF rep[r].ok THEN "completed" ELSE "failed"]
  <2>1. rep[r].task \in Tasks /\ old \in Rows
    BY <1>12 DEF Store, Holding
  <2>2. new \in Rows
    BY <2>1 DEF Rows, MayRetry, Final
  <2>3. row' = [row EXCEPT ![rep[r].task] = new]
        /\ rep' = [rep EXCEPT ![r] = IF retry THEN [@ EXCEPT !.pc = "requeue", !.row = new] ELSE IdleRep]
    BY <1>12 DEF Store, UpdateTaskRow
  <2> HIDE DEF new, retry
  <2>4. row' \in [Tasks -> Rows]
    BY <2>1, <2>2, <2>3 DEF TypeOK
  <2>5. /\ rep'[r] \in Calls
        /\ rep'[r].pc # "idle" => rep'[r].task \in Tasks /\ rep'[r].row \in Rows
    <3>1. CASE retry
      <4>1. rep'[r] = [pc |-> "requeue", ok |-> rep[r].ok, task |-> rep[r].task, row |-> new]
        <5>1. rep \in [Reporters -> Calls]
          BY DEF TypeOK
        <5>2. rep'[r] = [rep[r] EXCEPT !.pc = "requeue", !.row = new]
          BY <2>3, <3>1, <5>1
        <5>3. rep[r] \in [pc : {"idle", "found", "released", "requeue"}, ok : BOOLEAN,
                          task : Tasks \cup {None}, row : Rows \cup {None}]
          BY <5>1 DEF Calls
        <5> QED
          BY <5>2, <5>3
      <4>2. rep[r] \in Calls
        BY DEF TypeOK
      <4> QED
        BY <2>1, <2>2, <4>1, <4>2 DEF Calls
    <3>2. CASE ~retry
      BY <2>3, <3>2 DEF TypeOK, Calls
    <3> QED
      BY <3>1, <3>2
  <2>6. rep' \in [Reporters -> Calls] /\ \A s \in Reporters \ {r} : rep'[s] = rep[s]
    <3>1. rep \in [Reporters -> Calls] /\ DOMAIN rep' = DOMAIN rep
          /\ rep' = [rep EXCEPT ![r] = rep'[r]]
      BY <2>3 DEF TypeOK
    <3> QED
      BY <2>5, <3>1
  <2>7. TypeOK'
    <3>2. UNCHANGED <<queue, disp, load, wstatus, stored, owed, duplicated, dropped, disturbed, faults>>
      BY <1>12 DEF Store
    <3> QED
      BY <2>4, <2>6, <3>2 DEF TypeOK
  <2>8. Holding'
    <3>1. UNCHANGED <<disp, wstatus>>
      BY <1>12 DEF Store
    <3> QED
      BY <2>5, <2>6, <3>1 DEF Holding
  <2> QED
    BY <2>7, <2>8
<1>13. ASSUME NEW r \in Reporters, StoreFails(r) PROVE TypeOK' /\ Holding'
  <2>1. rep' \in [Reporters -> Calls] /\ rep'[r].pc = "idle"
        /\ \A s \in Reporters \ {r} : rep'[s] = rep[s]
    BY <1>13 DEF StoreFails, TypeOK, Calls
  <2>2. disturbed' \subseteq Workers /\ faults' \in 0..MaxFaults
    BY <1>13 DEF StoreFails, TypeOK, Holding, Rows
  <2>3. TypeOK'
    BY <1>13, <2>1, <2>2 DEF StoreFails, TypeOK
  <2>4. Holding'
    BY <1>13, <2>1 DEF StoreFails, Holding
  <2> QED
    BY <2>3, <2>4
<1>14. ASSUME NEW r \in Reporters, RequeueRetry(r) PROVE TypeOK' /\ Holding'
  <2>1. [task |-> rep[r].task, retries |-> rep[r].row.retries] \in Copy
    BY <1>14 DEF RequeueRetry, Holding, Rows, Copy
  <2>2. queue' \in Seq(Copy) /\ Len(queue') <= QueueSize /\ dropped' \subseteq Tasks
    BY <1>14, <2>1, SendTypes DEF RequeueRetry
  <2>3. rep' \in [Reporters -> Calls] /\ rep'[r].pc = "idle"
        /\ \A s \in Reporters \ {r} : rep'[s] = rep[s]
    BY <1>14 DEF RequeueRetry, TypeOK, Calls
  <2>4. TypeOK'
    BY <1>14, <2>2, <2>3 DEF RequeueRetry, TypeOK
  <2>5. Holding'
    BY <1>14, <2>3 DEF RequeueRetry, Holding
  <2> QED
    BY <2>4, <2>5
<1>15. CASE Restart
  <2>1. rep' \in [Reporters -> Calls] /\ disp' \in Dispatches
        /\ disp'.pc = "idle" /\ \A r \in Reporters : rep'[r].pc = "idle"
    BY <1>15 DEF Restart, Calls, Dispatches
  <2>2. load' \in [Workers -> Int]
    BY <1>15 DEF Restart, ListWorkerRows, TypeOK
  <2>3. queue' \in Seq(Copy) /\ Len(queue') <= QueueSize
    BY <1>15 DEF Restart
  <2>4. dropped' \subseteq Tasks /\ disturbed' \subseteq Workers /\ faults' \in 0..MaxFaults
    BY <1>15 DEF Restart, TypeOK
  <2>5. TypeOK'
    BY <1>15, <2>1, <2>2, <2>3, <2>4 DEF Restart, TypeOK
  <2>6. Holding'
    BY <2>1 DEF Holding
  <2> QED
    BY <2>5, <2>6
<1>16. CASE UNCHANGED vars
  BY <1>16 DEF vars, TypeOK, Holding
<1> QED
  BY <1>1, <1>2, <1>3, <1>4, <1>5, <1>6, <1>7, <1>8, <1>9, <1>10, <1>11, <1>12, <1>13,
     <1>14, <1>15, <1>16
  DEF Next, Dispatch, Serve, submitTask, registerWorker, unregisterWorker, heartbeat, handleTask

----------------------------------------------------------------------------
(* Copies of tasks *)

\* Sending a copy puts it behind the others or drops its task.
LEMMA SendKeeps ==
  ASSUME TypeOK, NEW c \in Copy, SendOrDrop(c), NEW t \in Tasks
  PROVE  /\ Waits(t)' <=> Waits(t) \/ (c.task = t /\ Waits(t)')
         /\ c.task = t => Waits(t)' \/ t \in dropped'
         /\ dropped \subseteq dropped'
         /\ WaitsOnce(t) /\ ~(c.task = t /\ Waits(t)) => WaitsOnce(t)'
<1>1. queue \in Seq(Copy) /\ Len(queue) \in Nat
  BY DEF TypeOK
<1>2. CASE Len(queue) < QueueSize
  <2>1. queue' = Append(queue, c) /\ dropped' = dropped
    BY <1>2 DEF SendOrDrop
  <2>2. /\ Len(queue') = Len(queue) + 1 /\ queue'[Len(queue) + 1] = c
        /\ \A i \in 1..Len(queue) : queue'[i] = queue[i]
    BY <1>1, <2>1
  <2> QED
    BY <1>1, <2>1, <2>2 DEF Waits, WaitsOnce
<1>3. CASE ~(Len(queue) < QueueSize)
  <2>1. queue' = queue /\ dropped' = dropped \cup {c.task}
    BY <1>3 DEF SendOrDrop
  <2> QED
    BY <2>1 DEF Waits, WaitsOnce
<1> QED
  BY <1>2, <1>3

\* Receiving takes the first copy out of the channel.
LEMMA ReceiveKeeps ==
  ASSUME TypeOK, queue # << >>, queue' = Tail(queue), NEW t \in Tasks
  PROVE  /\ Waits(t) <=> Waits(t)' \/ Head(queue).task = t
         /\ WaitsOnce(t) => WaitsOnce(t)' /\ ~(Head(queue).task = t /\ Waits(t)')
<1>1. queue \in Seq(Copy) /\ Len(queue) \in Nat /\ Len(queue) > 0 /\ Head(queue) = queue[1]
  BY DEF TypeOK
<1>2. Len(queue') = Len(queue) - 1 /\ \A i \in 1..Len(queue') : queue'[i] = queue[i + 1]
  BY <1>1
<1>3. Waits(t)' => Waits(t)
  BY <1>1, <1>2 DEF Waits
<1>4. Head(queue).task = t => Waits(t)
  BY <1>1 DEF Waits
<1>5. Waits(t) => Waits(t)' \/ Head(queue).task = t
  <2> SUFFICES ASSUME NEW i \in 1..Len(queue), queue[i].task = t, i # 1 PROVE Waits(t)'
    BY <1>1 DEF Waits
  <2>1. i - 1 \in 1..Len(queue') /\ queue'[i - 1].task = t
    BY <1>1, <1>2
  <2> QED
    BY <2>1 DEF Waits
<1>6. WaitsOnce(t) => WaitsOnce(t)' /\ ~(Head(queue).task = t /\ Waits(t)')
  <2> SUFFICES ASSUME WaitsOnce(t) PROVE WaitsOnce(t)' /\ ~(Head(queue).task = t /\ Waits(t)')
    OBVIOUS
  <2>1. \A i \in 1..Len(queue') : i + 1 \in 1..Len(queue) /\ queue'[i] = queue[i + 1]
    BY <1>1, <1>2
  <2>2. WaitsOnce(t)'
    BY <1>1, <1>2, <2>1 DEF WaitsOnce
  <2>3. ~(Head(queue).task = t /\ Waits(t)')
    BY <1>1, <1>2, <2>1 DEF WaitsOnce, Waits
  <2> QED
    BY <2>2, <2>3
<1> QED
  BY <1>3, <1>4, <1>5, <1>6

\* Holders counts the copies.
LEMMA HoldersCount ==
  ASSUME TypeOK, NEW t \in Tasks, OneCopy(t)
  PROVE  Holders(t) = IF Carried(t) THEN 1 ELSE 0
<1> DEFINE Q == {i \in 1..Len(queue) : queue[i].task = t}
           R == {r \in Reporters : rep[r].pc = "requeue" /\ rep[r].task = t}
<1>1. Cardinality(Q) = IF Waits(t) THEN 1 ELSE 0
  <2>1. CASE Waits(t)
    <3>1. PICK i \in 1..Len(queue) : queue[i].task = t
      BY <2>1 DEF Waits
    <3>2. Q = {i}
      BY <3>1 DEF OneCopy, WaitsOnce
    <3> QED
      BY <2>1, <3>2, FS_Singleton
  <2>2. CASE ~Waits(t)
    <3>1. Q = {}
      BY <2>2 DEF Waits
    <3> QED
      BY <2>2, <3>1, FS_EmptySet
  <2> QED
    BY <2>1, <2>2
<1>2. Cardinality(R) = IF Requeuing(t) THEN 1 ELSE 0
  <2>1. CASE Requeuing(t)
    <3>1. PICK r \in Reporters : rep[r].pc = "requeue" /\ rep[r].task = t
      BY <2>1 DEF Requeuing
    <3>2. R = {r}
      BY <3>1 DEF OneCopy, OneCall
    <3> QED
      BY <2>1, <3>2, FS_Singleton
  <2>2. CASE ~Requeuing(t)
    <3>1. R = {}
      BY <2>2 DEF Requeuing
    <3> QED
      BY <2>2, <3>1, FS_EmptySet
  <2> QED
    BY <2>1, <2>2
<1>3. Holders(t) = Cardinality(Q) + (IF InHand(t) THEN 1 ELSE 0) + Cardinality(R)
  BY DEF Holders, InHand
<1> QED
  BY <1>1, <1>2, <1>3 DEF OneCopy, Carried

----------------------------------------------------------------------------
(* Every task settles *)

\* The steps that touch no task, no copy and no call.
LEMMA SettlingFrame ==
  ASSUME TypeOK, Settling, UNCHANGED <<taskVars, disp, rep>>,
         \A v \in Workers : wstatus[v] # "new" => wstatus'[v] # "new"
  PROVE  Settling'
<1> SUFFICES ASSUME NEW t \in Tasks \ duplicated' PROVE OneCopy(t)' /\ RowTells(t)'
  BY DEF Settling
<1>1. OneCopy(t) /\ RowTells(t)
  BY DEF Settling, taskVars
<1>2. OneCopy(t)' /\ (Carried(t)' <=> Carried(t))
  BY <1>1 DEF OneCopy, WaitsOnce, OneCall, Carried, Waits, InHand, Requeuing, taskVars
<1>3. RowTells(t)'
  BY <1>1, <1>2 DEF RowTells, taskVars
<1> QED
  BY <1>2, <1>3

\* No task has ended at the start.
LEMMA SettlingInit == Init => Settling
<1> SUFFICES ASSUME Init, NEW t \in Tasks PROVE OneCopy(t) /\ RowTells(t)
  BY DEF Settling
<1>1. /\ queue = << >> /\ disp.pc = "idle" /\ \A r \in Reporters : rep[r].pc = "idle"
      /\ row[t].status = "none" /\ owed = {}
  BY DEF Init, IdleDisp, IdleRep
<1>2. ~Waits(t) /\ ~InHand(t) /\ ~Requeuing(t) /\ WaitsOnce(t) /\ OneCall(t)
  BY <1>1 DEF Waits, InHand, Requeuing, WaitsOnce, OneCall
<1> QED
  BY <1>1, <1>2 DEF OneCopy, RowTells, Carried

\* The dispatcher's steps: a copy goes from place to place, and its task is
\* assigned when it leaves the last one.
LEMMA SettlingDispatch ==
  ASSUME TypeOK, Holding, Settling, Dispatch
  PROVE  Settling'
<1> SUFFICES ASSUME NEW t \in Tasks \ duplicated' PROVE OneCopy(t)' /\ RowTells(t)'
  BY DEF Settling
<1>1. duplicated' = duplicated /\ rep' = rep
  BY DEF Dispatch, Receive, SelectWorker, Requeue, Assign, CountLoad, taskVars
<1>2. OneCopy(t) /\ RowTells(t)
  BY <1>1 DEF Settling
<1>3. OneCall(t)' /\ (Requeuing(t)' <=> Requeuing(t))
  BY <1>1, <1>2 DEF OneCopy, OneCall, Requeuing
<1>4. CASE Receive
  <2>1. /\ Waits(t) <=> Waits(t)' \/ Head(queue).task = t
        /\ WaitsOnce(t)' /\ ~(Head(queue).task = t /\ Waits(t)')
    BY <1>2, <1>4, ReceiveKeeps DEF Receive, OneCopy
  <2>2. ~InHand(t) /\ (InHand(t)' <=> Head(queue).task = t)
    <3>1. disp.pc = "idle" /\ disp'.pc = "picked" /\ disp'.copy = Head(queue)
      BY <1>4 DEF Receive, TypeOK, Dispatches
    <3> QED
      BY <3>1 DEF InHand
  <2>3. OneCopy(t)' /\ (Carried(t)' <=> Carried(t))
    BY <1>2, <1>3, <2>1, <2>2 DEF OneCopy, Carried
  <2>4. UNCHANGED <<row, owed, dropped, wstatus, rep>>
    BY <1>4 DEF Receive, workerVars
  <2> QED
    BY <1>2, <2>3, <2>4 DEF RowTells
<1>5. CASE SelectWorker
  <2>1. UNCHANGED <<row, queue, owed, dropped, wstatus, rep>>
    BY <1>5 DEF SelectWorker, workerVars, taskVars
  <2>2. InHand(t)' <=> InHand(t)
    <3>1. disp.pc = "picked" /\ disp'.pc \in {"requeue", "selected"} /\ disp'.copy = disp.copy
      BY <1>5 DEF SelectWorker, TypeOK, Dispatches
    <3> QED
      BY <3>1 DEF InHand
  <2>3. OneCopy(t)' /\ (Carried(t)' <=> Carried(t))
    BY <1>2, <1>3, <2>1, <2>2 DEF OneCopy, Carried, Waits, WaitsOnce
  <2> QED
    BY <1>2, <2>1, <2>3 DEF RowTells
<1>6. CASE Requeue
  <2>1. disp.copy \in Copy /\ disp.pc = "requeue" /\ disp'.pc = "idle" /\ SendOrDrop(disp.copy)
    BY <1>6 DEF Requeue, Holding, IdleDisp
  <2>2. /\ Waits(t)' <=> Waits(t) \/ (disp.copy.task = t /\ Waits(t)')
        /\ disp.copy.task = t => Waits(t)' \/ t \in dropped'
        /\ dropped \subseteq dropped'
        /\ WaitsOnce(t) /\ ~(disp.copy.task = t /\ Waits(t)) => WaitsOnce(t)'
    BY <2>1, SendKeeps
  <2>3. (InHand(t) <=> disp.copy.task = t) /\ ~InHand(t)'
    BY <2>1 DEF InHand
  <2>4. /\ OneCopy(t)' /\ (Carried(t)' => Carried(t))
        /\ Carried(t) => Carried(t)' \/ t \in dropped'
    BY <1>2, <1>3, <2>2, <2>3 DEF OneCopy, Carried
  <2>5. UNCHANGED <<row, owed, wstatus, rep>>
    BY <1>6 DEF Requeue, workerVars
  <2> QED
    BY <1>2, <2>2, <2>4, <2>5 DEF RowTells
<1>7. CASE Assign
  <2>1. disp.copy \in Copy /\ disp.pc = "selected" /\ disp'.pc \in {"idle", "counting"}
    BY <1>7 DEF Assign, Holding, IdleDisp, TypeOK, Dispatches
  <2>2. (InHand(t) <=> disp.copy.task = t) /\ ~InHand(t)'
    BY <2>1 DEF InHand
  <2>3. UNCHANGED <<queue, wstatus, rep>>
    BY <1>7 DEF Assign, workerVars
  <2>4. Waits(t)' <=> Waits(t)
    BY <2>3 DEF Waits
  <2>5. OneCopy(t)'
    BY <1>2, <1>3, <2>2, <2>3, <2>4 DEF OneCopy, WaitsOnce
  <2>6. CASE disp.copy.task # t
    <3>1. Carried(t)' <=> Carried(t)
      BY <1>3, <2>2, <2>4, <2>6 DEF Carried
    <3>2. row'[t] = row[t] /\ (t \in owed' <=> t \in owed) /\ dropped \subseteq dropped'
      BY <1>7, <2>6 DEF Assign, UpdateTaskRow, TypeOK
    <3> QED
      BY <1>2, <2>3, <2>5, <3>1, <3>2 DEF RowTells
  <2>7. CASE disp.copy.task = t
    <3>1. ~Carried(t)' /\ row[t].status = "pending" /\ t \notin owed
      BY <1>2, <1>3, <2>2, <2>4, <2>7 DEF Carried, OneCopy, RowTells
    <3>2. \A r \in Reporters : ~(rep[r].pc \in {"found", "released"} /\ rep[r].task = t)
      BY <1>2, <3>1 DEF RowTells
    <3>3. \/ /\ row'[t].status = "running" /\ row'[t].worker = disp.worker
          \/ row'[t] = row[t] /\ t \in dropped' /\ owed' = owed
      BY <1>7, <2>7 DEF Assign, UpdateTaskRow, TypeOK
    <3>4. disp.worker \in Workers /\ wstatus[disp.worker] # "new"
      BY <2>1 DEF Holding
    <3> QED
      BY <2>3, <2>5, <3>1, <3>2, <3>3, <3>4 DEF RowTells
  <2> QED
    BY <2>6, <2>7
<1>8. CASE CountLoad
  <2>1. UNCHANGED <<row, queue, owed, dropped, rep>> /\ ~InHand(t) /\ ~InHand(t)'
    BY <1>8 DEF CountLoad, taskVars, InHand, IdleDisp
  <2>2. \A v \in Workers : wstatus[v] # "new" => wstatus'[v] # "new"
    BY <1>8 DEF CountLoad, Registered, TypeOK
  <2>3. OneCopy(t)' /\ (Carried(t)' <=> Carried(t))
    BY <1>2, <1>3, <2>1 DEF OneCopy, Carried, Waits, WaitsOnce
  <2> QED
    BY <1>2, <2>1, <2>2, <2>3 DEF RowTells
<1> QED
  BY <1>4, <1>5, <1>6, <1>7, <1>8 DEF Dispatch

\* A new task gets a row and a copy.
LEMMA SettlingSubmit ==
  ASSUME TypeOK, Holding, Settling, NEW n \in Tasks, SubmitTask(n)
  PROVE  Settling'
<1> SUFFICES ASSUME NEW t \in Tasks \ duplicated' PROVE OneCopy(t)' /\ RowTells(t)'
  BY DEF Settling
<1> DEFINE c == [task |-> n, retries |-> 0]
<1>1. UNCHANGED <<owed, duplicated, wstatus, disp, rep>> /\ row[n].status = "none"
  BY DEF SubmitTask, workerVars
<1>2. OneCopy(t) /\ RowTells(t)
  BY <1>1 DEF Settling
<1>3. c \in Copy /\ c.task = n
  BY BoundsAssumption DEF Copy
<1>4. /\ Waits(t)' <=> Waits(t) \/ (c.task = t /\ Waits(t)')
      /\ c.task = t => Waits(t)' \/ t \in dropped'
      /\ dropped \subseteq dropped'
      /\ WaitsOnce(t) /\ ~(c.task = t /\ Waits(t)) => WaitsOnce(t)'
  <2>1. SendOrDrop(c)
    BY DEF SubmitTask
  <2> HIDE DEF c
  <2> QED
    BY <1>3, <2>1, SendKeeps
<1>5. OneCall(t)' /\ (Requeuing(t)' <=> Requeuing(t)) /\ (InHand(t)' <=> InHand(t))
  BY <1>1, <1>2 DEF OneCopy, OneCall, Requeuing, InHand
<1>6. CASE n # t
  <2>1. row'[t] = row[t] /\ OneCopy(t)' /\ (Carried(t)' <=> Carried(t))
    BY <1>2, <1>3, <1>4, <1>5, <1>6 DEF SubmitTask, CreateTaskRow, TypeOK, OneCopy, Carried
  <2> QED
    BY <1>1, <1>2, <1>4, <2>1 DEF RowTells
<1>7. CASE n = t
  <2>1. ~Carried(t) /\ t \notin owed
        /\ \A r \in Reporters : ~(rep[r].pc \in {"found", "released"} /\ rep[r].task = t)
    BY <1>1, <1>2, <1>7 DEF RowTells
  <2>2. row'[t].status = "pending"
    BY <1>7 DEF SubmitTask, CreateTaskRow, TypeOK, Rows
  <2>3. OneCopy(t)' /\ (Carried(t)' \/ t \in dropped')
    BY <1>2, <1>3, <1>4, <1>5, <1>7, <2>1 DEF OneCopy, Carried
  <2> QED
    BY <1>1, <2>1, <2>2, <2>3 DEF RowTells
<1> QED
  BY <1>6, <1>7

\* A call reads the row of the task it reports, gives the slot back, stores
\* the row and sends the copy of a retry.
LEMMA SettlingReport ==
  ASSUME TypeOK, Holding, Settling, NEW q \in Reporters, NEW n \in Tasks, Report(q, n)
  PROVE  Settling'
<1> SUFFICES ASSUME NEW t \in Tasks \ duplicated' PROVE OneCopy(t)' /\ RowTells(t)'
  BY DEF Settling
<1>1. UNCHANGED <<row, queue, dropped, wstatus, disp>> /\ duplicated \subseteq duplicated'
  BY DEF Report, workerVars
<1>2. OneCopy(t) /\ RowTells(t)
  BY <1>1 DEF Settling
<1>3. /\ rep[q].pc = "idle" /\ rep'[q].pc = "found" /\ rep'[q].task = n /\ rep'[q].row = row[n]
      /\ \A s \in Reporters \ {q} : rep'[s] = rep[s]
  BY DEF Report, FindTaskRow, TypeOK
<1>4. owed' = owed \ {n} /\ (n = t => t \in owed)
  BY DEF Report
<1>5. /\ Waits(t)' <=> Waits(t)
      /\ InHand(t)' <=> InHand(t)
      /\ Requeuing(t)' <=> Requeuing(t)
      /\ WaitsOnce(t)'
  BY <1>1, <1>2, <1>3 DEF Waits, InHand, Requeuing, OneCopy, WaitsOnce
<1>6. CASE n # t
  <2>1. OneCall(t)'
    BY <1>2, <1>3, <1>6 DEF OneCopy, OneCall
  <2> QED
    BY <1>1, <1>2, <1>3, <1>4, <1>5, <1>6, <2>1 DEF OneCopy, RowTells, Carried
<1>7. CASE n = t
  <2>1. row[t].status = "running" /\ ~Carried(t)
    BY <1>2, <1>4, <1>7 DEF RowTells
  <2>2. \A s \in Reporters : rep[s].pc # "idle" => rep[s].task # t
    <3> SUFFICES ASSUME NEW s \in Reporters, rep[s].pc # "idle", rep[s].task = t PROVE FALSE
      OBVIOUS
    <3>1. rep[s].pc \in {"found", "released", "requeue"}
      BY DEF TypeOK, Calls
    <3> QED
      BY <1>2, <1>4, <1>7, <2>1, <3>1 DEF RowTells, Carried, Requeuing
  <2>3. OneCall(t)'
    BY <1>3, <2>2 DEF OneCall
  <2> QED
    BY <1>1, <1>2, <1>3, <1>4, <1>5, <1>7, <2>1, <2>2, <2>3 DEF OneCopy, RowTells, Carried
<1> QED
  BY <1>6, <1>7

\* A report keeps what is known of tasks that ended,
LEMMA SettlingServe ==
  ASSUME TypeOK, Holding, Settling, NEW q \in Reporters, Serve(q)
  PROVE  Settling'
<1> SUFFICES ASSUME NEW t \in Tasks \ duplicated' PROVE OneCopy(t)' /\ RowTells(t)'
  BY DEF Settling
<1>1. /\ duplicated' = duplicated /\ disp' = disp /\ owed' = owed
      /\ \A s \in Reporters \ {q} : rep'[s] = rep[s]
  BY DEF Serve, Release, Store, StoreFails, RequeueRetry, taskVars, TypeOK
<1>2. OneCopy(t) /\ RowTells(t)
  BY <1>1 DEF Settling
<1>3. InHand(t)' <=> InHand(t)
  BY <1>1 DEF InHand
<1>4. CASE Release(q)
  <2>1. /\ rep[q].pc = "found" /\ rep'[q].pc = "released"
        /\ rep'[q].task = rep[q].task /\ rep'[q].row = rep[q].row
    BY <1>4 DEF Release, TypeOK, Calls
  <2>2. UNCHANGED <<row, queue, dropped>>
    BY <1>4 DEF Release, taskVars
  <2>3. \A v \in Workers : wstatus[v] # "new" => wstatus'[v] # "new"
    BY <1>4 DEF Release, Registered, TypeOK
  <2>4. OneCall(t)' /\ (Requeuing(t)' <=> Requeuing(t))
    BY <1>1, <1>2, <2>1 DEF OneCopy, OneCall, Requeuing
  <2>5. OneCopy(t)' /\ (Carried(t)' <=> Carried(t))
    BY <1>2, <1>3, <2>2, <2>4 DEF OneCopy, WaitsOnce, Waits, Carried
  <2> QED
    BY <1>1, <1>2, <2>1, <2>2, <2>3, <2>5 DEF RowTells
<1>5. CASE Store(q)
  <2>1. /\ rep[q].pc = "released" /\ UNCHANGED <<queue, dropped, wstatus>>
        /\ rep[q].task \in Tasks /\ rep[q].row \in Rows
    BY <1>5 DEF Store, workerVars, Holding
  <2>2. \/ /\ rep'[q].pc = "requeue" /\ rep'[q].task = rep[q].task
           /\ row'[rep[q].task].status = "pending"
        \/ /\ rep'[q].pc = "idle"
           /\ row'[rep[q].task].status \in Final
           /\ row'[rep[q].task].status = "failed" => row'[rep[q].task].retries = MaxRetries
    <3> DEFINE old == rep[q].row
               retry == ~rep[q].ok /\ MayRetry(old.retries)
               new == IF retry
                        THEN [status |-> "pending", worker |-> None, retries |-> old.retries + 1]
                        ELSE [old EXCEPT !.status = IF rep[q].ok THEN "completed" ELSE "failed"]
    <3>1. /\ row'[rep[q].task] = new
          /\ rep'[q] = IF retry THEN [rep[q] EXCEPT !.pc = "requeue", !.row = new] ELSE IdleRep
      BY <1>5, <2>1 DEF Store, UpdateTaskRow, TypeOK
    <3>2. CASE retry
      <4>1. rep'[q] = [rep[q] EXCEPT !.pc = "requeue", !.row = new] /\ rep[q] \in Calls
        BY <3>1, <3>2 DEF TypeOK
      <4>2. rep'[q].pc = "requeue" /\ rep'[q].task = rep[q].task
        <5> HIDE DEF new
        <5> QED
          BY <4>1 DEF Calls
      <4> QED
        BY <3>1, <3>2, <4>2
    <3>3. CASE ~retry
      <4>1. rep'[q].pc = "idle" /\ new = [old EXCEPT !.status = IF rep[q].ok THEN "completed" ELSE "failed"]
        BY <3>1, <3>3 DEF IdleRep
      <4>2. /\ new.status = (IF rep[q].ok THEN "completed" ELSE "failed")
            /\ new.retries = old.retries
        BY <2>1, <4>1 DEF Rows
      <4>3. ~rep[q].ok => old.retries = MaxRetries
        BY <2>1, <3>3, BoundsAssumption DEF MayRetry, Rows
      <4> QED
        BY <3>1, <4>1, <4>2, <4>3 DEF Final
    <3> QED
      BY <3>2, <3>3
  <2>3. /\ Waits(t)' <=> Waits(t)
        /\ WaitsOnce(t)'
    BY <1>2, <2>1 DEF Waits, OneCopy, WaitsOnce
  <2>4. CASE rep[q].task # t
    <3>1. row'[t] = row[t]
      BY <1>5, <2>4 DEF Store, UpdateTaskRow, TypeOK
    <3>2. OneCall(t)' /\ (Requeuing(t)' <=> Requeuing(t))
      BY <1>1, <1>2, <2>1, <2>2, <2>4 DEF OneCopy, OneCall, Requeuing
    <3>3. OneCopy(t)' /\ (Carried(t)' <=> Carried(t))
      BY <1>2, <1>3, <2>3, <3>2 DEF OneCopy, Carried
    <3> QED
      BY <1>1, <1>2, <2>1, <2>2, <2>4, <3>1, <3>3 DEF RowTells
  <2>5. CASE rep[q].task = t
    <3>1. row[t].status = "running" /\ ~Carried(t) /\ t \notin owed
      BY <1>2, <2>1, <2>5 DEF RowTells
    <3>2. \A s \in Reporters \ {q} : rep[s].pc # "idle" => rep[s].task # t
      BY <1>2, <2>1, <2>5 DEF OneCopy, OneCall
    <3>3. OneCall(t)' /\ (Requeuing(t)' <=> rep'[q].pc = "requeue")
      BY <1>1, <2>2, <2>5, <3>2 DEF OneCall, Requeuing
    <3>4. OneCopy(t)' /\ (Carried(t)' <=> rep'[q].pc = "requeue")
      BY <1>3, <2>3, <3>1, <3>3 DEF OneCopy, Carried
    <3> QED
      BY <1>1, <2>1, <2>2, <2>5, <3>1, <3>2, <3>4 DEF RowTells, Final
  <2> QED
    BY <2>4, <2>5
<1>6. CASE StoreFails(q)
  <2>1. rep[q].pc = "released" /\ rep'[q].pc = "idle" /\ UNCHANGED <<row, queue, dropped, wstatus>>
    BY <1>6 DEF StoreFails, taskVars, TypeOK, IdleRep
  <2>2. OneCall(t)' /\ (Requeuing(t)' <=> Requeuing(t))
    BY <1>1, <1>2, <2>1 DEF OneCopy, OneCall, Requeuing
  <2>3. OneCopy(t)' /\ (Carried(t)' <=> Carried(t))
    BY <1>2, <1>3, <2>1, <2>2 DEF OneCopy, WaitsOnce, Waits, Carried
  <2> QED
    BY <1>1, <1>2, <2>1, <2>3 DEF RowTells
<1>7. CASE RequeueRetry(q)
  <2> DEFINE c == [task |-> rep[q].task, retries |-> rep[q].row.retries]
  <2>1. rep[q].pc = "requeue" /\ rep'[q].pc = "idle" /\ UNCHANGED <<row, wstatus>>
    BY <1>7 DEF RequeueRetry, workerVars, TypeOK, IdleRep
  <2>2. c \in Copy /\ c.task = rep[q].task /\ SendOrDrop(c)
    BY <1>7, <2>1 DEF RequeueRetry, Holding, Rows, Copy
  <2>3. /\ Waits(t)' <=> Waits(t) \/ (c.task = t /\ Waits(t)')
        /\ c.task = t => Waits(t)' \/ t \in dropped'
        /\ dropped \subseteq dropped'
        /\ WaitsOnce(t) /\ ~(c.task = t /\ Waits(t)) => WaitsOnce(t)'
    <3> HIDE DEF c
    <3> QED
      BY <2>2, SendKeeps
  <2> HIDE DEF c
  <2>4. OneCall(t)'
    BY <1>1, <1>2, <2>1 DEF OneCopy, OneCall
  <2>5. CASE rep[q].task # t
    <3>1. Requeuing(t)' <=> Requeuing(t)
      BY <1>1, <2>1, <2>5 DEF Requeuing
    <3>2. OneCopy(t)' /\ (Carried(t)' <=> Carried(t))
      BY <1>2, <1>3, <2>2, <2>3, <2>4, <2>5, <3>1 DEF OneCopy, Carried
    <3> QED
      BY <1>1, <1>2, <2>1, <2>3, <2>5, <3>2 DEF RowTells
  <2>6. CASE rep[q].task = t
    <3>1. Requeuing(t) /\ ~Requeuing(t)' /\ ~Waits(t) /\ ~InHand(t)
      BY <1>1, <1>2, <2>1, <2>6 DEF OneCopy, OneCall, Requeuing
    <3>2. OneCopy(t)' /\ Carried(t) /\ (Carried(t)' \/ t \in dropped')
      BY <1>2, <1>3, <2>2, <2>3, <2>4, <2>6, <3>1 DEF OneCopy, Carried
    <3> QED
      BY <1>1, <1>2, <2>1, <2>3, <3>2 DEF RowTells
  <2> QED
    BY <2>5, <2>6
<1> QED
  BY <1>4, <1>5, <1>6, <1>7 DEF Serve

\* A restart forgets the copies and the calls; the rows stay.
LEMMA SettlingRestart ==
  ASSUME TypeOK, Settling, Restart
  PROVE  Settling'
<1> SUFFICES ASSUME NEW t \in Tasks \ duplicated' PROVE OneCopy(t)' /\ RowTells(t)'
  BY DEF Settling
<1>1. /\ UNCHANGED <<row, owed, duplicated, wstatus>> /\ queue' = << >> /\ disp'.pc = "idle"
      /\ \A r \in Reporters : rep'[r].pc = "idle"
      /\ dropped' = dropped \cup {u \in Tasks : Holders(u) > 0}
  BY DEF Restart, IdleDisp, IdleRep
<1>2. OneCopy(t) /\ RowTells(t)
  BY <1>1 DEF Settling
<1>3. OneCopy(t)' /\ ~Carried(t)'
  BY <1>1 DEF OneCopy, WaitsOnce, OneCall, Carried, Waits, InHand, Requeuing
<1>4. Carried(t) => t \in dropped'
  <2>1. Holders(t) = IF Carried(t) THEN 1 ELSE 0
    BY <1>2, HoldersCount
  <2> QED
    BY <1>1, <2>1
<1> QED
  BY <1>1, <1>2, <1>3, <1>4 DEF RowTells

\* and so does every other step.
LEMMA SettlingStep == TypeOK /\ Holding /\ Settling /\ [Next]_vars => Settling'
<1> SUFFICES ASSUME TypeOK, Holding, Settling, [Next]_vars PROVE Settling'
  OBVIOUS
<1>1. ASSUME NEW w \in Workers,
             RegisterWorker(w) \/ UnregisterWorker(w) \/ Heartbeat(w) \/ HealthCheck(w)
      PROVE  Settling'
  <2>1. UNCHANGED <<taskVars, disp, rep>>
    BY <1>1 DEF RegisterWorker, UnregisterWorker, Heartbeat, HealthCheck
  <2>2. \A v \in Workers : wstatus[v] # "new" => wstatus'[v] # "new"
    BY <1>1 DEF RegisterWorker, UnregisterWorker, Heartbeat, HealthCheck, TypeOK
  <2> QED
    BY <2>1, <2>2, SettlingFrame
<1>2. CASE UNCHANGED vars
  <2>1. UNCHANGED <<taskVars, disp, rep, wstatus>>
    BY <1>2 DEF vars, workerVars
  <2> QED
    BY <2>1, SettlingFrame
<1> QED
  BY <1>1, <1>2, SettlingDispatch, SettlingSubmit, SettlingReport, SettlingServe, SettlingRestart
  DEF Next, submitTask, registerWorker, unregisterWorker, heartbeat, handleTask

----------------------------------------------------------------------------
(* The books of the workers *)

\* No worker carries a load at the start,
LEMMA BalancedInit == Init => Balanced
<1> SUFFICES ASSUME Init, NEW w \in Workers PROVE Books(w)
  BY DEF Balanced
<1>1. RunningOn(w) = {} /\ load[w] = 0 /\ disp.pc = "idle"
  BY DEF Init, RunningOn, IdleDisp
<1>2. Capacity[w] \in Nat \ {0}
  BY CapacityAssumption
<1> QED
  BY <1>1, <1>2, FS_EmptySet DEF Books

\* A worker whose tasks and load stay, and that is not selected without room,
\* keeps its books.
LEMMA BooksFrame ==
  ASSUME NEW w \in Workers, Books(w), RunningOn(w)' = RunningOn(w), load'[w] = load[w],
         disp'.pc = "counting" /\ disp'.worker = w <=> disp.pc = "counting" /\ disp.worker = w,
         disp'.pc = "selected" /\ disp'.worker = w => Cardinality(RunningOn(w)) < Capacity[w]
  PROVE  Books(w)'
BY DEF Books

\* The dispatcher's steps: a worker is selected when it has room, its task is
\* assigned and then counted.
LEMMA BalancedDispatch ==
  ASSUME TypeOK, Holding, Settling, Balanced, Dispatch
  PROVE  Balanced'
<1> SUFFICES ASSUME duplicated' = {}, NEW w \in Workers \ disturbed', wstatus'[w] # "gone"
             PROVE  Books(w)'
  BY DEF Balanced
<1>1. duplicated' = duplicated /\ rep' = rep /\ disturbed' = disturbed
  BY DEF Dispatch, Receive, SelectWorker, Requeue, Assign, CountLoad, taskVars, workerVars
<1>2. wstatus[w] # "gone"
  BY DEF Dispatch, Receive, SelectWorker, Requeue, Assign, CountLoad, workerVars, Registered, TypeOK
<1>3. Books(w) /\ load[w] \in Int /\ Cardinality(RunningOn(w)) \in Nat /\ Capacity[w] \in Nat
  BY <1>1, <1>2, CapacityAssumption, FS_CardinalityType DEF Balanced, Books, TypeOK
<1>4. CASE Receive \/ SelectWorker \/ Requeue
  <2>1. load' = load /\ row' = row
    BY <1>4 DEF Receive, SelectWorker, Requeue, workerVars, taskVars
  <2>2. RunningOn(w)' = RunningOn(w)
    BY <1>1, <2>1 DEF RunningOn
  <2>3. /\ disp.pc # "counting" /\ disp'.pc # "counting"
        /\ disp'.pc = "selected" => SelectWorker /\ disp'.worker \in Candidates
    <3>1. disp \in Dispatches
      BY DEF TypeOK
    <3>2. CASE Receive
      <4>1. disp'.pc = "picked" /\ disp.pc = "idle"
        BY <3>1, <3>2 DEF Receive, Dispatches
      <4> QED
        BY <4>1
    <3>3. CASE SelectWorker
      BY <3>1, <3>3 DEF SelectWorker, Dispatches
    <3>4. CASE Requeue
      BY <3>4 DEF Requeue, IdleDisp
    <3> QED
      BY <1>4, <3>2, <3>3, <3>4
  <2>4. disp'.pc = "selected" /\ disp'.worker = w => Cardinality(RunningOn(w)) < Capacity[w]
    <3> SUFFICES ASSUME disp'.pc = "selected", disp'.worker = w
                 PROVE  Cardinality(RunningOn(w)) < Capacity[w]
      OBVIOUS
    <3>1. w \in Candidates
      BY <2>3
    <3>2. load[w] < Capacity[w]
      BY <3>1 DEF Candidates, HasRoom
    <3> QED
      BY <1>3, <2>3, <3>2 DEF Books
  <2> QED
    BY <1>3, <2>1, <2>2, <2>3, <2>4, BooksFrame
<1>5. CASE Assign
  <2>1. /\ disp.pc = "selected" /\ disp.copy.task \in Tasks /\ disp.worker \in Workers
        /\ load' = load
    BY <1>5 DEF Assign, Holding, Copy, workerVars
  <2>2. CASE row' = row
    <3>1. RunningOn(w)' = RunningOn(w)
      BY <1>1, <2>2 DEF RunningOn
    <3>2. disp'.pc = "idle"
      <4>1. row[disp.copy.task].status = "pending"
        BY <1>1, <2>1 DEF Settling, RowTells, Carried, InHand
      <4> QED
        BY <1>5, <2>1, <2>2, <4>1 DEF Assign, UpdateTaskRow, IdleDisp, TypeOK
    <3> QED
      BY <1>3, <2>1, <3>1, <3>2, BooksFrame
  <2>3. CASE row' # row
    <3> DEFINE t == disp.copy.task
    <3>1. /\ row'[t].status = "running" /\ row'[t].worker = disp.worker
          /\ \A u \in Tasks \ {t} : row'[u] = row[u]
          /\ disp'.pc = "counting" /\ disp'.worker = disp.worker
      BY <1>5, <2>1, <2>3 DEF Assign, UpdateTaskRow, TypeOK, Dispatches
    <3>2. /\ row[t].status = "pending"
          /\ \A r \in Reporters : ~(rep[r].pc = "released" /\ rep[r].task = t)
      BY <1>1, <2>1 DEF Settling, RowTells, Carried, InHand
    <3>3. CASE disp.worker # w
      <4>1. RunningOn(w)' = RunningOn(w)
        BY <1>1, <3>1, <3>2, <3>3 DEF RunningOn
      <4> QED
        BY <1>3, <2>1, <3>1, <3>3, <4>1, BooksFrame
    <3>4. CASE disp.worker = w
      <4>1. RunningOn(w)' = RunningOn(w) \cup {t} /\ t \notin RunningOn(w)
        BY <1>1, <2>1, <3>1, <3>2, <3>4 DEF RunningOn
      <4>2. /\ IsFiniteSet(RunningOn(w)')
            /\ Cardinality(RunningOn(w)') = Cardinality(RunningOn(w)) + 1
        <5>1. IsFiniteSet(RunningOn(w))
          BY <1>3 DEF Books
        <5>2. /\ IsFiniteSet(RunningOn(w) \cup {t})
              /\ Cardinality(RunningOn(w) \cup {t}) = Cardinality(RunningOn(w)) + 1
          BY <4>1, <5>1, FS_AddElement
        <5> QED
          BY <4>1, <5>2
      <4> QED
        BY <1>3, <2>1, <3>1, <3>4, <4>2 DEF Books
    <3> QED
      BY <3>3, <3>4
  <2> QED
    BY <2>2, <2>3
<1>6. CASE CountLoad
  <2>1. disp.pc = "counting" /\ disp.worker \in Workers /\ disp'.pc = "idle" /\ row' = row
    BY <1>6 DEF CountLoad, Holding, IdleDisp, taskVars
  <2>2. RunningOn(w)' = RunningOn(w)
    BY <1>1, <2>1 DEF RunningOn
  <2>3. load'[w] = IF disp.worker = w THEN load[w] + 1 ELSE load[w]
    BY <1>6, <2>1 DEF CountLoad, TypeOK
  <2> QED
    BY <1>3, <2>1, <2>2, <2>3 DEF Books
<1> QED
  BY <1>4, <1>5, <1>6 DEF Dispatch

\* The steps of a call: the slot of its worker is given back once, and the row
\* stops saying "running" before the call ends.
LEMMA BalancedServe ==
  ASSUME TypeOK, Holding, Settling, Balanced, NEW q \in Reporters, Serve(q)
  PROVE  Balanced'
<1> SUFFICES ASSUME duplicated' = {}, NEW w \in Workers \ disturbed', wstatus'[w] # "gone"
             PROVE  Books(w)'
  BY DEF Balanced
<1> DEFINE n == rep[q].task
<1>1. /\ duplicated' = duplicated /\ disp' = disp /\ disturbed \subseteq disturbed'
      /\ \A s \in Reporters \ {q} : rep'[s] = rep[s]
  BY DEF Serve, Release, Store, StoreFails, RequeueRetry, taskVars, workerVars, TypeOK
<1>2. wstatus[w] # "gone"
  BY DEF Serve, Release, Store, StoreFails, RequeueRetry, workerVars, Registered, TypeOK
<1>3. Books(w) /\ load[w] \in Int /\ Cardinality(RunningOn(w)) \in Nat /\ Capacity[w] \in Nat
  BY <1>1, <1>2, CapacityAssumption, FS_CardinalityType DEF Balanced, Books, TypeOK
<1>4. ASSUME load' = load, RunningOn(w)' = RunningOn(w) PROVE Books(w)'
  BY <1>1, <1>3, <1>4 DEF Books
<1>5. rep[q].pc # "idle" => n \in Tasks /\ OneCall(n) /\ RowTells(n)
  BY <1>1 DEF Holding, Settling, OneCopy
<1>6. CASE Release(q)
  <2>1. /\ rep[q].pc = "found" /\ rep'[q].pc = "released" /\ rep'[q].task = n
        /\ row' = row
    BY <1>6 DEF Release, TypeOK, Calls, taskVars
  <2>2. /\ row[n].status = "running" /\ rep[q].row = row[n]
        /\ row[n].worker \in Workers /\ wstatus[row[n].worker] # "new"
        /\ \A s \in Reporters : rep[s].pc # "idle" /\ rep[s].task = n => s = q
    BY <1>5, <2>1 DEF OneCall, RowTells
  <2>3. CASE row[n].worker # w
    <3>1. RunningOn(w)' = RunningOn(w)
      BY <1>1, <2>1, <2>3 DEF RunningOn
    <3>2. load'[w] = load[w]
      BY <1>6, <2>2, <2>3 DEF Release, TypeOK
    <3> QED
      BY <1>1, <1>3, <3>1, <3>2 DEF Books
  <2>4. CASE row[n].worker = w
    <3>1. w \in Registered
      BY <1>2, <2>2, <2>4 DEF Registered
    <3>2. load'[w] = load[w] - 1
      BY <1>6, <2>2, <2>4, <3>1 DEF Release, LoadAfterRelease, TypeOK
    <3>3. RunningOn(w)' = RunningOn(w) \ {n} /\ n \in RunningOn(w)
      BY <1>1, <1>5, <2>1, <2>2, <2>4 DEF RunningOn
    <3>4. /\ IsFiniteSet(RunningOn(w)')
          /\ Cardinality(RunningOn(w)') = Cardinality(RunningOn(w)) - 1
      <4>1. IsFiniteSet(RunningOn(w))
        BY <1>3 DEF Books
      <4>2. /\ IsFiniteSet(RunningOn(w) \ {n})
            /\ Cardinality(RunningOn(w) \ {n}) = Cardinality(RunningOn(w)) - 1
        BY <3>3, <4>1, FS_RemoveElement
      <4> QED
        BY <3>3, <4>2
    <3> QED
      BY <1>1, <1>3, <3>2, <3>4 DEF Books
  <2> QED
    BY <2>3, <2>4
<1>7. CASE Store(q)
  <2>1. /\ rep[q].pc = "released" /\ rep'[q].pc # "released" /\ load' = load
        /\ row'[n].status # "running" /\ \A u \in Tasks \ {n} : row'[u] = row[u]
    <3> DEFINE old == rep[q].row
               retry == ~rep[q].ok /\ MayRetry(old.retries)
               new == IF retry
                        THEN [status |-> "pending", worker |-> None, retries |-> old.retries + 1]
                        ELSE [old EXCEPT !.status = IF rep[q].ok THEN "completed" ELSE "failed"]
    <3>1. /\ rep[q].pc = "released" /\ load' = load /\ row' = [row EXCEPT ![n] = new]
          /\ rep'[q] = IF retry THEN [rep[q] EXCEPT !.pc = "requeue", !.row = new] ELSE IdleRep
      BY <1>7 DEF Store, UpdateTaskRow, TypeOK, workerVars
    <3>2. new.status # "running"
      BY <1>5, <3>1 DEF Holding, Rows
    <3>3. rep'[q].pc # "released"
      <4>1. rep[q] \in Calls
        BY DEF TypeOK
      <4> HIDE DEF new
      <4> QED
        BY <3>1, <4>1 DEF Calls, IdleRep
    <3> HIDE DEF new
    <3> QED
      BY <1>5, <3>1, <3>2, <3>3 DEF TypeOK
  <2>2. RunningOn(w)' = RunningOn(w)
    BY <1>1, <2>1 DEF RunningOn
  <2> QED
    BY <1>4, <2>1, <2>2
<1>8. CASE StoreFails(q)
  <2>1. /\ rep[q].pc = "released" /\ rep'[q].pc = "idle" /\ UNCHANGED <<row, load>>
        /\ disturbed' = disturbed \cup ({rep[q].row.worker} \ {None})
    BY <1>8 DEF StoreFails, IdleRep, TypeOK, taskVars
  <2>2. row[n].status = "running" /\ row[n].worker \in Workers /\ rep[q].row = row[n]
    BY <1>5, <2>1 DEF RowTells
  <2>3. row[n].worker # w
    BY <2>1, <2>2, BoundsAssumption
  <2>4. RunningOn(w)' = RunningOn(w)
    BY <1>1, <2>1, <2>3 DEF RunningOn
  <2> QED
    BY <1>4, <2>1, <2>4
<1>9. CASE RequeueRetry(q)
  <2>1. rep[q].pc = "requeue" /\ rep'[q].pc = "idle" /\ UNCHANGED <<row, load>>
    BY <1>9 DEF RequeueRetry, IdleRep, TypeOK, workerVars
  <2>2. RunningOn(w)' = RunningOn(w)
    BY <1>1, <2>1 DEF RunningOn
  <2> QED
    BY <1>4, <2>1, <2>2
<1> QED
  BY <1>6, <1>7, <1>8, <1>9 DEF Serve

\* and every step keeps load and tasks in balance.
LEMMA BalancedStep == TypeOK /\ Holding /\ Settling /\ Balanced /\ [Next]_vars => Balanced'
<1> SUFFICES ASSUME TypeOK, Holding, Settling, Balanced, [Next]_vars PROVE Balanced'
  OBVIOUS
<1>1. ASSUME duplicated \subseteq duplicated', disturbed \subseteq disturbed', disp' = disp,
             \A w \in Workers \ disturbed' : wstatus'[w] # "gone" =>
               /\ wstatus[w] # "gone" /\ load'[w] = load[w]
               /\ duplicated = {} => RunningOn(w)' = RunningOn(w)
      PROVE  Balanced'
  <2> SUFFICES ASSUME duplicated' = {}, NEW w \in Workers \ disturbed', wstatus'[w] # "gone"
               PROVE  Books(w)'
    BY DEF Balanced
  <2>1. Books(w) /\ RunningOn(w)' = RunningOn(w) /\ load'[w] = load[w]
    BY <1>1 DEF Balanced
  <2> QED
    BY <1>1, <2>1 DEF Books
<1>2. ASSUME NEW n \in Tasks, SubmitTask(n) PROVE Balanced'
  <2>1. /\ row[n].status = "none" /\ row'[n].status = "pending"
        /\ \A u \in Tasks \ {n} : row'[u] = row[u]
    BY <1>2 DEF SubmitTask, CreateTaskRow, TypeOK, Rows
  <2>2. UNCHANGED <<duplicated, load, wstatus, disturbed, disp, rep>>
    BY <1>2 DEF SubmitTask, workerVars
  <2>3. \A w \in Workers : RunningOn(w)' = RunningOn(w)
    BY <2>1, <2>2 DEF RunningOn
  <2> QED
    BY <1>1, <2>2, <2>3
<1>3. ASSUME NEW v \in Workers,
             RegisterWorker(v) \/ UnregisterWorker(v) \/ Heartbeat(v) \/ HealthCheck(v)
      PROVE  Balanced'
  <2>1. UNCHANGED <<row, duplicated, disp, rep>> /\ disturbed \subseteq disturbed'
    BY <1>3 DEF RegisterWorker, UnregisterWorker, Heartbeat, HealthCheck, taskVars
  <2>2. \A w \in Workers \ disturbed' : wstatus'[w] # "gone" => wstatus[w] # "gone" /\ load'[w] = load[w]
    BY <1>3 DEF RegisterWorker, UnregisterWorker, Heartbeat, HealthCheck, Registered, TypeOK
  <2>3. \A w \in Workers : RunningOn(w)' = RunningOn(w)
    BY <2>1 DEF RunningOn
  <2> QED
    BY <1>1, <2>1, <2>2, <2>3
<1>4. ASSUME NEW q \in Reporters, NEW n \in Tasks, Report(q, n) PROVE Balanced'
  <2>1. /\ rep[q].pc = "idle" /\ rep'[q].pc = "found"
        /\ \A s \in Reporters \ {q} : rep'[s] = rep[s]
    BY <1>4 DEF Report, TypeOK
  <2>2. UNCHANGED <<row, load, wstatus, disturbed, disp>> /\ duplicated \subseteq duplicated'
    BY <1>4 DEF Report, workerVars
  <2>3. \A w \in Workers : RunningOn(w)' = RunningOn(w)
    BY <2>1, <2>2 DEF RunningOn
  <2> QED
    BY <1>1, <2>2, <2>3
<1>5. CASE Restart
  BY <1>5 DEF Restart, Balanced
<1>6. CASE UNCHANGED vars
  <2>1. UNCHANGED <<row, duplicated, disp, rep, load, wstatus, disturbed>>
    BY <1>6 DEF vars, taskVars, workerVars
  <2>2. \A w \in Workers : RunningOn(w)' = RunningOn(w)
    BY <2>1 DEF RunningOn
  <2> QED
    BY <1>1, <2>1, <2>2
<1> QED
  BY <1>2, <1>3, <1>4, <1>5, <1>6, BalancedDispatch, BalancedServe
  DEF Next, submitTask, registerWorker, unregisterWorker, heartbeat, handleTask

----------------------------------------------------------------------------
(* The theorems *)

\* The four parts of the invariant hold in every reachable state.
THEOREM Inductive == Spec => []IInv
<1>1. Init => IInv
  BY TypeInit, SettlingInit, BalancedInit DEF IInv
<1>2. IInv /\ [Next]_vars => IInv'
  BY TypeStep, SettlingStep, BalancedStep DEF IInv
<1> QED
  BY <1>1, <1>2, PTL DEF Spec

\* dispatchTasks, CompleteTask, FailTask and releaseWorker keep CurrentLoad
\* equal to the number of tasks running on the worker, and that within its
\* capacity, for any number of tasks, workers and concurrent calls.
THEOREM LoadsAreRight == Spec => []LoadMatchesTasks
<1>1. IInv => LoadMatchesTasks
  <2> SUFFICES ASSUME IInv, duplicated = {}, NEW w \in Registered \ disturbed PROVE Books(w)
    BY DEF LoadMatchesTasks, IInv, Books
  <2> QED
    BY DEF IInv, Balanced, Registered
<1> QED
  BY <1>1, Inductive, PTL

\* A pending task is in the channel, with the dispatcher or with the call that
\* retries it, once, and no other task is: none is run twice at a time, and
\* only a full channel, a failed write or a restart forgets one.
THEOREM PendingTasksAreCarried == Spec => []PendingIsCarried
<1>1. IInv => PendingIsCarried
  <2> SUFFICES ASSUME IInv, NEW t \in Tasks \ duplicated
               PROVE  /\ Holders(t) <= 1
                      /\ Holders(t) = 1 => row[t].status = "pending"
                      /\ row[t].status = "pending" /\ t \notin dropped => Holders(t) = 1
    BY DEF PendingIsCarried
  <2>1. OneCopy(t) /\ RowTells(t)
    BY DEF IInv, Settling
  <2>2. Holders(t) = IF Carried(t) THEN 1 ELSE 0
    BY <2>1, HoldersCount DEF IInv
  <2> QED
    BY <2>1, <2>2 DEF RowTells
<1> QED
  BY <1>1, Inductive, PTL

\* CompleteTask and FailTask decide a task once: a completed or failed row is
\* never written again, and a task fails only with its retries used up.
THEOREM OutcomesAreFinal == Spec => OutcomeIsFinal
<1>1. IInv /\ IInv' /\ [Next]_vars =>
        [\A t \in Tasks \ duplicated' :
           /\ row[t].status \in Final => row'[t] = row[t]
           /\ row'[t].status = "failed" => row'[t].retries = MaxRetries]_vars
  <2> SUFFICES ASSUME IInv, IInv', Next, NEW t \in Tasks \ duplicated'
               PROVE  /\ row[t].status \in Final => row'[t] = row[t]
                      /\ row'[t].status = "failed" => row'[t].retries = MaxRetries
    OBVIOUS
  <2>1. row'[t].status = "failed" => row'[t].retries = MaxRetries
    BY DEF IInv, Settling, RowTells
  <2>2. duplicated \subseteq duplicated'
    BY DEF Next, Dispatch, Serve, submitTask, registerWorker, unregisterWorker, heartbeat, handleTask,
           SubmitTask, RegisterWorker, UnregisterWorker, Heartbeat, HealthCheck, Receive,
           SelectWorker, Requeue, Assign, CountLoad, Report, Release, Store, StoreFails,
           RequeueRetry, Restart, taskVars
  <2>3. RowTells(t)
    BY <2>2 DEF IInv, Settling
  <2>4. ASSUME NEW n \in Tasks, SubmitTask(n), row[t].status \in Final PROVE row'[t] = row[t]
    BY <2>4 DEF SubmitTask, CreateTaskRow, Final, IInv, TypeOK
  <2>5. ASSUME Assign, row[t].status \in Final PROVE row'[t] = row[t]
    <3>1. disp.pc = "selected" /\ disp.copy.task # t
      BY <2>3, <2>5 DEF Assign, RowTells, Carried, InHand, Final
    <3> QED
      BY <2>5, <3>1 DEF Assign, UpdateTaskRow, IInv, TypeOK
  <2>6. ASSUME NEW q \in Reporters, Store(q), row[t].status \in Final PROVE row'[t] = row[t]
    <3>1. rep[q].task # t
      BY <2>3, <2>6 DEF Store, RowTells, Final
    <3> QED
      BY <2>6, <3>1 DEF Store, UpdateTaskRow, IInv, TypeOK
  <2>7. \/ row' = row
        \/ \E n \in Tasks : SubmitTask(n)
        \/ Assign
        \/ \E q \in Reporters : Store(q)
    BY DEF Next, Dispatch, Serve, submitTask, registerWorker, unregisterWorker, heartbeat, handleTask,
           RegisterWorker, UnregisterWorker, Heartbeat, HealthCheck, Receive, SelectWorker,
           Requeue, CountLoad, Report, Release, StoreFails, RequeueRetry, Restart, taskVars
  <2> QED
    BY <2>1, <2>4, <2>5, <2>6, <2>7
<1> QED
  BY <1>1, Inductive, PTL DEF Spec, OutcomeIsFinal
=============================================================================
