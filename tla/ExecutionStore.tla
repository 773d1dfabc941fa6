--------------------------- MODULE ExecutionStore ---------------------------
(***************************************************************************)
(* The two implementations of the engine's ExecutionRepository             *)
(* (internal/engine/persistence.go), run side by side on the same calls of *)
(* the same workers: the in-memory one keeps the records it is given, and  *)
(* gives the same records out again; the PostgreSQL one copies them.       *)
(*                                                                         *)
(* A record is reduced to the workflow's name, which no UPDATE writes, and *)
(* to the status and the duration, which every UPDATE writes.              *)
(***************************************************************************)
EXTENDS Integers, Sequences, FiniteSets, FiniteSetsExt

CONSTANTS Workers, ExecIds,
          Durations,     \* durations of a finished execution
          WriteBound,    \* bound: updates and deletes of one execution
          NoRow

VARIABLES heap,     \* the records in memory, by the order of their creation
          mem,      \* r.executions: id -> index of its record, or 0
          pg,       \* the table: id -> row, or NoRow
          hand,     \* what each worker holds
          writes,   \* id -> writes to its row so far
          overlap   \* ids with an Update by a worker whose copy was out of date

storeVars == <<heap, mem, pg, hand, writes, overlap>>

EmptyHand == [id |-> NoRow, obj |-> 0, copy |-> NoRow, at |-> 0, dirty |-> FALSE]

NewRecord == [name |-> "loaded", status |-> "running", duration |-> 0]

(* The worker keeps the record it created, as the engine does. *)
Create(w, id) ==
    /\ hand[w] = EmptyHand /\ writes[id] = 0
    /\ heap' = Append(heap, NewRecord)
    /\ mem' = [mem EXCEPT ![id] = Len(heap) + 1]
    /\ pg' = [pg EXCEPT ![id] = NewRecord]
    /\ writes' = [writes EXCEPT ![id] = 1]
    /\ hand' = [hand EXCEPT ![w] = [id |-> id, obj |-> Len(heap) + 1,
                                    copy |-> NewRecord, at |-> 1, dirty |-> FALSE]]
    /\ UNCHANGED overlap

(* Memory answers with the record itself, the table with a copy. *)
FindByID(w, id) ==
    /\ hand[w] = EmptyHand
    /\ mem[id] # 0 /\ pg[id] # NoRow
    /\ hand' = [hand EXCEPT ![w] = [id |-> id, obj |-> mem[id],
                                    copy |-> pg[id], at |-> writes[id],
                                    dirty |-> FALSE]]
    /\ UNCHANGED <<heap, mem, pg, writes, overlap>>

(* A record with another status and duration. *)
Changed(row, s, d) == [name |-> row.name, status |-> s, duration |-> d]

(* The worker finishes the execution in the record it holds. *)
Change(w, s, d) ==
    LET h == hand[w] IN
    /\ h # EmptyHand /\ ~ h.dirty
    /\ heap' = [heap EXCEPT ![h.obj] = Changed(@, s, d)]
    /\ hand' = [hand EXCEPT ![w] = [id |-> h.id, obj |-> h.obj,
                                    copy |-> Changed(h.copy, s, d),
                                    at |-> h.at, dirty |-> TRUE]]
    /\ UNCHANGED <<mem, pg, writes, overlap>>

PgUpdate_NoDuration(id, row) ==
    IF pg[id] = NoRow THEN pg
    ELSE [pg EXCEPT ![id] = Changed(@, row.status, @.duration)]

(* UPDATE ... WHERE id: no row, no change; the columns it names. *)
PgUpdate(id, row) ==
    IF pg[id] = NoRow THEN pg
    ELSE [pg EXCEPT ![id] = Changed(@, row.status, row.duration)]

(* r.executions[id] = execution, whether or not the id is there. *)
MemUpdate(id, obj) == [mem EXCEPT ![id] = obj]

Update(w) ==
    LET h == hand[w] IN
    /\ h # EmptyHand /\ writes[h.id] < WriteBound
    /\ mem' = MemUpdate(h.id, h.obj)
    /\ pg' = PgUpdate(h.id, h.copy)
    /\ writes' = [writes EXCEPT ![h.id] = @ + 1]
    /\ overlap' = IF h.at = writes[h.id] THEN overlap
                  ELSE overlap \cup {h.id}
    /\ hand' = [hand EXCEPT ![w] = EmptyHand]
    /\ UNCHANGED heap

Delete(id) ==
    /\ mem[id] # 0 /\ writes[id] < WriteBound
    /\ mem' = [mem EXCEPT ![id] = 0]
    /\ pg' = [pg EXCEPT ![id] = NoRow]
    /\ writes' = [writes EXCEPT ![id] = @ + 1]
    /\ UNCHANGED <<heap, hand, overlap>>

Init == /\ heap = << >>
        /\ mem = [id \in ExecIds |-> 0]
        /\ pg = [id \in ExecIds |-> NoRow]
        /\ hand = [w \in Workers |-> EmptyHand]
        /\ writes = [id \in ExecIds |-> 0]
        /\ overlap = {}

Next == \/ \E w \in Workers :
             \/ \E id \in ExecIds : Create(w, id) \/ FindByID(w, id)
             \/ \E s \in {"completed", "failed"}, d \in Durations :
                  Change(w, s, d)
             \/ Update(w)
        \/ \E id \in ExecIds : Delete(id)

Spec == Init /\ [][Next]_storeVars

------------------------------------------------------------------------
(* GetStats of the store in memory. *)

InMemory == {id \in ExecIds : mem[id] # 0}

(* The orders in which a loop may walk a set. *)
Orders(S) == {f \in [1..Cardinality(S) -> S] : \A id \in S : \E i \in DOMAIN f : f[i] = id}

(* A duration below those seen so far: zero stands for "none yet". *)
Shorter_AnyZero(d, least) == d < least
Shorter(d, least) == least = 0 \/ d < least

(* The loop over the map, in one of its orders. *)
MemStats(order) ==
    LET duration(i) == heap[mem[order[i]]].duration
        n == Len(order)
        sum[i \in 0..n] == IF i = 0 THEN 0 ELSE sum[i - 1] + duration(i)
        most[i \in 0..n] ==
          IF i = 0 THEN 0
          ELSE IF duration(i) > most[i - 1] THEN duration(i) ELSE most[i - 1]
        least[i \in 0..n] ==
          IF i = 0 THEN 0
          ELSE IF Shorter(duration(i), least[i - 1]) THEN duration(i) ELSE least[i - 1]
    IN [min |-> least[n], max |-> most[n],
        avg |-> IF n = 0 THEN 0 ELSE sum[n] \div n]

Settled(id) == /\ id \notin overlap
               /\ \A w \in Workers : hand[w].id = id => ~ hand[w].dirty

(* The two repositories can stand in for each other while no update comes  *)
(* from an outdated copy (persistence.go:123-130, 338-363): an execution   *)
(* that has no unsaved change is the same in both, present or absent.  An  *)
(* update after a delete, or over another's update, tells them apart.      *)
StoresAgree ==
    \A id \in ExecIds : Settled(id) =>
        /\ (mem[id] = 0) = (pg[id] = NoRow)
        /\ mem[id] # 0 => heap[mem[id]] = pg[id]

(* The statistics in memory are the same in every order in which the map   *)
(* can be walked, and exact, unless an execution took no time, as every    *)
(* one that still runs: the loop takes a zero for "no minimum yet", and    *)
(* which minimum it then answers, even one above the average, is a matter  *)
(* of the order (persistence.go:243-245). Nothing is said of the table:    *)
(* its average is no integer, and GetStats fails on it as soon as there is *)
(* a row (persistence.go:474-487).                                         *)
StatsAreExact ==
    LET durations == {heap[mem[id]].duration : id \in InMemory} IN
    \A order \in Orders(InMemory) :
        LET stats == MemStats(order) IN
        durations # {} =>
          /\ stats.max = Max(durations)
          /\ stats.avg \in Min(durations)..Max(durations)
          /\ stats.min \in durations
          /\ 0 \notin durations => stats.min = Min(durations)

(* Why: an execution keeps its one record in memory, whoever holds it, and *)
(* until an outdated copy is written the two stores differ only by what    *)
(* the one worker with an unsaved change has done to that record.          *)
Records == [name : {"loaded"}, status : {"running", "completed", "failed"},
            duration : {0} \cup Durations]
InHand(w) ==
    LET h == hand[w] IN
    \/ h = EmptyHand
    \/ /\ h = [id |-> h.id, obj |-> h.obj, copy |-> h.copy, at |-> h.at,
               dirty |-> h.dirty]
       /\ h.id \in ExecIds /\ h.obj \in 1..Len(heap) /\ h.copy \in Records
       /\ h.at \in 1..writes[h.id] /\ h.dirty \in BOOLEAN
OwnRecord ==
    /\ \A i, j \in ExecIds : mem[i] # 0 /\ mem[i] = mem[j] => i = j
    /\ \A w \in Workers, i \in ExecIds :
         hand[w] # EmptyHand /\ mem[i] # 0 => (hand[w].id = i <=> hand[w].obj = mem[i])
    /\ \A v, w \in Workers :
         hand[v] # EmptyHand /\ hand[w] # EmptyHand =>
           (hand[v].id = hand[w].id <=> hand[v].obj = hand[w].obj)
UnsavedOnlyBy(w, id) ==
    \A v \in Workers : v # w /\ hand[v].id = id => ~ hand[v].dirty
UpToDate(w) ==
    LET h == hand[w] IN
    h # EmptyHand /\ h.id \notin overlap /\ h.at = writes[h.id] =>
      /\ mem[h.id] # 0 /\ pg[h.id] # NoRow
      /\ ~ h.dirty => h.copy = pg[h.id]
      /\ UnsavedOnlyBy(w, h.id) => heap[h.obj] = h.copy
StoreInv ==
    /\ heap \in Seq(Records) /\ writes \in [ExecIds -> Nat]
    /\ mem \in [ExecIds -> 0..Len(heap)] /\ pg \in [ExecIds -> Records \cup {NoRow}]
    /\ DOMAIN hand = Workers /\ \A w \in Workers : InHand(w) /\ UpToDate(w)
    /\ OwnRecord
    /\ \A id \in ExecIds : writes[id] = 0 => mem[id] = 0
    /\ \A id \in ExecIds \ overlap : mem[id] = 0 <=> pg[id] = NoRow
    /\ StoresAgree
=============================================================================
