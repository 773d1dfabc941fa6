--------------------------- MODULE RealtimeEvents ---------------------------
(***************************************************************************)
(* What the gateway keeps about events for its clients                     *)
(* (realtime/events.go): the subscriptions of the broadcaster and the      *)
(* tracker of running executions. The two share no state; each has a       *)
(* specification of its own.                                               *)
(***************************************************************************)
EXTENDS Naturals, Sequences, FiniteSets

(***************************************************************************)
(* The subscriptions of the gateway's event broadcaster, on one channel.   *)
(* The subscribers are a slice. A broadcast takes the slice under the lock *)
(* and sends to its elements after unlocking, while Unsubscribe moves the  *)
(* elements within the same array and closes a subscriber's queue: the     *)
(* model keeps the arrays.                                                 *)
(***************************************************************************)

CONSTANTS
    Subscribers,            \* queues made by Subscribe
    Broadcasts,             \* events sent on the channel
    EventCap,               \* capacity of a subscriber's queue
    NoArray, NoSub

VARIABLES
    arrays,                 \* the arrays allocated so far
    slice,                  \* b.subscribers[channel]: its array and length
    subQueue,               \* subscriber -> events in its queue
    subState,               \* subscriber -> "new", "open", "closed"
    removal,                \* the Unsubscribe that holds the lock, or NoSub
    sending,                \* event -> where its broadcast is
    visits,                 \* history: event -> subscriber -> times reached
    crossedBy               \* history: events that a removal overlapped

castVars == <<arrays, slice, subQueue, subState, removal, sending, visits, crossedBy>>

NewEventBroadcaster == arrays = <<>> /\ slice = [array |-> NoArray, len |-> 0]
CastInit ==
    /\ NewEventBroadcaster
    /\ subQueue = [s \in Subscribers |-> 0] /\ subState = [s \in Subscribers |-> "new"]
    /\ removal = NoSub
    /\ sending = [e \in Broadcasts |-> [pc |-> "none"]]
    /\ visits = [e \in Broadcasts |-> [s \in Subscribers |-> 0]] /\ crossedBy = {}

Unlocked == removal = NoSub
Cap == IF slice.array = NoArray THEN 0 ELSE Len(arrays[slice.array])
Element(sl, i) == arrays[sl.array][i]
Listed == {Element(slice, i) : i \in 1..slice.len}

-------------------------------------------------------------------------------
\* append: in place while the array has room, otherwise in an array of twice
\* the size.
Grown(s) ==
    [i \in 1..(IF Cap = 0 THEN 1 ELSE 2 * Cap) |->
        IF i <= slice.len THEN Element(slice, i) ELSE IF i = slice.len + 1 THEN s ELSE NoSub]
Subscribe(s) ==
    /\ Unlocked /\ subState[s] = "new"
    /\ subState' = [subState EXCEPT ![s] = "open"]
    /\ IF slice.len < Cap
       THEN /\ arrays' = [arrays EXCEPT ![slice.array][slice.len + 1] = s]
            /\ slice' = [slice EXCEPT !.len = @ + 1]
       ELSE /\ arrays' = Append(arrays, Grown(s))
            /\ slice' = [array |-> Len(arrays) + 1, len |-> slice.len + 1]
    /\ UNCHANGED <<subQueue, removal, sending, visits, crossedBy>>

InLoop == {e \in Broadcasts : sending[e].pc = "loop"}

\* The elements behind the subscriber move down one by one, then its queue is
\* closed.
Unsubscribe(s) ==
    /\ Unlocked
    /\ \E i \in 1..slice.len : Element(slice, i) = s /\ removal' = [sub |-> s, at |-> i]
    /\ crossedBy' = crossedBy \union InLoop
    /\ UNCHANGED <<arrays, slice, subQueue, subState, sending, visits>>
MoveDown ==
    /\ ~Unlocked /\ removal.at < slice.len
    /\ arrays' = [arrays EXCEPT ![slice.array][removal.at] = Element(slice, removal.at + 1)]
    /\ removal' = [removal EXCEPT !.at = @ + 1]
    /\ UNCHANGED <<slice, subQueue, subState, sending, visits, crossedBy>>
CloseRemoved_Kept(sl) == sl
CloseRemoved(sl) == [sl EXCEPT !.len = @ - 1]
CloseSub ==
    /\ ~Unlocked /\ removal.at = slice.len
    /\ slice' = CloseRemoved(slice)
    /\ subState' = [subState EXCEPT ![removal.sub] = "closed"]
    /\ removal' = NoSub
    /\ UNCHANGED <<arrays, subQueue, sending, visits, crossedBy>>

-------------------------------------------------------------------------------
\* The events of executions, nodes and workflows name no workspace and no
\* user, so all of them go to the system channel.
getChannelForEvent(workspace, user) ==
    IF workspace THEN "workspace" ELSE IF user THEN "user" ELSE "system"
NewEvent == [channel |-> getChannelForEvent(FALSE, FALSE)]

Broadcast(e) ==
    /\ sending[e].pc = "none" /\ Unlocked
    /\ sending' = [sending EXCEPT ![e] =
          [pc |-> "loop", on |-> NewEvent.channel, slice |-> slice, at |-> 1, start |-> Listed]]
    /\ UNCHANGED <<arrays, slice, subQueue, subState, removal, visits, crossedBy>>

\* A queue that is full is passed over; a closed one panics.
notifySubscribers(e) ==
    LET q == sending[e] IN
    /\ q.pc = "loop" /\ q.at <= q.slice.len
    /\ LET s == Element(q.slice, q.at) IN
       IF subState[s] = "closed"
       THEN sending' = [sending EXCEPT ![e].pc = "panicked"] /\ UNCHANGED <<subQueue, visits>>
       ELSE /\ visits' = [visits EXCEPT ![e][s] = @ + 1]
            /\ subQueue' = [subQueue EXCEPT ![s] = IF @ < EventCap THEN @ + 1 ELSE @]
            /\ sending' = [sending EXCEPT ![e].at = @ + 1]
    /\ UNCHANGED <<arrays, slice, subState, removal, crossedBy>>
Sent(e) ==
    /\ sending[e].pc = "loop" /\ sending[e].at > sending[e].slice.len
    /\ sending' = [sending EXCEPT ![e].pc = "done"]
    /\ UNCHANGED <<arrays, slice, subQueue, subState, removal, visits, crossedBy>>

Receive(s) ==
    /\ subQueue[s] > 0 /\ subQueue' = [subQueue EXCEPT ![s] = @ - 1]
    /\ UNCHANGED <<arrays, slice, subState, removal, sending, visits, crossedBy>>

CastNext ==
    \/ \E s \in Subscribers : Subscribe(s) \/ Unsubscribe(s) \/ Receive(s)
    \/ MoveDown \/ CloseSub
    \/ \E e \in Broadcasts : Broadcast(e) \/ notifySubscribers(e) \/ Sent(e)

CastSpec == CastInit /\ [][CastNext]_castVars

-------------------------------------------------------------------------------
\* A broadcast that no Unsubscribe overlapped panics on no closed queue and
\* reaches exactly the subscribers there were, each once, however many joined
\* meanwhile.  An Unsubscribe while it sends makes it skip one, reach one twice
\* or panic (events.go:180-193, 206-219).
ReachesEachOnce ==
    \A e \in Broadcasts \ crossedBy :
        /\ sending[e].pc # "panicked"
        /\ sending[e].pc = "done" =>
              \A s \in Subscribers : visits[e][s] = IF s \in sending[e].start THEN 1 ELSE 0
-----------------------------------------------------------------------------
(***************************************************************************)
(* The gateway's tracker of running executions. It updates its map under   *)
(* the lock and announces the change afterwards; the end of an execution   *)
(* is marked, announced and forgotten in three steps.                      *)
(***************************************************************************)

CONSTANTS
    Tracked,                \* ids of executions
    TrackedNodes,           \* ids of nodes
    Reports,                \* goroutines that report an end
    CountBound,             \* bounds the nodes reported as completed
    NotTracked

VARIABLES
    trackedExecutions,      \* id -> TrackedExecution or NotTracked
    report,                 \* goroutine -> the end it is announcing
    startedOnce,            \* history: ids that were started
    announced,              \* history: id -> ends that reached the hub
    together                \* history: ids with two ends reported at a time

trackVars == <<trackedExecutions, report, startedOnce, announced, together>>

Idle == [pc |-> "idle"]
NewExecutionTracker == trackedExecutions = [x \in Tracked |-> NotTracked]
TrackInit ==
    /\ NewExecutionTracker
    /\ report = [g \in Reports |-> Idle] /\ startedOnce = {}
    /\ announced = [x \in Tracked |-> 0] /\ together = {}

Exists(x) == trackedExecutions[x] # NotTracked
Set(x, exec) == trackedExecutions' = [trackedExecutions EXCEPT ![x] = exec]

-------------------------------------------------------------------------------
\* The id of an execution is used once.
StartExecution(x, total) ==
    /\ x \notin startedOnce /\ startedOnce' = startedOnce \union {x}
    /\ Set(x, [total |-> total, completed |-> 0, status |-> "running",
               nodes |-> [n \in TrackedNodes |-> "none"]])
    /\ UNCHANGED <<report, announced, together>>
StartNode(x, n) ==
    /\ Exists(x)
    /\ Set(x, [trackedExecutions[x] EXCEPT !.nodes[n] = "running"])
    /\ UNCHANGED <<report, startedOnce, announced, together>>

\* The count goes up even for a node that is unknown or was completed before.
MarkNode(nodes, n, status) == IF nodes[n] = "none" THEN nodes ELSE [nodes EXCEPT ![n] = status]
CompleteNode(x, n) ==
    LET exec == trackedExecutions[x] IN
    /\ Exists(x) /\ exec.completed < CountBound
    /\ Set(x, [exec EXCEPT !.nodes = MarkNode(@, n, "completed"), !.completed = @ + 1])
    /\ UNCHANGED <<report, startedOnce, announced, together>>
FailNode(x, n) ==
    /\ Exists(x)
    /\ Set(x, [trackedExecutions[x] EXCEPT !.nodes = MarkNode(@, n, "failed")])
    /\ UNCHANGED <<report, startedOnce, announced, together>>

-------------------------------------------------------------------------------
\* The end is marked; the goroutine keeps a pointer to the execution.
MarkEnd(g, x, status) ==
    /\ report[g] = Idle /\ Exists(x)
    /\ Set(x, [trackedExecutions[x] EXCEPT !.status = status])
    /\ report' = [report EXCEPT ![g] = 
          [pc |-> "announce", id |-> x, status |-> status, total |-> trackedExecutions[x].total]]
    /\ together' = IF \E o \in Reports : report[o] # Idle /\ report[o].id = x
                   THEN together \union {x} ELSE together
    /\ UNCHANGED <<startedOnce, announced>>
CompleteExecution(g, x) == MarkEnd(g, x, "completed")
FailExecution(g, x) == MarkEnd(g, x, "failed")

\* A completed execution shows a progress of 100.  A failed one shows the
\* share of its nodes, which is no number if it has none (0/0 or 1/0), and
\* then the hub cannot encode the event and drops it.
Encodes(status, total) == status = "completed" \/ total # 0
Announce(g) ==
    LET q == report[g] IN
    /\ q.pc = "announce"
    /\ announced' = IF Encodes(q.status, q.total) THEN [announced EXCEPT ![q.id] = @ + 1]
                    ELSE announced
    /\ report' = [report EXCEPT ![g].pc = "forget"]
    /\ UNCHANGED <<trackedExecutions, startedOnce, together>>
Forget_Never(x) == UNCHANGED trackedExecutions
Forget(x) == Set(x, NotTracked)
Cleanup(g) ==
    /\ report[g].pc = "forget"
    /\ Forget(report[g].id)
    /\ report' = [report EXCEPT ![g] = Idle]
    /\ UNCHANGED <<startedOnce, announced, together>>

TrackNext ==
    \/ \E x \in Tracked :
          \/ \E total \in 0..Cardinality(TrackedNodes) : StartExecution(x, total)
          \/ \E n \in TrackedNodes : StartNode(x, n) \/ CompleteNode(x, n) \/ FailNode(x, n)
          \/ \E g \in Reports : CompleteExecution(g, x) \/ FailExecution(g, x)
    \/ \E g \in Reports : Announce(g) \/ Cleanup(g)

TrackSpec == TrackInit /\ [][TrackNext]_trackVars

-------------------------------------------------------------------------------
\* The end of an execution is announced twice only if two goroutines reported
\* it at the same time, between its mark and its removal
\* (events.go:441-470, 473-505).
EndsOnce == \A x \in Tracked : announced[x] > 1 => x \in together
=============================================================================
