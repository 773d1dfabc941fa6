----------------------------- MODULE WebSocketHub -----------------------------
(***************************************************************************)
(* The WebSocket hub of the gateway.  One goroutine, Run, serves three     *)
(* unbuffered channels; every client has a reader and a writer goroutine   *)
(* and a bounded queue of messages between them.                           *)
(***************************************************************************)
EXTENDS Naturals, FiniteSets

CONSTANTS
    Clients,                \* connections
    HubChannels,            \* channels that clients subscribe to
    SendCap                 \* capacity of a client's Send queue

VARIABLES
    hub,                    \* what Run is doing
    registered,             \* Hub.clients
    members,                \* Hub.channels: channel -> clients
    joined,                 \* client -> Client.Channels
    queue,                  \* client -> messages in Send
    closed,                 \* clients whose Send is closed
    broken,                 \* clients whose connection is closed
    serve, reader, writer   \* client -> where its three goroutines are

hubVars == <<hub, registered, members, joined, queue, closed, broken, serve, reader, writer>>

Init ==
    /\ hub = [pc |-> "select"] /\ registered = {}
    /\ members = [ch \in HubChannels |-> {}]
    /\ joined = [c \in Clients |-> {}] /\ queue = [c \in Clients |-> 0]
    /\ closed = {} /\ broken = {}
    /\ serve = [c \in Clients |-> "none"]
    /\ reader = [c \in Clients |-> "none"] /\ writer = [c \in Clients |-> "none"]

Selecting == hub.pc = "select"
Full(c) == queue[c] = SendCap
Move(pc, c, to) == [pc EXCEPT ![c] = to]

-------------------------------------------------------------------------------
\* An upgraded connection is registered, then its goroutines start, then the
\* welcome message is sent, which panics on a queue closed by then.
ServeHTTP(c) ==
    /\ serve[c] = "none" /\ serve' = Move(serve, c, "register")
    /\ UNCHANGED <<hub, registered, members, joined, queue, closed, broken, reader, writer>>
Register(c) ==
    /\ Selecting /\ serve[c] = "register"
    /\ registered' = registered \union {c}
    /\ serve' = Move(serve, c, "welcome")
    /\ reader' = Move(reader, c, "read") /\ writer' = Move(writer, c, "write")
    /\ UNCHANGED <<hub, members, joined, queue, closed, broken>>
Welcome(c) ==
    /\ serve[c] = "welcome"
    /\ \/ /\ c \in closed /\ serve' = Move(serve, c, "panicked") /\ UNCHANGED queue
       \/ /\ c \notin closed /\ ~Full(c)
          /\ queue' = [queue EXCEPT ![c] = @ + 1]
          /\ serve' = Move(serve, c, "done")
    /\ UNCHANGED <<hub, registered, members, joined, closed, broken, reader, writer>>

-------------------------------------------------------------------------------
Subscribe_NotNoted(c, ch) ==
    members' = [members EXCEPT ![ch] = @ \union {c}] /\ UNCHANGED joined
Subscribe(c, ch) ==
    /\ members' = [members EXCEPT ![ch] = @ \union {c}]
    /\ joined' = [joined EXCEPT ![c] = @ \union {ch}]
Unsubscribe(c, ch) ==
    /\ members' = [members EXCEPT ![ch] = @ \ {c}]
    /\ joined' = [joined EXCEPT ![c] = @ \ {ch}]

\* A message of a known type is answered on the client's own queue.
handleMessage(c) ==
    /\ reader[c] = "read" /\ c \notin broken
    /\ \/ \E ch \in HubChannels : Subscribe(c, ch) \/ Unsubscribe(c, ch)
       \/ UNCHANGED <<members, joined>>                                  \* ping
    /\ reader' = Move(reader, c, "reply")
    /\ UNCHANGED <<hub, registered, queue, closed, broken, serve, writer>>
Reply(c) ==
    /\ reader[c] = "reply" /\ ~Full(c)
    /\ queue' = [queue EXCEPT ![c] = @ + 1]
    /\ reader' = Move(reader, c, "read")
    /\ UNCHANGED <<hub, registered, members, joined, closed, broken, serve, writer>>
\* The connection fails, or was closed by the writer.
readPump(c) ==
    /\ reader[c] = "read" /\ reader' = Move(reader, c, "leave")
    /\ UNCHANGED <<hub, registered, members, joined, queue, closed, broken, serve, writer>>

\* A failed write, of a message or a ping, ends the writer.
writePump(c) ==
    /\ writer[c] = "write"
    /\ \/ /\ queue[c] > 0 /\ queue' = [queue EXCEPT ![c] = @ - 1]
          /\ \/ c \notin broken /\ UNCHANGED <<writer, broken>>
             \/ writer' = Move(writer, c, "gone") /\ broken' = broken \union {c}
       \/ /\ queue[c] = 0 /\ c \in closed
          /\ writer' = Move(writer, c, "gone") /\ broken' = broken \union {c}
          /\ UNCHANGED queue
       \/ /\ writer' = Move(writer, c, "gone") /\ broken' = broken \union {c}
          /\ UNCHANGED queue
    /\ UNCHANGED <<hub, registered, members, joined, closed, serve, reader>>

-------------------------------------------------------------------------------
\* Run receives a client from unregister and the reader goes on to close the
\* connection.
Unregister(c) ==
    /\ Selecting /\ reader[c] = "leave"
    /\ registered' = registered \ {c} /\ closed' = closed \union {c}
    /\ members' = [ch \in HubChannels |->
                      IF ch \in joined[c] THEN members[ch] \ {c} ELSE members[ch]]
    /\ reader' = Move(reader, c, "gone") /\ broken' = broken \union {c}
    /\ UNCHANGED <<hub, joined, queue, serve, writer>>

\* Run gives the message to the members in any order.  A member whose queue
\* is full makes it send that member to unregister, the channel that only Run
\* itself receives from: it never goes on.
OnFull_Blocks(c) == hub' = [pc |-> "send", client |-> c]
OnFull(c) == hub' = [pc |-> "unregister", client |-> c]
broadcastToChannel(ch) ==
    /\ Selecting
    /\ IF \A c \in members[ch] : ~Full(c)
       THEN /\ queue' = [c \in Clients |-> IF c \in members[ch] THEN queue[c] + 1 ELSE queue[c]]
            /\ UNCHANGED hub
       ELSE \E c \in members[ch], before \in SUBSET members[ch] :
               /\ Full(c) /\ \A b \in before : ~Full(b)
               /\ queue' = [b \in Clients |-> IF b \in before THEN queue[b] + 1 ELSE queue[b]]
               /\ OnFull(c)
    /\ UNCHANGED <<registered, members, joined, closed, broken, serve, reader, writer>>
Broadcast == \E ch \in HubChannels : broadcastToChannel(ch)

Run == Broadcast \/ \E c \in Clients : Register(c) \/ Unregister(c)

Next ==
    \/ Run
    \/ \E c \in Clients :
          \/ ServeHTTP(c) \/ Welcome(c)
          \/ handleMessage(c) \/ Reply(c) \/ readPump(c) \/ writePump(c)

\* Go's select picks any ready case, so no waiting client is passed over for
\* ever.
Fairness == \A c \in Clients : WF_hubVars(Register(c)) /\ WF_hubVars(Unregister(c))
Spec == Init /\ [][Next]_hubVars /\ Fairness

-------------------------------------------------------------------------------
\* No channel keeps a client whose queue is closed: a broadcast that met one
\* would panic in the hub's goroutine and end the gateway
\* (websocket.go:92-108, 143-153).
NoMessageToClosed ==
    /\ \A ch \in HubChannels : members[ch] \intersect closed = {}
    /\ \A c \in Clients : reader[c] = "reply" => c \notin closed

\* A client that leaves is unregistered, unless the hub waits for itself
\* because a broadcast met a full queue (websocket.go:149).
Leaving(c) == reader[c] = "leave"
Served(c) == reader[c] = "gone" \/ hub.pc = "unregister"
LeaversAreServed == \A c \in Clients : Leaving(c) ~> Served(c)
===============================================================================
