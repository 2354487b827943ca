--------------------------- MODULE ClientChannels ---------------------------
(***************************************************************************)
(* How answers get from the engines to the clients                         *)
(* (gateway_server/client_handler.rs): the registry of connections and its *)
(* lock, each connection's task, write task and bounded channel, and the   *)
(* one task that hands the engines' events to all connections.  What the   *)
(* events do to accounts is in module Gateway; here an event is the        *)
(* connections that must hear of it.                                       *)
(***************************************************************************)
EXTENDS Integers, Sequences, FiniteSets

CONSTANTS
    Conns,         \* connections; an id is never used again
    Capacity,      \* WRITE_BUF_SIZE
    SocketFrames,  \* frames between a channel and the client: in the write task's buffer,
                   \* in the sockets and on the network
    MaxCommands,   \* bound: commands of all clients
    MaxEvents,     \* bound: events of the engines
    Nil

Responses == "responses"  \* the response task, as a waiter for the lock

ASSUME ClientChannelsAssumption ==
    /\ Capacity \in Nat \ {0} /\ SocketFrames \in Nat \ {0}
    /\ MaxCommands \in Nat /\ MaxEvents \in Nat
    /\ Nil \notin Conns /\ Responses \notin Conns

VARIABLES
    client,          \* the other end: "away", "open" or "gone"
    task,            \* handle_client_connection of each connection
    client_senders,  \* the registry: connections whose channel it holds
    waiting,         \* who waits for the registry's lock, in order
    channel,         \* out_tx to out_rx of each connection
    writer,          \* connections whose write task runs; its end drops out_rx
    socket,          \* frames on their way to each client
    tracked,         \* connections with an order in pending_orders
    events,          \* event channel of the router
    response,        \* where the response task is; it holds the lock when it sends
    current,         \* connections that must hear of the event it handles
    routed, commands, emitted,  \* connections that sent an order; bounds
    owed             \* history: engine events for each client that it has not read

connections == <<client, task, client_senders, channel, writer, socket>>
responding == <<tracked, events, response, current>>
history == <<routed, commands, emitted, owed>>
vars == <<connections, waiting, responding, history>>

Fills == [conn_id : Conns, maker : Conns \cup {Nil}]

Init ==
    /\ client = [c \in Conns |-> "away"]
    /\ task = [c \in Conns |-> "none"]
    /\ client_senders = {} /\ writer = {} /\ tracked = {}
    /\ waiting = <<>>
    /\ channel = [c \in Conns |-> <<>>] /\ socket = channel
    /\ events = <<>>
    /\ response = "receive" /\ current = <<>>
    /\ routed = {} /\ commands = 0 /\ emitted = 0
    /\ owed = [c \in Conns |-> 0]

-----------------------------------------------------------------------------
(* The registry's lock: waiters are served in the order they came. *)

Holding == response = "send"
Granted(who) == ~Holding /\ waiting # <<>> /\ Head(waiting) = who
Enqueue(who) == waiting' = Append(waiting, who)

-----------------------------------------------------------------------------
(* mpsc::Sender::send waits for room and returns; the frame is lost if out_rx is dropped. *)

OneMore(c) == c \in writer => Len(channel[c]) <= Capacity  \* mutant
CanSend(c) == c \in writer => Len(channel[c]) < Capacity
Send(c, frame) ==
    channel' = [channel EXCEPT ![c] = IF c \in writer THEN Append(@, frame) ELSE @]

-----------------------------------------------------------------------------
(* handle_client_connection *)

Connect(c) ==
    /\ client[c] = "away"
    /\ client' = [client EXCEPT ![c] = "open"]
    /\ task' = [task EXCEPT ![c] = "register"]
    /\ Enqueue(c)
    /\ UNCHANGED <<client_senders, channel, writer, socket, responding, history>>

Register(c) ==
    /\ task[c] = "register"
    /\ Granted(c)
    /\ waiting' = Tail(waiting)
    /\ client_senders' = client_senders \cup {c}
    /\ writer' = writer \cup {c}
    /\ task' = [task EXCEPT ![c] = "read"]
    /\ UNCHANGED <<client, channel, socket, responding, history>>

\* A command of client_read_loop: answered by the loop itself (Authenticate, QueryAccount and
\* whatever is refused here), or an order that is tracked and goes to its engine.
ReadCommand(c) ==
    /\ task[c] = "read"
    /\ commands < MaxCommands
    /\ commands' = commands + 1
    /\ \/ /\ task' = [task EXCEPT ![c] = "reply"]
          /\ UNCHANGED <<tracked, routed>>
       \/ /\ tracked' = tracked \cup {c}
          /\ routed' = routed \cup {c}
          /\ UNCHANGED task
    /\ UNCHANGED <<client, client_senders, channel, writer, socket, waiting, events, response,
                   current, emitted, owed>>

Reply(c) ==
    /\ task[c] = "reply"
    /\ CanSend(c)
    /\ Send(c, "reply")
    /\ task' = [task EXCEPT ![c] = "read"]
    /\ UNCHANGED <<client, client_senders, writer, socket, waiting, responding, history>>

\* The client closed its side, or the frame could not be read.
ReadEnds(c) ==
    /\ task[c] = "read"
    /\ task' = [task EXCEPT ![c] = "remove"]
    /\ Enqueue(c)
    /\ UNCHANGED <<client, client_senders, channel, writer, socket, responding, history>>

Remove(c) ==
    /\ task[c] = "remove"
    /\ Granted(c)
    /\ waiting' = Tail(waiting)
    /\ client_senders' = client_senders \ {c}
    /\ task' = [task EXCEPT ![c] = "end"]
    /\ UNCHANGED <<client, channel, writer, socket, responding, history>>

\* write_task.abort, and the end of the connection.
EndConnection(c) ==
    /\ task[c] = "end"
    /\ task' = [task EXCEPT ![c] = "ended"]
    /\ writer' = writer \ {c}
    /\ channel' = [channel EXCEPT ![c] = <<>>]
    /\ socket' = [socket EXCEPT ![c] = <<>>]
    /\ client' = [client EXCEPT ![c] = "gone"]
    /\ UNCHANGED <<client_senders, waiting, responding, history>>

-----------------------------------------------------------------------------
(* The write task and the client *)

WriteFrame(c) ==
    /\ c \in writer /\ channel[c] # <<>>
    /\ client[c] = "open"
    /\ Len(socket[c]) < SocketFrames
    /\ socket' = [socket EXCEPT ![c] = Append(@, Head(channel[c]))]
    /\ channel' = [channel EXCEPT ![c] = Tail(@)]
    /\ UNCHANGED <<client, task, client_senders, writer, waiting, responding, history>>

WriteRetries(c) ==  \* mutant: after an error the task does not return and reads no more
    /\ c \in writer /\ channel[c] # <<>>
    /\ client[c] = "gone"
    /\ UNCHANGED vars
\* feed or flush fails: the task returns, and out_rx is dropped with what it holds.
WriteFails(c) ==
    /\ c \in writer /\ channel[c] # <<>>
    /\ client[c] = "gone"
    /\ writer' = writer \ {c}
    /\ channel' = [channel EXCEPT ![c] = <<>>]
    /\ UNCHANGED <<client, task, client_senders, socket, waiting, responding, history>>

ClientReads(c) ==
    /\ client[c] = "open" /\ socket[c] # <<>>
    /\ socket' = [socket EXCEPT ![c] = Tail(@)]
    /\ owed' = [owed EXCEPT ![c] = IF Head(socket[c]) = "event" THEN @ - 1 ELSE @]
    /\ UNCHANGED <<client, task, client_senders, channel, writer, waiting, responding,
                   routed, commands, emitted>>

ClientLeaves(c) ==
    /\ client[c] = "open"
    /\ client' = [client EXCEPT ![c] = "gone"]
    /\ socket' = [socket EXCEPT ![c] = <<>>]
    /\ UNCHANGED <<task, client_senders, channel, writer, waiting, responding, history>>

-----------------------------------------------------------------------------
(* The engines and handle_engine_responses *)

\* An event for a connection that sent an order; a fill names the maker's order as well.
EngineEmits(ev) ==
    /\ emitted < MaxEvents
    /\ emitted' = emitted + 1
    /\ ev.conn_id \in routed /\ ev.maker \in routed \cup {Nil}
    /\ events' = Append(events, ev)
    /\ UNCHANGED <<connections, waiting, tracked, response, current, routed, commands, owed>>

\* Who hears of a fill: the maker, if its order is still in pending_orders, then the taker.
Recipients(ev) ==
    IF ev.maker # Nil /\ ev.maker \in tracked THEN <<ev.maker, ev.conn_id>> ELSE <<ev.conn_id>>

Heard(c, ev) == Cardinality({i \in 1 .. Len(Recipients(ev)) : Recipients(ev)[i] = c})

\* recv_event and the accounts; a fill takes both orders out of pending_orders.
ReceiveEvent ==
    LET ev == Head(events)
    IN  /\ response = "receive"
        /\ events # <<>>
        /\ events' = Tail(events)
        /\ current' = Recipients(ev)
        /\ tracked' = IF ev.maker = Nil THEN tracked ELSE tracked \ {ev.maker, ev.conn_id}
        /\ owed' = [c \in Conns |-> owed[c] + Heard(c, ev)]
        /\ response' = "lock"
        /\ Enqueue(Responses)
        /\ UNCHANGED <<connections, routed, commands, emitted>>

AcquireRead ==
    /\ response = "lock"
    /\ Granted(Responses)
    /\ waiting' = Tail(waiting)
    /\ response' = "send"
    /\ UNCHANGED <<connections, tracked, events, current, history>>

FirstOnly ==  \* mutant: on to the next event after the first send
    LET c == Head(current)
    IN  /\ response = "send"
        /\ c \in client_senders => CanSend(c)
        /\ IF c \in client_senders THEN Send(c, "event") ELSE UNCHANGED channel
        /\ current' = <<>>
        /\ response' = "receive"
        /\ UNCHANGED <<client, task, client_senders, writer, socket, waiting, tracked,
                       events, history>>
\* One send with the lock held; the lock is released after the last.
SendEvent ==
    LET c == Head(current)
    IN  /\ response = "send"
        /\ c \in client_senders => CanSend(c)
        /\ IF c \in client_senders THEN Send(c, "event") ELSE UNCHANGED channel
        /\ current' = Tail(current)
        /\ response' = IF Len(current) = 1 THEN "receive" ELSE "send"
        /\ UNCHANGED <<client, task, client_senders, writer, socket, waiting, tracked,
                       events, history>>

-----------------------------------------------------------------------------
ConnectionTask(c) == Register(c) \/ Reply(c) \/ Remove(c) \/ EndConnection(c)
WriteTask(c) == WriteFrame(c) \/ WriteFails(c)
ResponseTask == ReceiveEvent \/ AcquireRead \/ SendEvent

Next ==
    \/ \E c \in Conns : Connect(c) \/ ReadCommand(c) \/ ReadEnds(c)
    \/ \E c \in Conns : ConnectionTask(c) \/ WriteTask(c)
    \/ \E c \in Conns : ClientReads(c) \/ ClientLeaves(c)
    \/ \E ev \in Fills : EngineEmits(ev)
    \/ ResponseTask

Spec == Init /\ [][Next]_vars

\* The runtime runs every task that can go on; a read loop finds out that its client is gone.
TasksRun ==
    /\ \A c \in Conns :
          /\ WF_vars(ConnectionTask(c) \/ (client[c] # "open" /\ ReadEnds(c)))
          /\ WF_vars(WriteTask(c))
    /\ WF_vars(ResponseTask)

\* A client with something to read reads it, or goes away; it need not leave.
ClientsRead == \A c \in Conns : WF_vars(socket[c] # <<>> /\ (ClientReads(c) \/ ClientLeaves(c)))

FairSpec == Spec /\ TasksRun /\ ClientsRead

\* Without an assumption about the clients.
TasksSpec == Spec /\ TasksRun

-----------------------------------------------------------------------------
(* Properties *)

TypeOK ==
    /\ client \in [Conns -> {"away", "open", "gone"}]
    /\ task \in [Conns -> {"none", "register", "read", "reply", "remove", "end", "ended"}]
    /\ client_senders \subseteq Conns
    /\ \A c \in Conns : Len(channel[c]) <= Capacity /\ Len(socket[c]) <= SocketFrames
    /\ writer \subseteq Conns /\ tracked \subseteq routed /\ routed \subseteq Conns
    /\ response \in {"receive", "lock", "send"}
    /\ response = "send" => current # <<>>
    /\ commands \in 0 .. MaxCommands /\ emitted \in 0 .. MaxEvents

\* No client holds up the engines' answers: all events are taken and handed on in the end,
\* although the response task waits for a client's channel with the registry locked.
Handled == emitted - Len(events) - IF response = "receive" THEN 0 ELSE 1
AnswersFlow == Handled < emitted ~> Handled = emitted

\* The engine events for a client that stays and reads reach it, whatever the others do.
AnswersDelivered ==
    \A c \in Conns :
        owed[c] > 0 ~> owed[c] = 0 \/ client[c] # "open"

\* A connection whose client has gone is taken out of the registry, for good: cleanup gets the
\* lock although the response task may hold it while it waits for that very client.
LeaversForgotten ==
    \A c \in Conns : client[c] = "gone" ~> [](c \notin client_senders)

\* "Send Fill to BOTH maker and taker clients": while an event is sent, the maker is told of it.
MakersHear ==
    [][events # <<>> /\ events' = Tail(events) /\ Head(events).maker # Nil =>
          \E i \in 1 .. Len(current') : current'[i] = Head(events).maker]_vars
=============================================================================
