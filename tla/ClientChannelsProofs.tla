------------------------ MODULE ClientChannelsProofs ------------------------
(***************************************************************************)
(* The types of ClientChannels for every number of connections, commands   *)
(* and events and every capacity: no channel holds more than its capacity  *)
(* although two tasks send to it, and the response task never holds the    *)
(* registry's lock with nobody left to send to.                            *)
(***************************************************************************)
EXTENDS ClientChannels, SequenceTheorems, TLAPS

Frame == {"reply", "event"}

\* TypeOK, with what the channels, the events and the recipients are.  The response task has
\* somebody to send to from the event it takes to its last send.
ChannelInv ==
    /\ TypeOK
    /\ channel \in [Conns -> Seq(Frame)] /\ socket \in [Conns -> Seq(Frame)]
    /\ events \in Seq(Fills)
    /\ current \in Seq(Conns)
    /\ response = "lock" => current # <<>>

\* Nothing is connected at first.
LEMMA ChannelInit == Init => ChannelInv
<1> SUFFICES ASSUME Init PROVE ChannelInv
  OBVIOUS
<1>1. /\ client = [c \in Conns |-> "away"] /\ task = [c \in Conns |-> "none"]
      /\ client_senders = {} /\ writer = {} /\ tracked = {}
      /\ channel = [c \in Conns |-> <<>>] /\ socket = channel
      /\ events = <<>> /\ response = "receive" /\ current = <<>>
      /\ routed = {} /\ commands = 0 /\ emitted = 0
  BY DEF Init
<1>2. channel \in [Conns -> Seq(Frame)] /\ socket \in [Conns -> Seq(Frame)]
  BY <1>1
<1>3. \A c \in Conns : Len(channel[c]) <= Capacity /\ Len(socket[c]) <= SocketFrames
  BY <1>1, ClientChannelsAssumption
<1>4. TypeOK
  BY <1>1, <1>3, ClientChannelsAssumption DEF TypeOK
<1> QED BY <1>1, <1>2, <1>4 DEF ChannelInv

\* One connection's frames change, within the bound.
LEMMA FramesChange ==
    ASSUME NEW old \in [Conns -> Seq(Frame)], NEW new, NEW bound \in Nat, NEW c \in Conns,
           NEW frames \in Seq(Frame), new = [old EXCEPT ![c] = frames], Len(frames) <= bound,
           \A d \in Conns : Len(old[d]) <= bound
    PROVE  new \in [Conns -> Seq(Frame)] /\ \A d \in Conns : Len(new[d]) <= bound
OBVIOUS

\* A send finds room in the channel, if somebody still takes from it.
LEMMA SendFits ==
    ASSUME ChannelInv, NEW c \in Conns, NEW f \in Frame, CanSend(c), Send(c, f)
    PROVE  channel' \in [Conns -> Seq(Frame)] /\ \A d \in Conns : Len(channel'[d]) <= Capacity
<1>1. /\ channel \in [Conns -> Seq(Frame)] /\ Capacity \in Nat
      /\ \A d \in Conns : Len(channel[d]) <= Capacity
  BY ClientChannelsAssumption DEF ChannelInv, TypeOK
<1>2. CASE c \in writer
  <2>1. channel' = [channel EXCEPT ![c] = Append(channel[c], f)]
    BY <1>2 DEF Send
  <2>2. Len(channel[c]) \in Nat /\ Len(channel[c]) < Capacity
    BY <1>1, <1>2 DEF CanSend
  <2>3. Append(channel[c], f) \in Seq(Frame) /\ Len(Append(channel[c], f)) <= Capacity
    BY <2>2, <1>1
  <2> HIDE DEF Frame
  <2> QED BY <2>1, <2>3, <1>1, FramesChange
<1>3. CASE c \notin writer
  <2>1. channel' = channel
    BY <1>1, <1>3 DEF Send
  <2> QED BY <2>1, <1>1
<1> QED BY <1>2, <1>3

\* A step that changes no channel, no event and no recipient.
LEMMA QuietStep ==
    ASSUME ChannelInv, UNCHANGED <<channel, socket, writer, events, response, current>>,
           client' \in [Conns -> {"away", "open", "gone"}],
           task' \in [Conns -> {"none", "register", "read", "reply", "remove", "end", "ended"}],
           client_senders' \subseteq Conns, tracked' \subseteq routed', routed' \subseteq Conns,
           commands' \in 0 .. MaxCommands, emitted' = emitted
    PROVE  ChannelInv'
BY DEF ChannelInv, TypeOK

\* The steps of a connection's task.
LEMMA ConnectionStep ==
    ASSUME ChannelInv, NEW c \in Conns,
           \/ Connect(c) \/ ReadCommand(c) \/ ReadEnds(c) \/ Register(c) \/ Reply(c) \/ Remove(c)
           \/ EndConnection(c)
    PROVE  ChannelInv'
<1> USE DEF responding, history, connections
<1> DEFINE Tasks == {"none", "register", "read", "reply", "remove", "end", "ended"}
<1>0. /\ client \in [Conns -> {"away", "open", "gone"}] /\ task \in [Conns -> Tasks]
      /\ client_senders \subseteq Conns /\ tracked \subseteq routed /\ routed \subseteq Conns
      /\ writer \subseteq Conns /\ commands \in 0 .. MaxCommands /\ emitted \in 0 .. MaxEvents
      /\ MaxCommands \in Nat /\ Capacity \in Nat /\ SocketFrames \in Nat
      /\ channel \in [Conns -> Seq(Frame)] /\ socket \in [Conns -> Seq(Frame)]
      /\ \A d \in Conns : Len(channel[d]) <= Capacity
      /\ \A d \in Conns : Len(socket[d]) <= SocketFrames
  BY ClientChannelsAssumption DEF ChannelInv, TypeOK
<1>1. CASE Connect(c) \/ ReadEnds(c)
  BY <1>0, <1>1, QuietStep DEF Connect, ReadEnds
<1>2. CASE ReadCommand(c)
  <2>1. /\ UNCHANGED <<client, client_senders, channel, writer, socket, events, response, current, emitted>>
        /\ commands' \in 0 .. MaxCommands
    BY <1>0, <1>2 DEF ReadCommand
  <2>2. task' \in [Conns -> Tasks] /\ tracked' \subseteq routed' /\ routed' \subseteq Conns
    BY <1>0, <1>2 DEF ReadCommand
  <2> QED BY <2>1, <2>2, <1>0, QuietStep
<1>3. CASE Register(c)
  BY <1>0, <1>3 DEF Register, ChannelInv, TypeOK
<1>4. CASE Remove(c)
  BY <1>0, <1>4, QuietStep DEF Remove
<1>5. CASE Reply(c)
  <2>1. channel' \in [Conns -> Seq(Frame)] /\ \A d \in Conns : Len(channel'[d]) <= Capacity
    BY <1>5, SendFits DEF Reply, Frame
  <2>2. task' \in [Conns -> Tasks]
    BY <1>0, <1>5 DEF Reply
  <2>3. UNCHANGED <<client, client_senders, writer, socket, tracked, events, response, current, routed,
                    commands, emitted>>
    BY <1>5 DEF Reply
  <2> QED BY <2>1, <2>2, <2>3 DEF ChannelInv, TypeOK
<1>6. CASE EndConnection(c)
  <2>1. channel' = [channel EXCEPT ![c] = <<>>] /\ socket' = [socket EXCEPT ![c] = <<>>]
    BY <1>6 DEF EndConnection
  <2>2. <<>> \in Seq(Frame) /\ Len(<<>>) = 0
    OBVIOUS
  <2>3. channel' \in [Conns -> Seq(Frame)] /\ \A d \in Conns : Len(channel'[d]) <= Capacity
    BY <2>1, <2>2, <1>0
  <2>4. socket' \in [Conns -> Seq(Frame)] /\ \A d \in Conns : Len(socket'[d]) <= SocketFrames
    BY <2>1, <2>2, <1>0
  <2>5. /\ task' \in [Conns -> Tasks] /\ client' \in [Conns -> {"away", "open", "gone"}]
        /\ writer' \subseteq Conns
    BY <1>0, <1>6 DEF EndConnection
  <2>6. UNCHANGED <<client_senders, tracked, events, response, current, routed, commands, emitted>>
    BY <1>6 DEF EndConnection
  <2> QED BY <2>3, <2>4, <2>5, <2>6 DEF ChannelInv, TypeOK
<1> QED BY <1>1, <1>2, <1>3, <1>4, <1>5, <1>6

\* The steps of a write task and of a client.
LEMMA WriteStep ==
    ASSUME ChannelInv, NEW c \in Conns,
           WriteFrame(c) \/ WriteFails(c) \/ ClientReads(c) \/ ClientLeaves(c)
    PROVE  ChannelInv'
<1> USE DEF responding, history, connections
<1>0. /\ client \in [Conns -> {"away", "open", "gone"}] /\ writer \subseteq Conns
      /\ Capacity \in Nat /\ SocketFrames \in Nat
      /\ channel \in [Conns -> Seq(Frame)] /\ socket \in [Conns -> Seq(Frame)]
      /\ \A d \in Conns : Len(channel[d]) <= Capacity
      /\ \A d \in Conns : Len(socket[d]) <= SocketFrames
  BY ClientChannelsAssumption DEF ChannelInv, TypeOK
<1>1. UNCHANGED <<task, client_senders, tracked, events, response, current, routed, commands, emitted>>
  BY DEF WriteFrame, WriteFails, ClientReads, ClientLeaves
<1>2. client' \in [Conns -> {"away", "open", "gone"}] /\ writer' \subseteq Conns
  BY <1>0 DEF WriteFrame, WriteFails, ClientReads, ClientLeaves
<1>3. \A s \in Seq(Frame) : s # <<>> => /\ Tail(s) \in Seq(Frame) /\ Len(Tail(s)) <= Len(s)
                                       /\ Head(s) \in Frame /\ Len(s) \in Nat /\ Len(Tail(s)) \in Nat
  OBVIOUS
<1>4. \A s \in Seq(Frame) : \A f \in Frame : /\ Append(s, f) \in Seq(Frame) /\ Len(s) \in Nat
                                             /\ Len(Append(s, f)) = Len(s) + 1
  OBVIOUS
<1>5. <<>> \in Seq(Frame) /\ Len(<<>>) = 0
  OBVIOUS
<1> HIDE DEF Frame
<1>6. channel' \in [Conns -> Seq(Frame)] /\ \A d \in Conns : Len(channel'[d]) <= Capacity
  <2>1. \/ channel' = channel
        \/ channel' = [channel EXCEPT ![c] = <<>>]
        \/ channel' = [channel EXCEPT ![c] = Tail(channel[c])] /\ channel[c] # <<>>
    BY <1>0 DEF WriteFrame, WriteFails, ClientReads, ClientLeaves
  <2>2. channel[c] \in Seq(Frame) /\ Len(channel[c]) <= Capacity
    BY <1>0
  <2>3. channel[c] # <<>> => Tail(channel[c]) \in Seq(Frame) /\ Len(Tail(channel[c])) <= Capacity
    BY <2>2, <1>0, <1>3
  <2>4. CASE channel' = channel
    BY <2>4, <1>0
  <2>5. CASE channel' = [channel EXCEPT ![c] = <<>>]
    BY <2>5, <1>0, <1>5
  <2>6. CASE channel' = [channel EXCEPT ![c] = Tail(channel[c])] /\ channel[c] # <<>>
    BY <2>6, <2>3, <1>0
  <2> QED BY <2>1, <2>4, <2>5, <2>6
<1>7. socket' \in [Conns -> Seq(Frame)] /\ \A d \in Conns : Len(socket'[d]) <= SocketFrames
  <2>1. \/ socket' = socket
        \/ socket' = [socket EXCEPT ![c] = <<>>]
        \/ socket' = [socket EXCEPT ![c] = Tail(socket[c])] /\ socket[c] # <<>>
        \/ /\ socket' = [socket EXCEPT ![c] = Append(socket[c], Head(channel[c]))]
           /\ channel[c] # <<>> /\ Len(socket[c]) < SocketFrames
    BY <1>0 DEF WriteFrame, WriteFails, ClientReads, ClientLeaves
  <2>2. /\ socket[c] \in Seq(Frame) /\ Len(socket[c]) <= SocketFrames /\ channel[c] \in Seq(Frame)
    BY <1>0
  <2>3. socket[c] # <<>> => Tail(socket[c]) \in Seq(Frame) /\ Len(Tail(socket[c])) <= SocketFrames
    BY <2>2, <1>0, <1>3
  <2>4. ASSUME channel[c] # <<>>, Len(socket[c]) < SocketFrames
        PROVE  /\ Append(socket[c], Head(channel[c])) \in Seq(Frame)
               /\ Len(Append(socket[c], Head(channel[c]))) <= SocketFrames
    <3>1. Head(channel[c]) \in Frame
      BY <2>2, <2>4, <1>3
    <3> QED BY <3>1, <2>2, <2>4, <1>0, <1>4
  <2>5. CASE socket' = socket
    BY <2>5, <1>0
  <2>6. CASE socket' = [socket EXCEPT ![c] = <<>>]
    BY <2>6, <1>0, <1>5
  <2>7. CASE socket' = [socket EXCEPT ![c] = Tail(socket[c])] /\ socket[c] # <<>>
    BY <2>7, <2>3, <1>0
  <2>8. CASE /\ socket' = [socket EXCEPT ![c] = Append(socket[c], Head(channel[c]))]
             /\ channel[c] # <<>> /\ Len(socket[c]) < SocketFrames
    BY <2>8, <2>4, <1>0
  <2> QED BY <2>1, <2>5, <2>6, <2>7, <2>8
<1> QED BY <1>1, <1>2, <1>6, <1>7 DEF ChannelInv, TypeOK

\* The steps of the engines and of the response task.
LEMMA ResponseStep ==
    ASSUME ChannelInv, (\E ev \in Fills : EngineEmits(ev)) \/ ReceiveEvent \/ AcquireRead \/ SendEvent
    PROVE  ChannelInv'
<1> USE DEF responding, history, connections
<1>0. /\ events \in Seq(Fills) /\ current \in Seq(Conns) /\ tracked \subseteq routed /\ routed \subseteq Conns
      /\ emitted \in 0 .. MaxEvents /\ MaxEvents \in Nat
  BY ClientChannelsAssumption DEF ChannelInv, TypeOK
<1>1. ASSUME NEW ev \in Fills, EngineEmits(ev) PROVE ChannelInv'
  <2>1. events' \in Seq(Fills) /\ emitted' \in 0 .. MaxEvents
    BY <1>0, <1>1 DEF EngineEmits
  <2>2. UNCHANGED <<client, task, client_senders, channel, writer, socket, tracked, response, current, routed,
                    commands>>
    BY <1>1 DEF EngineEmits
  <2> QED BY <2>1, <2>2 DEF ChannelInv, TypeOK
<1>2. CASE ReceiveEvent
  <2> DEFINE ev == Head(events)
  <2>1. ev \in Fills /\ events' \in Seq(Fills)
    BY <1>0, <1>2 DEF ReceiveEvent
  <2>2. ev.conn_id \in Conns /\ (ev.maker # Nil => ev.maker \in Conns)
    BY <2>1 DEF Fills
  <2>3. current' = Recipients(ev) /\ tracked' \subseteq tracked /\ response' = "lock"
    BY <1>2 DEF ReceiveEvent
  <2> HIDE DEF ev
  <2>4. Recipients(ev) \in Seq(Conns) /\ Recipients(ev) # <<>>
    BY <2>2 DEF Recipients
  <2>5. UNCHANGED <<client, task, client_senders, channel, writer, socket, routed, commands, emitted>>
    BY <1>2 DEF ReceiveEvent
  <2> QED BY <2>1, <2>3, <2>4, <2>5, <1>0 DEF ChannelInv, TypeOK
<1>3. CASE AcquireRead
  <2>1. response = "lock" /\ response' = "send"
    BY <1>3 DEF AcquireRead
  <2>2. UNCHANGED <<client, task, client_senders, channel, writer, socket, tracked, events, current, routed,
                    commands, emitted>>
    BY <1>3 DEF AcquireRead
  <2> QED BY <2>1, <2>2 DEF ChannelInv, TypeOK
<1>4. CASE SendEvent
  <2> DEFINE c == Head(current)
  <2>1. response = "send" /\ current # <<>>
    BY <1>4 DEF SendEvent, ChannelInv, TypeOK
  <2>2. /\ c \in Conns /\ Tail(current) \in Seq(Conns) /\ Len(current) \in Nat
        /\ Len(current) # 1 => Tail(current) # <<>>
    <3>1. Len(current) \in Nat /\ Len(current) # 0 /\ c \in Conns /\ Tail(current) \in Seq(Conns)
      BY <2>1, <1>0
    <3>2. Len(Tail(current)) = Len(current) - 1
      BY <2>1, <1>0
    <3> QED BY <3>1, <3>2
  <2>3. /\ current' = Tail(current) /\ response' = IF Len(current) = 1 THEN "receive" ELSE "send"
        /\ (CanSend(c) /\ Send(c, "event")) \/ channel' = channel
    BY <1>4 DEF SendEvent
  <2> HIDE DEF c
  <2>4. channel' \in [Conns -> Seq(Frame)] /\ \A d \in Conns : Len(channel'[d]) <= Capacity
    <3>1. CASE channel' = channel
      BY <3>1 DEF ChannelInv, TypeOK
    <3>2. CASE CanSend(c) /\ Send(c, "event")
      BY <3>2, <2>2, SendFits DEF Frame
    <3> QED BY <2>3, <3>1, <3>2
  <2>5. UNCHANGED <<client, task, client_senders, writer, socket, tracked, events, routed, commands, emitted>>
    BY <1>4 DEF SendEvent
  <2> QED BY <2>2, <2>3, <2>4, <2>5 DEF ChannelInv, TypeOK
<1> QED BY <1>1, <1>2, <1>3, <1>4

\* Every step keeps the invariant.
LEMMA ChannelStep == ChannelInv /\ [Next]_vars => ChannelInv'
<1> SUFFICES ASSUME ChannelInv, [Next]_vars PROVE ChannelInv'
  OBVIOUS
<1>1. CASE UNCHANGED vars
  BY <1>1 DEF vars, connections, responding, history, ChannelInv, TypeOK
<1> QED BY <1>1, ConnectionStep, WriteStep, ResponseStep DEF Next, ConnectionTask, WriteTask, ResponseTask

\* No channel ever holds more than WRITE_BUF_SIZE frames although its connection's task and the
\* response task both send to it, a registry lock is held only with a send still to make, and
\* every piece of the state has its type, for any number of connections, commands and events.
THEOREM ChannelTypes == Spec => []TypeOK
<1>1. ChannelInv => TypeOK
  BY DEF ChannelInv
<1> QED BY <1>1, ChannelInit, ChannelStep, PTL DEF Spec
=============================================================================
