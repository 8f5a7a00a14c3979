--------------------------- MODULE WebSocketServer ---------------------------
(***************************************************************************)
(* The WebSocket server of internal/ws, as far as one topic (one event     *)
(* stream) and the replies are concerned.  A connection has two            *)
(* goroutines: the reader (listen) and the sender, which selects between   *)
(* the topic's unbuffered senderChannel, the connection's own broadcast    *)
(* channel, the closing channel and the news of a topic it joined.  The    *)
(* event stream waits for acks on receiverChannel, a buffered channel all  *)
(* connections of the topic share.  A hand-over on an unbuffered channel   *)
(* is one step of both sides: EventStream.tla composes SenderTakes and     *)
(* FanTakes with the steps of the batch loop.                              *)
(*                                                                         *)
(* The topic always exists here: the first getTopic of either side creates *)
(* it and returns only once the broadcaster knows it.                      *)
(***************************************************************************)
EXTENDS Naturals, Sequences, FiniteSets

CONSTANTS
    Conns,          \* connection slots; a slot is used again once its goroutines ended
    ReceiverCap,    \* capacity of receiverChannel (10 in the code)
    MaxConnects     \* bound: connections opened

ASSUME WsAssumption ==
    /\ IsFiniteSet(Conns)
    /\ ReceiverCap \in Nat \ {0} /\ MaxConnects \in Nat

VARIABLES
    conn,           \* [Conns -> the state of a webSocketConnection and its client]
    receiver,       \* receiverChannel: batch numbers acked, 0 for an error
    fan,            \* what processBroadcasts / processReplies is handing out, and to whom
    received,       \* history: the events written to a client that was there
    bounds          \* how many connects, replies and troubles are still to come

wsVars == <<conn, receiver, fan, received>>

Err == 0
NoMsg == [n |-> 0, evs |-> {}]
Fans == {"topic", "replies"}
IdleFan == [to |-> {}, msg |-> NoMsg]

NewConn ==
    [alive |-> TRUE, closed |-> FALSE, reader |-> "read", sender |-> "select",
     joined |-> FALSE, watch |-> FALSE, maps |-> {}, msg |-> NoMsg, inbox |-> {}]

GoneConn ==
    [NewConn EXCEPT !.alive = FALSE, !.closed = TRUE, !.reader = "done", !.sender = "done"]

\* trouble bounds the disconnects and errors and, in EventStream, everything else
\* that disturbs the stream.
WsInit(trouble) ==
    /\ conn = [c \in Conns |-> GoneConn]
    /\ receiver = << >>
    /\ fan = [f \in Fans |-> IdleFan]
    /\ received = {}
    /\ bounds = [connects |-> MaxConnects, replies |-> 1, trouble |-> trouble]

\* One more thing that disturbs the stream.
Trouble ==
    /\ bounds.trouble > 0
    /\ bounds' = [bounds EXCEPT !.trouble = @ - 1]

-----------------------------------------------------------------------------
(* Connections.                                                            *)

\* Handler: a client connects; both goroutines start.
Connect(c) ==
    /\ conn[c].reader = "done" /\ conn[c].sender = "done"
    /\ bounds.connects > 0
    /\ conn' = [conn EXCEPT ![c] = NewConn]
    /\ bounds' = [bounds EXCEPT !.connects = @ - 1]
    /\ UNCHANGED <<receiver, fan, received>>

\* The client goes away, or the network does: the server only finds out when it
\* reads or writes.
Disconnect(c) ==
    /\ conn[c].alive
    /\ conn' = [conn EXCEPT ![c].alive = FALSE]
    /\ Trouble
    /\ UNCHANGED <<receiver, fan, received>>

\* Mutant of CycleTopic: a closing connection wakes nobody.
CycleNobody(joined) == UNCHANGED receiver

\* cycleTopic: wake whoever waits for an ack; dropped when the channel is full.
CycleTopic(joined) ==
    receiver' = IF joined /\ Len(receiver) < ReceiverCap THEN Append(receiver, Err) ELSE receiver

\* close, run (deferred) by each of the two goroutines g when it ends.
Close(c, g) ==
    /\ conn' = [conn EXCEPT ![c] = [@ EXCEPT ![g] = "done", !.closed = TRUE, !.alive = FALSE,
                                             !.maps = {}, !.inbox = {}, !.msg = NoMsg]]
    /\ CycleTopic(conn[c].joined)
    /\ UNCHANGED <<fan, received, bounds>>

\* listen: ReadJSON fails once the connection is broken or closed.
ReadFails(c) ==
    /\ conn[c].reader = "read"
    /\ ~conn[c].alive \/ conn[c].closed
    /\ Close(c, "reader")

Reads(c) == conn[c].reader = "read" /\ conn[c].alive /\ ~conn[c].closed

\* listen, "listen": listenTopic registers the topic and then has to tell the sender.
ListenTopic(c) ==
    /\ Reads(c) /\ ~conn[c].joined
    /\ conn' = [conn EXCEPT ![c].joined = TRUE, ![c].maps = @ \cup {"topic"}, ![c].reader = "join"]
    /\ UNCHANGED <<receiver, fan, received, bounds>>

\* listenTopic's select: the sender takes the news and rebuilds its cases ...
TopicTold(c) ==
    /\ conn[c].reader = "join" /\ conn[c].sender = "select"
    /\ conn' = [conn EXCEPT ![c].reader = "read", ![c].watch = TRUE]
    /\ UNCHANGED <<receiver, fan, received, bounds>>

\* ... or the connection is closing.
TopicNotTold(c) ==
    /\ conn[c].reader = "join" /\ conn[c].closed
    /\ conn' = [conn EXCEPT ![c].reader = "read"]
    /\ UNCHANGED <<receiver, fan, received, bounds>>

\* listen, "listenreplies".
ListenReplies(c) ==
    /\ Reads(c) /\ "replies" \notin conn[c].maps
    /\ conn' = [conn EXCEPT ![c].maps = @ \cup {"replies"}]
    /\ UNCHANGED <<receiver, fan, received, bounds>>

\* dispatchAckOrError: never blocks; a full channel ends the reader, and with it
\* the connection.
DispatchAckOrError(c, n, answered) ==
    IF Len(receiver) < ReceiverCap
    THEN /\ receiver' = Append(receiver, n)
         /\ conn' = [conn EXCEPT ![c].inbox = @ \ answered]
    ELSE /\ UNCHANGED receiver   \* close finds the channel full as well
         /\ conn' = [conn EXCEPT ![c] = [@ EXCEPT !.reader = "done", !.closed = TRUE, !.alive = FALSE,
                                                  !.maps = {}, !.inbox = {}]]

\* listen, "ack": a client acknowledges a batch it received on this connection.
Ack(c) ==
    /\ Reads(c)
    /\ \E n \in conn[c].inbox: DispatchAckOrError(c, n, {n})
    /\ UNCHANGED <<fan, received, bounds>>

\* listen, "error": a client rejects what it was sent.
ClientError(c) ==
    /\ Reads(c) /\ conn[c].inbox # {}
    /\ DispatchAckOrError(c, Err, conn[c].inbox)
    /\ Trouble
    /\ UNCHANGED <<fan, received>>

-----------------------------------------------------------------------------
(* The sender of a connection.                                             *)

\* The select takes a message: a hand-over, so what the other side does is
\* conjoined by the user of this operator.  The choice of select between ready
\* cases is free: a message may win against closing.
Taken(c, msg) == [conn EXCEPT ![c].sender = "write", ![c].msg = msg]

SenderReady(c) == conn[c].sender = "select" /\ conn[c].watch

\* WriteJSON: its error is ignored.
SenderWrites(c) ==
    LET msg == conn[c].msg
        there == conn[c].alive /\ ~conn[c].closed
    IN  /\ conn[c].sender = "write"
        /\ conn' = [conn EXCEPT ![c].sender = "select", ![c].msg = NoMsg,
                                ![c].inbox = IF there /\ msg.n # 0 THEN @ \cup {msg.n} ELSE @]
        /\ received' = IF there THEN received \cup msg.evs ELSE received
        /\ UNCHANGED <<receiver, fan, bounds>>

\* The select sees closing.
SenderCloses(c) ==
    /\ conn[c].sender = "select" /\ conn[c].closed
    /\ Close(c, "sender")

-----------------------------------------------------------------------------
(* processBroadcasts and processReplies: one message at a time, to the     *)
(* connections registered when it was taken, one after the other.          *)

Registered(f) == {c \in Conns: f \in conn[c].maps}

\* The message is taken from the broadcast or reply channel.
FanTakes(f, msg) ==
    /\ fan[f].to = {}
    /\ fan' = [fan EXCEPT ![f] = [to |-> Registered(f), msg |-> msg]]

\* broadcastToConnections: hand the message over, or find the connection closing.
FanOut(f, c) ==
    /\ c \in fan[f].to
    /\ \/ /\ conn[c].sender = "select"
          /\ conn' = Taken(c, fan[f].msg)
       \/ conn[c].closed /\ UNCHANGED conn
    /\ fan' = IF fan[f].to = {c} THEN [fan EXCEPT ![f] = IdleFan]
              ELSE [fan EXCEPT ![f].to = @ \ {c}]
    /\ UNCHANGED <<receiver, received, bounds>>

\* SendReply (the transaction event handler is the caller).
SendReply ==
    /\ bounds.replies > 0 /\ Registered("replies") # {}
    /\ FanTakes("replies", NoMsg)
    /\ bounds' = [bounds EXCEPT !.replies = @ - 1]
    /\ UNCHANGED <<conn, receiver, received>>

-----------------------------------------------------------------------------
ConnStep(c) ==
    \/ ReadFails(c) \/ TopicTold(c) \/ TopicNotTold(c)
    \/ SenderWrites(c) \/ SenderCloses(c) \/ \E f \in Fans: FanOut(f, c)

ClientStep(c) ==
    \/ Connect(c) \/ Disconnect(c) \/ ListenTopic(c) \/ Ack(c) \/ ClientError(c)

WsTypeOK ==
    /\ conn \in [Conns ->
         [alive: BOOLEAN, closed: BOOLEAN, reader: {"read", "join", "done"},
          sender: {"select", "write", "done"}, joined: BOOLEAN, watch: BOOLEAN,
          maps: SUBSET Fans, msg: [n: Nat, evs: SUBSET (UNION {conn[c].msg.evs: c \in Conns})],
          inbox: SUBSET Nat]]
    /\ receiver \in Seq(Nat) /\ Len(receiver) <= ReceiverCap
    /\ DOMAIN fan = Fans
=============================================================================
