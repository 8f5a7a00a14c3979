-------------------------- MODULE EventStreamProofs --------------------------
(***************************************************************************)
(* Theorems about EventStream, for all configurations, listeners, chains,  *)
(* connections and requests, any number of failures and restarts.          *)
(***************************************************************************)
EXTENDS EventStream, SequenceTheorems, TLAPS

(***************************************************************************)
(* Types                                                                   *)
(***************************************************************************)

MsgType == [n: Nat, evs: SUBSET Events]
ConnType ==
    [alive: BOOLEAN, closed: BOOLEAN, reader: {"read", "join", "done"}, sender: {"select", "write", "done"},
     joined: BOOLEAN, watch: BOOLEAN, maps: SUBSET Fans, msg: MsgType, inbox: SUBSET Nat]
AdminOps == {"none", "start", "stop", "update", "reset", "delete", "add", "remove"}
AdminSteps == {"idle", "start", "stop", "notify", "wait", "stopped", "reset", "delete",
               "add", "addStart", "remove", "removeStop"}
AdminType == [op: AdminOps, step: AdminSteps, l: Listeners \cup {None[1]}, again: BOOLEAN]
ListenerType == [st: {"new", "in", "removed"}, cp: 0..MaxPos, src: {"event", "hwm"}, started: BOOLEAN]
Positions == [Listeners -> 0..MaxPos]
BatchType ==
    [pc: {"none", "done", "poll", "act", "ack", "backoff", "gen", "hwm"}, events: Seq(Events),
     cps: Positions, cp: Positions, stale: SUBSET Listeners,
     hwm: {<< >>} \cup (Listeners \X (0..MaxPos) \X (0..MaxPos))]

ServerTypes ==
    /\ conn \in [Conns -> ConnType] /\ receiver \in Seq(Nat) /\ Len(receiver) <= ReceiverCap
    /\ fan \in [Fans -> [to: SUBSET Conns, msg: MsgType]] /\ received \subseteq Events
    /\ bounds \in [connects: Nat, replies: Nat, trouble: Nat]
StreamTypes ==
    /\ setup \in Setups /\ status \in {"stopped", "started", "stopping", "deleted"} /\ current \in BOOLEAN
    /\ admin \in [Admins -> AdminType]
    /\ \A a \in Admins: admin[a].step # "idle" => admin[a].l \in Listeners
ListenerTypes == lst \in [Listeners -> ListenerType] /\ stored \in Positions
Heads == {e \in Events: StartsAtHead(e[1])}
ConnectorTypes ==
    /\ known \subseteq Listeners /\ scan \in Positions /\ last \in Positions /\ gone \subseteq Events
    /\ passed \subseteq Heads
PipeTypes ==
    /\ updates \in Seq([ev: Events, removed: BOOLEAN]) /\ Len(updates) <= BatchSize
    /\ loop \in {"run", "done", "none"} /\ pending \subseteq Events /\ pushing \in Events \cup {None}
    /\ batchChannel \in Seq(Events) /\ Len(batchChannel) <= BatchSize
BatchTypes ==
    /\ bl \in BatchType /\ batchNumber \in Nat /\ dropped \subseteq Events /\ skipped \subseteq Events
    /\ Len(bl.events) <= BatchSize /\ (bl.pc = "poll" => Len(bl.events) < BatchSize)

TypeInv == ServerTypes /\ StreamTypes /\ ListenerTypes /\ ConnectorTypes /\ PipeTypes /\ BatchTypes

\* A request goes through the steps of its operation, and listener requests are
\* served one at a time; what is added is new until it is in the map.
AdminOK ==
    /\ \A a \in Admins: LET r == admin[a] IN
         /\ r.step = "idle" <=> r.op = "none"
         /\ r.step \in {"stop", "notify", "wait", "stopped"} => r.op \in {"stop", "update", "reset", "delete"}
         /\ r.op = "add" <=> r.step \in {"add", "addStart"}
         /\ r.step \in {"remove", "removeStop"} => r.op = "remove"
         /\ r.step = "reset" => r.op = "reset"
         /\ r.step = "add" => lst[r.l].st = "new"
         /\ r.step = "addStart" => lst[r.l].st # "new"
    /\ \A a, b \in Admins: admin[a].op \in ListenerOps /\ admin[b].op \in ListenerOps => a = b

\* The constants: an event is a listener and a position.
LEMMA EventParts ==
    /\ \A e \in Events: e[1] \in Listeners /\ e[2] \in 1..MaxPos /\ e = <<e[1], e[2]>>
    /\ \A l \in Listeners, p \in 1..MaxPos: <<l, p>> \in Events
    /\ None \notin Events /\ RealEvents \subseteq Events
BY MaxPosAssumption DEF Events, None, RealEvents

LEMMA SetupParts ==
    ASSUME setup \in Setups
    PROVE  /\ setup.batch \in Nat \ {0} /\ setup.trouble \in Nat
           /\ setup.tracks \in BOOLEAN /\ setup.confirms \in BOOLEAN
           /\ setup.mode \in {"webhook", "load_balance", "broadcast"} /\ setup.onError \in {"block", "skip"}
           /\ setup.events \subseteq Listeners /\ setup.blocks \subseteq Listeners /\ setup.later \subseteq Listeners
BY SetupsAssumption

LEMMA SeqDomain ==
    ASSUME NEW S, NEW q \in Seq(S)
    PROVE  Len(q) \in Nat /\ DOMAIN q = 1..Len(q) /\ \A i \in 1..Len(q): q[i] \in S
BY ElementOfSeq, LenProperties

LEMMA RangeIn == ASSUME NEW S, NEW q \in Seq(S) PROVE \A i \in 1..Len(q): q[i] \in Range(q)
BY DEF Range

LEMMA RangeOut == ASSUME NEW S, NEW q \in Seq(S) PROVE \A x \in Range(q): x \in S /\ \E i \in 1..Len(q): x = q[i]
BY DEF Range

LEMMA AppendRange ==
    ASSUME NEW S, NEW q \in Seq(S), NEW e \in S
    PROVE  /\ Append(q, e) \in Seq(S) /\ Len(Append(q, e)) = Len(q) + 1 /\ Len(q) \in Nat
           /\ \A i \in 1..Len(q): Append(q, e)[i] = q[i]
           /\ Append(q, e)[Len(q) + 1] = e
           /\ Range(Append(q, e)) = Range(q) \cup {e}
<1> DEFINE s == Append(q, e)
<1>1. /\ s \in Seq(S) /\ Len(s) = Len(q) + 1 /\ Len(q) \in Nat
      /\ \A i \in 1..Len(q): s[i] = q[i]
      /\ s[Len(q) + 1] = e
  BY AppendProperties, LenProperties
<1> HIDE DEF s
<1>2. /\ \A i \in 1..Len(s): s[i] \in Range(s)
      /\ \A x \in Range(s): \E i \in 1..Len(s): x = s[i]
  BY <1>1, RangeIn, RangeOut
<1>3. /\ \A i \in 1..Len(q): q[i] \in Range(q)
      /\ \A x \in Range(q): \E i \in 1..Len(q): x = q[i]
  BY RangeIn, RangeOut
<1>4. Range(s) \subseteq Range(q) \cup {e}
  BY <1>1, <1>2, <1>3
<1>5. Range(q) \cup {e} \subseteq Range(s)
  BY <1>1, <1>2, <1>3
<1> QED BY <1>1, <1>4, <1>5 DEF s

LEMMA TailRange ==
    ASSUME NEW S, NEW q \in Seq(S), q # << >>
    PROVE  /\ Head(q) \in S /\ Tail(q) \in Seq(S) /\ Len(Tail(q)) = Len(q) - 1 /\ Len(q) \in Nat \ {0}
           /\ Head(q) = q[1] /\ \A i \in 1..Len(Tail(q)): Tail(q)[i] = q[i + 1]
           /\ Range(q) = {Head(q)} \cup Range(Tail(q))
<1> DEFINE s == Tail(q)
<1>1. /\ Head(q) \in S /\ s \in Seq(S) /\ Len(s) = Len(q) - 1 /\ Len(q) \in Nat \ {0}
      /\ Head(q) = q[1] /\ \A i \in 1..Len(s): s[i] = q[i + 1]
  BY HeadTailProperties, EmptySeq, LenProperties
<1> HIDE DEF s
<1>2. /\ \A i \in 1..Len(s): s[i] \in Range(s)
      /\ \A x \in Range(s): \E i \in 1..Len(s): x = s[i]
  BY <1>1, RangeIn, RangeOut
<1>3. /\ \A i \in 1..Len(q): q[i] \in Range(q)
      /\ \A x \in Range(q): \E i \in 1..Len(q): x = q[i]
  BY RangeIn, RangeOut
<1>4. Range(q) \subseteq {Head(q)} \cup Range(s)
  <2>1. \A i \in 1..Len(q): i = 1 \/ (i - 1 \in 1..Len(s) /\ q[i] = s[i - 1])
    BY <1>1
  <2> QED BY <1>1, <1>2, <1>3, <2>1
<1>5. {Head(q)} \cup Range(s) \subseteq Range(q)
  <2>1. \A i \in 1..Len(s): i + 1 \in 1..Len(q) /\ s[i] = q[i + 1]
    BY <1>1
  <2>2. \A i \in 1..Len(s): s[i] \in Range(q)
    BY <1>3, <2>1
  <2>3. Head(q) \in Range(q)
    BY <1>1, <1>3
  <2> QED BY <1>2, <2>2, <2>3
<1> QED BY <1>1, <1>4, <1>5 DEF s

LEMMA EmptyRange == Range(<< >>) = {} /\ \A S: << >> \in Seq(S)
BY DEF Range

(***************************************************************************)
(* Frames                                                                  *)
(***************************************************************************)

AdminNext(a) == Begin(a) \/ AdminStep(a)
PipeNext == Pipeline \/ \E e \in RealEvents: Reorganise(e)
ServerNext == ServerStep \/ ReplyStep

LEMMA NextSplit ==
    ASSUME [Next]_vars
    PROVE  \/ \E a \in Admins: AdminNext(a)
           \/ PipeNext \/ BatchLoop \/ ServerNext \/ Crash \/ UNCHANGED vars
BY DEF Next, AdminNext, PipeNext, ServerNext

LEMMA AdminFrame ==
    ASSUME NEW a \in Admins, AdminNext(a)
    PROVE  /\ UNCHANGED <<wsVars, setup, gone, pending, pushing, batchChannel, batchNumber, dropped, skipped>>
           /\ UNCHANGED bounds \/ Trouble
<1>1. CASE Begin(a)
  BY <1>1 DEF Begin, CountFail, connectorVars, pipeVars, batchVars
<1>2. CASE Start(a)
  BY <1>2 DEF Start, CountFail
<1>3. CASE RequestStop(a) \/ NotifyStopped(a) \/ FinishStop(a) \/ Stopped(a)
  BY <1>3 DEF RequestStop, NotifyStopped, FinishStop, Stopped, CountFail, connectorVars, pipeVars, batchVars
<1>4. CASE ResetCheckpoint(a) \/ DeleteStream(a)
  BY <1>4 DEF ResetCheckpoint, DeleteStream, CountFail, connectorVars, pipeVars, batchVars
<1>5. CASE AddListener(a) \/ StartListener(a) \/ RemoveListener(a) \/ StopListener(a)
  BY <1>5 DEF AddListener, StartListener, RemoveListener, StopListener, CountFail, connectorVars, pipeVars, batchVars
<1> QED BY <1>1, <1>2, <1>3, <1>4, <1>5 DEF AdminNext, AdminStep

LEMMA PipeFrame ==
    ASSUME PipeNext
    PROVE  /\ UNCHANGED <<wsVars, streamVars, listenerVars, known, passed, bl, batchNumber, skipped>>
           /\ UNCHANGED bounds \/ Trouble
<1>1. CASE EventLoop \/ EventLoopExits \/ Push
  BY <1>1 DEF EventLoop, EventLoopExits, Push, connectorVars, batchVars
<1>2. ASSUME NEW l \in Listeners, Detect(l) \/ Confirm(l)
      PROVE  UNCHANGED <<wsVars, streamVars, listenerVars, known, passed, bl, batchNumber, skipped, bounds>>
  BY <1>2 DEF Detect, Confirm, connectorVars, batchVars
<1>3. ASSUME NEW e \in RealEvents, Reorganise(e)
      PROVE  UNCHANGED <<wsVars, streamVars, listenerVars, known, passed, bl, batchNumber, skipped>> /\ Trouble
  BY <1>3 DEF Reorganise, batchVars
<1> QED BY <1>1, <1>2, <1>3 DEF PipeNext, Pipeline

LEMMA BatchFrame ==
    ASSUME BatchLoop
    PROVE  UNCHANGED <<streamVars, connectorVars, updates, loop, pending, pushing, bounds>>
<1>1. CASE PollEvent \/ PollTimeout \/ PollStopped
  BY <1>1 DEF PollEvent, PollTimeout, PollStopped, pipeVars
<1>2. CASE Post \/ Broadcast \/ WaitForAck \/ ActionInterrupted \/ RetryAction \/ GiveUp
  BY <1>2 DEF Post, Broadcast, WaitForAck, ActionInterrupted, RetryAction, GiveUp, pipeVars
<1>3. CASE \E c \in Conns: SendBatch(c)
  BY <1>3 DEF SendBatch, pipeVars
<1>4. CASE GenerateCheckpoint \/ ApplyHWM \/ WriteCheckpoint \/ WriteInterrupted
  BY <1>4 DEF GenerateCheckpoint, ApplyHWM, WriteCheckpoint, WriteInterrupted, pipeVars
<1>5. CASE \E l \in Listeners: QueryHWM(l)
  BY <1>5 DEF QueryHWM, pipeVars
<1> QED BY <1>1, <1>2, <1>3, <1>4, <1>5 DEF BatchLoop

LEMMA ServerFrame ==
    ASSUME ServerNext
    PROVE  UNCHANGED <<streamVars, listenerVars, connectorVars, pipeVars, batchVars>>
BY DEF ServerNext, ServerStep, ReplyStep

(***************************************************************************)
(* Type correctness                                                        *)
(***************************************************************************)

LEMMA IdleBatchType ==
    ASSUME NEW p \in {"none", "done", "poll", "act", "ack", "backoff", "gen", "hwm"}
    PROVE  /\ IdleBatch(p) \in BatchType /\ NoCps \in Positions
           /\ IdleBatch(p).events = << >> /\ IdleBatch(p).pc = p /\ IdleBatch(p).cps = NoCps
           /\ IdleBatch(p).cp = NoCps /\ IdleBatch(p).stale = {} /\ IdleBatch(p).hwm = << >>
BY MaxPosAssumption, EmptyRange DEF IdleBatch, BatchType, NoCps, Positions

LEMMA InitTypes == Init => TypeInv
<1> SUFFICES ASSUME Init PROVE TypeInv
  OBVIOUS
<1>0. setup \in Setups /\ setup.batch \in Nat \ {0} /\ setup.trouble \in Nat
  BY SetupParts DEF Init
<1>1. ServerTypes
  <2>1. GoneConn \in ConnType /\ IdleFan \in [to: SUBSET Conns, msg: MsgType]
    BY DEF GoneConn, NewConn, ConnType, MsgType, NoMsg, IdleFan, Fans
  <2> QED BY <1>0, <2>1, WsAssumption DEF Init, WsInit, ServerTypes
<1>2. StreamTypes
  BY <1>0 DEF Init, StreamTypes, IdleAdmin, AdminType, AdminOps, AdminSteps, None
<1>3. ListenerTypes /\ ConnectorTypes
  BY MaxPosAssumption DEF Init, ListenerTypes, ConnectorTypes, ListenerType, Positions, NoCps
<1>4. PipeTypes
  BY <1>0 DEF Init, PipeTypes, BatchSize
<1>5. BatchTypes
  BY <1>0, IdleBatchType DEF Init, BatchTypes, BatchSize
<1> QED BY <1>1, <1>2, <1>3, <1>4, <1>5 DEF TypeInv

\* The server.
LEMMA BoundsType ==
    ASSUME bounds \in [connects: Nat, replies: Nat, trouble: Nat], Trouble
    PROVE  bounds' \in [connects: Nat, replies: Nat, trouble: Nat] /\ bounds'.trouble < bounds.trouble
BY DEF Trouble

LEMMA SeqLimit ==
    ASSUME NEW S, NEW q \in Seq(S), NEW e \in S, NEW n \in Nat, Len(q) < n
    PROVE  Append(q, e) \in Seq(S) /\ Len(Append(q, e)) <= n
BY AppendRange

LEMMA TailLimit ==
    ASSUME NEW S, NEW q \in Seq(S), q # << >>, NEW n \in Nat, Len(q) <= n
    PROVE  Tail(q) \in Seq(S) /\ Len(Tail(q)) < n /\ Head(q) \in S
BY TailRange

ConnServer == conn \in [Conns -> ConnType] /\ receiver \in Seq(Nat) /\ Len(receiver) <= ReceiverCap

LEMMA CycleType ==
    ASSUME receiver \in Seq(Nat), Len(receiver) <= ReceiverCap, NEW j, CycleTopic(j)
    PROVE  receiver' \in Seq(Nat) /\ Len(receiver') <= ReceiverCap
BY WsAssumption, SeqLimit DEF CycleTopic, Err

LEMMA CloseTypes ==
    ASSUME ConnServer, NEW c \in Conns, NEW g \in {"reader", "sender"}, Close(c, g)
    PROVE  ConnServer'
<1>1. receiver' \in Seq(Nat) /\ Len(receiver') <= ReceiverCap
  BY CycleType DEF ConnServer, Close
<1>2. [conn[c] EXCEPT ![g] = "done", !.closed = TRUE, !.alive = FALSE,
                      !.maps = {}, !.inbox = {}, !.msg = NoMsg] \in ConnType
  <2>0. conn[c] \in ConnType
    BY DEF ConnServer
  <2>1. CASE g = "reader"
    <3> DEFINE r == [conn[c] EXCEPT !.reader = "done", !.closed = TRUE, !.alive = FALSE,
                                    !.maps = {}, !.inbox = {}, !.msg = NoMsg]
    <3>1. r \in ConnType
      BY <2>0 DEF ConnType, MsgType, NoMsg
    <3> QED BY <2>1, <3>1
  <2>2. CASE g = "sender"
    <3> DEFINE r == [conn[c] EXCEPT !.sender = "done", !.closed = TRUE, !.alive = FALSE,
                                    !.maps = {}, !.inbox = {}, !.msg = NoMsg]
    <3>1. r \in ConnType
      BY <2>0 DEF ConnType, MsgType, NoMsg
    <3> QED BY <2>2, <3>1
  <2> QED BY <2>1, <2>2
<1> QED BY <1>1, <1>2 DEF ConnServer, Close

LEMMA AnswerTypes ==
    ASSUME ConnServer, NEW c \in Conns, NEW n \in Nat, NEW S, DispatchAckOrError(c, n, S)
    PROVE  ConnServer'
<1>0. conn \in [Conns -> ConnType] /\ conn[c] \in ConnType /\ conn[c].msg \in MsgType
  BY DEF ConnServer, ConnType
<1>1. CASE Len(receiver) < ReceiverCap
  <2>1. receiver' = Append(receiver, n) /\ conn' = [conn EXCEPT ![c].inbox = @ \ S]
    BY <1>1 DEF DispatchAckOrError
  <2>2. receiver' \in Seq(Nat) /\ Len(receiver') <= ReceiverCap
    BY <1>1, <2>1, WsAssumption, SeqLimit DEF ConnServer
  <2>3. conn' \in [Conns -> ConnType]
    BY <1>0, <2>1 DEF ConnType
  <2> QED BY <2>2, <2>3 DEF ConnServer
<1>2. CASE ~(Len(receiver) < ReceiverCap)
  <2>1. /\ UNCHANGED receiver
        /\ conn' = [conn EXCEPT ![c] = [@ EXCEPT !.reader = "done", !.closed = TRUE, !.alive = FALSE,
                                                 !.maps = {}, !.inbox = {}]]
    BY <1>2 DEF DispatchAckOrError
  <2>2. [conn[c] EXCEPT !.reader = "done", !.closed = TRUE, !.alive = FALSE, !.maps = {}, !.inbox = {}] \in ConnType
    BY <1>0 DEF ConnType
  <2> QED BY <1>0, <2>1, <2>2 DEF ConnServer
<1> QED BY <1>1, <1>2

LEMMA ConnStepTypes ==
    ASSUME ServerTypes, NEW c \in Conns, ConnStep(c) PROVE ServerTypes'
<1>0. /\ ConnServer /\ conn[c] \in ConnType /\ fan \in [Fans -> [to: SUBSET Conns, msg: MsgType]]
      /\ received \subseteq Events
  BY DEF ServerTypes, ConnServer
<1>1. CASE ReadFails(c) \/ SenderCloses(c)
  <2>1. ConnServer' /\ UNCHANGED <<fan, received, bounds>>
    BY <1>0, <1>1, CloseTypes DEF ReadFails, SenderCloses, Close
  <2> QED BY <2>1 DEF ServerTypes, ConnServer
<1>2. CASE TopicTold(c) \/ TopicNotTold(c)
  <2>1. CASE TopicTold(c)
    BY <1>0, <2>1 DEF TopicTold, ConnServer, ConnType, ServerTypes
  <2>2. CASE TopicNotTold(c)
    BY <1>0, <2>2 DEF TopicNotTold, ConnServer, ConnType, ServerTypes
  <2> QED BY <1>2, <2>1, <2>2
<1>3. CASE SenderWrites(c)
  <2>1. conn[c].msg \in MsgType /\ conn[c].msg.evs \subseteq Events /\ conn[c].msg.n \in Nat /\ conn[c].inbox \subseteq Nat
    BY <1>0 DEF ConnType, MsgType
  <2>2. conn' \in [Conns -> ConnType]
    <3>1. PICK box \in SUBSET Nat:
               conn' = [conn EXCEPT ![c] = [conn[c] EXCEPT !.sender = "select", !.msg = NoMsg, !.inbox = box]]
      <4> DEFINE there == conn[c].alive /\ ~conn[c].closed
                 box == IF there /\ conn[c].msg.n # 0 THEN conn[c].inbox \cup {conn[c].msg.n} ELSE conn[c].inbox
      <4>1. box \in SUBSET Nat
        BY <2>1
      <4>2. conn' = [conn EXCEPT ![c].sender = "select", ![c].msg = NoMsg, ![c].inbox = box]
        BY <1>0, <1>3 DEF SenderWrites, ConnServer
      <4> HIDE DEF box
      <4>3. conn' = [conn EXCEPT ![c] = [conn[c] EXCEPT !.sender = "select", !.msg = NoMsg, !.inbox = box]]
        BY <1>0, <4>2 DEF ConnServer
      <4> QED BY <4>1, <4>3
    <3>2. [conn[c] EXCEPT !.sender = "select", !.msg = NoMsg, !.inbox = box] \in ConnType
      BY <1>0 DEF ConnType, MsgType, NoMsg
    <3> QED BY <1>0, <3>1, <3>2 DEF ConnServer
  <2>3. received' \subseteq Events /\ UNCHANGED <<receiver, fan, bounds>>
    BY <1>0, <1>3, <2>1 DEF SenderWrites
  <2> QED BY <2>2, <2>3 DEF ServerTypes
<1>4. ASSUME NEW f \in Fans, FanOut(f, c) PROVE ServerTypes'
  <2>1. fan[f].msg \in MsgType /\ fan[f].to \subseteq Conns /\ fan[f] \in [to: SUBSET Conns, msg: MsgType]
    BY <1>0
  <2>2. conn' \in [Conns -> ConnType]
    <3>1. [conn[c] EXCEPT !.sender = "write", !.msg = fan[f].msg] \in ConnType
      BY <1>0, <2>1 DEF ConnType
    <3>2. conn' = [conn EXCEPT ![c] = [conn[c] EXCEPT !.sender = "write", !.msg = fan[f].msg]] \/ UNCHANGED conn
      BY <1>0, <1>4 DEF FanOut, Taken, ConnServer
    <3> QED BY <1>0, <3>1, <3>2 DEF ConnServer
  <2>3. fan' \in [Fans -> [to: SUBSET Conns, msg: MsgType]]
    <3>1. IdleFan \in [to: SUBSET Conns, msg: MsgType]
      BY DEF IdleFan, NoMsg, MsgType
    <3>2. CASE fan[f].to = {c}
      BY <1>0, <1>4, <3>1, <3>2 DEF FanOut
    <3>3. CASE fan[f].to # {c}
      BY <1>0, <1>4, <2>1, <3>3 DEF FanOut
    <3> QED BY <3>2, <3>3
  <2>4. UNCHANGED <<receiver, received, bounds>>
    BY <1>4 DEF FanOut
  <2> QED BY <2>2, <2>3, <2>4 DEF ServerTypes
<1> QED BY <1>1, <1>2, <1>3, <1>4 DEF ConnStep

LEMMA ClientStepTypes ==
    ASSUME ServerTypes, NEW c \in Conns, ClientStep(c) PROVE ServerTypes'
<1>0. /\ ConnServer /\ conn \in [Conns -> ConnType] /\ conn[c] \in ConnType
      /\ bounds \in [connects: Nat, replies: Nat, trouble: Nat]
  BY DEF ServerTypes, ConnServer
<1>1. CASE Connect(c)
  <2>1. NewConn \in ConnType
    BY DEF NewConn, NoMsg, ConnType, MsgType, Fans
  <2>2. conn' \in [Conns -> ConnType]
    BY <1>0, <1>1, <2>1 DEF Connect
  <2>3. bounds' \in [connects: Nat, replies: Nat, trouble: Nat]
    BY <1>0, <1>1 DEF Connect
  <2> QED BY <1>1, <2>2, <2>3 DEF Connect, ServerTypes
<1>2. CASE Disconnect(c)
  <2>1. conn' \in [Conns -> ConnType]
    BY <1>0, <1>2 DEF Disconnect, ConnType
  <2> QED BY <1>0, <1>2, <2>1, BoundsType DEF Disconnect, ServerTypes
<1>3. CASE ListenTopic(c)
  <2>1. conn' \in [Conns -> ConnType]
    BY <1>0, <1>3 DEF ListenTopic, ConnType, Fans
  <2> QED BY <1>3, <2>1 DEF ListenTopic, ServerTypes
<1>4. CASE Ack(c)
  <2>1. PICK n \in conn[c].inbox: DispatchAckOrError(c, n, {n})
    BY <1>4 DEF Ack
  <2>2. n \in Nat
    BY <1>0, <2>1 DEF ConnType
  <2>3. ConnServer'
    BY <1>0, <2>1, <2>2, AnswerTypes
  <2> QED BY <1>4, <2>3 DEF Ack, ServerTypes, ConnServer
<1>5. CASE ClientError(c)
  <2>1. ConnServer'
    BY <1>0, <1>5, AnswerTypes DEF ClientError, Err
  <2> QED BY <1>0, <1>5, <2>1, BoundsType DEF ClientError, ServerTypes, ConnServer
<1> QED BY <1>1, <1>2, <1>3, <1>4, <1>5 DEF ClientStep

LEMMA ServerNextTypes == ASSUME ServerTypes, ServerNext PROVE ServerTypes'
<1>1. CASE ServerStep
  BY <1>1, ConnStepTypes, ClientStepTypes DEF ServerStep
<1>2. CASE ReplyStep /\ SendReply
  <2>1. /\ fan' = [fan EXCEPT !["replies"] = [to |-> Registered("replies"), msg |-> NoMsg]]
        /\ bounds' = [bounds EXCEPT !.replies = @ - 1] /\ bounds.replies > 0
        /\ UNCHANGED <<conn, receiver, received>>
    BY <1>2 DEF SendReply, FanTakes
  <2>2. fan' \in [Fans -> [to: SUBSET Conns, msg: MsgType]]
    BY <2>1 DEF ServerTypes, Registered, NoMsg, MsgType
  <2>3. bounds' \in [connects: Nat, replies: Nat, trouble: Nat]
    BY <2>1 DEF ServerTypes
  <2> QED BY <2>1, <2>2, <2>3 DEF ServerTypes
<1>3. ASSUME NEW c \in Conns, ListenReplies(c) PROVE ServerTypes'
  <2>1. conn[c] \in ConnType
    BY DEF ServerTypes
  <2>2. conn' \in [Conns -> ConnType]
    BY <1>3, <2>1 DEF ListenReplies, ServerTypes, ConnType, Fans
  <2> QED BY <1>3, <2>2 DEF ListenReplies, ServerTypes
<1> QED BY <1>1, <1>2, <1>3 DEF ServerNext, ReplyStep

\* The stream.
LEMMA AdminTypes ==
    ASSUME TypeInv, AdminOK, NEW a \in Admins, AdminNext(a)
    PROVE  StreamTypes'
<1>0. /\ setup' = setup /\ admin \in [Admins -> AdminType] /\ admin[a] \in AdminType /\ IdleAdmin \in AdminType
      /\ \A b \in Admins: admin[b].step # "idle" => admin[b].l \in Listeners
      /\ setup \in Setups /\ status \in {"stopped", "started", "stopping", "deleted"} /\ current \in BOOLEAN
  BY AdminFrame DEF TypeInv, StreamTypes, IdleAdmin, AdminType, AdminOps, AdminSteps
<1>i. IdleAdmin.step = "idle"
  BY DEF IdleAdmin
<1>s. SUFFICES /\ status' \in {"stopped", "started", "stopping", "deleted"} /\ current' \in BOOLEAN
               /\ \E r \in AdminType: /\ admin' = [admin EXCEPT ![a] = r]
                                      /\ r.step # "idle" => r.l \in Listeners
  BY <1>0 DEF StreamTypes
<1>1. CASE Begin(a)
  <2>1. PICK op \in AdminOps, l \in Listeners, st \in AdminSteps:
             admin' = [admin EXCEPT ![a] = [op |-> op, l |-> l, again |-> current, step |-> st]]
    <3>1. PICK op \in {"start", "stop", "update", "reset", "delete", "add", "remove"}, l \in Listeners:
               admin' = [admin EXCEPT ![a] =
                 [op |-> op, l |-> l, again |-> current,
                  step |-> CASE op \in {"start", "stop", "add", "remove"} -> op
                             [] op = "update" -> "stop"
                             [] op = "reset" -> IF current THEN "stop" ELSE "reset"
                             [] op = "delete" -> IF status = "stopped" THEN "delete" ELSE "stop"]]
      BY <1>1 DEF Begin
    <3> DEFINE st == CASE op \in {"start", "stop", "add", "remove"} -> op
                       [] op = "update" -> "stop"
                       [] op = "reset" -> IF current THEN "stop" ELSE "reset"
                       [] op = "delete" -> IF status = "stopped" THEN "delete" ELSE "stop"
    <3>2. st \in AdminSteps /\ op \in AdminOps
      BY DEF AdminSteps, AdminOps
    <3>3. admin' = [admin EXCEPT ![a] = [op |-> op, l |-> l, again |-> current, step |-> st]]
      BY <3>1
    <3> HIDE DEF st
    <3> QED BY <3>2, <3>3
  <2>2. [op |-> op, l |-> l, again |-> current, step |-> st] \in AdminType
    BY <1>0 DEF AdminType
  <2> QED BY <1>0, <1>1, <2>1, <2>2 DEF Begin
<1>2. CASE Start(a)
  <2>1. admin' = [admin EXCEPT ![a] = IdleAdmin]
    BY <1>2 DEF Start
  <2>2. status' \in {"stopped", "started", "stopping", "deleted"} /\ current' \in BOOLEAN
    <3>1. CASE status # "stopped"
      BY <1>0, <1>2, <3>1 DEF Start
    <3>2. CASE status = "stopped"
      <4>1. PICK o \in StartOutcomes: StartOutcome(o)
        BY <1>2, <3>2 DEF Start
      <4> QED BY <1>0, <4>1 DEF StartOutcomes, StartOutcome
    <3> QED BY <3>1, <3>2
  <2> QED BY <1>0, <1>i, <2>1, <2>2
<1>3. CASE RequestStop(a) \/ NotifyStopped(a)
  <2>1. \A st \in AdminSteps: [admin[a] EXCEPT !.step = st] \in AdminType /\ [admin[a] EXCEPT !.step = st].l = admin[a].l
    BY <1>0 DEF AdminType
  <2>2. CASE RequestStop(a)
    <3>1. admin[a].l \in Listeners /\ {"notify", "stopped"} \subseteq AdminSteps
      BY <1>0, <2>2 DEF RequestStop, AdminSteps
    <3>2. \/ admin' = [admin EXCEPT ![a] = IdleAdmin]
          \/ \E st \in {"notify", "stopped"}: admin' = [admin EXCEPT ![a] = [admin[a] EXCEPT !.step = st]]
      BY <1>0, <2>2 DEF RequestStop
    <3>3. status' \in {"stopped", "started", "stopping", "deleted"} /\ current' = current
      BY <1>0, <2>2 DEF RequestStop
    <3> QED BY <1>0, <1>i, <2>1, <3>1, <3>2, <3>3
  <2>3. CASE NotifyStopped(a)
    <3>1. admin[a].l \in Listeners /\ "wait" \in AdminSteps
      BY <1>0, <2>3 DEF NotifyStopped, AdminSteps
    <3>2. \/ admin' = [admin EXCEPT ![a] = IdleAdmin]
          \/ admin' = [admin EXCEPT ![a] = [admin[a] EXCEPT !.step = "wait"]]
      BY <1>0, <2>3 DEF NotifyStopped
    <3>3. UNCHANGED <<status, current>>
      BY <2>3 DEF NotifyStopped
    <3> QED BY <1>0, <1>i, <2>1, <3>1, <3>2, <3>3
  <2> QED BY <1>3, <2>2, <2>3
<1>4. CASE FinishStop(a) \/ Stopped(a) \/ ResetCheckpoint(a) \/ DeleteStream(a)
  <2>1. \A st \in AdminSteps: [admin[a] EXCEPT !.step = st] \in AdminType /\ [admin[a] EXCEPT !.step = st].l = admin[a].l
    BY <1>0 DEF AdminType
  <2>2. admin[a].step # "idle" /\ admin[a].l \in Listeners
    BY <1>0, <1>4 DEF FinishStop, Stopped, ResetCheckpoint, DeleteStream
  <2>3. status' \in {"stopped", "started", "stopping", "deleted"} /\ current' \in BOOLEAN
    BY <1>0, <1>4 DEF FinishStop, Stopped, ResetCheckpoint, DeleteStream
  <2>4. CASE FinishStop(a)
    <3>1. "stopped" \in AdminSteps
      BY DEF AdminSteps
    <3>2. \/ admin' = [admin EXCEPT ![a] = IdleAdmin]
          \/ admin' = [admin EXCEPT ![a] = [admin[a] EXCEPT !.step = "stopped"]]
      BY <1>0, <2>4 DEF FinishStop
    <3> QED BY <1>0, <1>i, <2>1, <2>2, <2>3, <3>1, <3>2
  <2>5. CASE Stopped(a)
    <3>1. \/ admin' = [admin EXCEPT ![a] = IdleAdmin]
          \/ /\ admin[a].op # "stop"
             /\ admin' = [admin EXCEPT ![a] = [admin[a] EXCEPT !.step = NextStep(admin[a].op)]]
      BY <1>0, <2>5 DEF Stopped
    <3>2. CASE admin' = [admin EXCEPT ![a] = IdleAdmin]
      BY <1>0, <1>i, <2>3, <3>2
    <3>3. CASE admin' = [admin EXCEPT ![a] = [admin[a] EXCEPT !.step = NextStep(admin[a].op)]]
      <4>1. CASE NextStep(admin[a].op) \in AdminSteps
        BY <1>0, <2>1, <2>2, <2>3, <3>3, <4>1
      <4>2. NextStep(admin[a].op) \in AdminSteps
        BY <1>0, <2>5 DEF NextStep, AdminSteps, AdminOK, Stopped
      <4> QED BY <4>1, <4>2
    <3> QED BY <3>1, <3>2, <3>3
  <2>6. CASE ResetCheckpoint(a)
    <3>1. "start" \in AdminSteps
      BY DEF AdminSteps
    <3>2. \/ admin' = [admin EXCEPT ![a] = IdleAdmin]
          \/ admin' = [admin EXCEPT ![a] = [admin[a] EXCEPT !.step = "start"]]
      BY <1>0, <2>6 DEF ResetCheckpoint
    <3> QED BY <1>0, <1>i, <2>1, <2>2, <2>3, <3>1, <3>2
  <2>7. CASE DeleteStream(a)
    BY <1>0, <1>i, <2>3, <2>7 DEF DeleteStream
  <2> QED BY <1>4, <2>4, <2>5, <2>6, <2>7
<1>5. CASE AddListener(a) \/ StartListener(a) \/ RemoveListener(a) \/ StopListener(a)
  <2>1. \A st \in AdminSteps: [admin[a] EXCEPT !.step = st] \in AdminType /\ [admin[a] EXCEPT !.step = st].l = admin[a].l
    BY <1>0 DEF AdminType
  <2>2. admin[a].step # "idle" /\ admin[a].l \in Listeners /\ {"addStart", "removeStop"} \subseteq AdminSteps
    BY <1>0, <1>5 DEF AddListener, StartListener, RemoveListener, StopListener, AdminSteps
  <2>3. UNCHANGED <<status, current>>
    BY <1>5 DEF AddListener, StartListener, RemoveListener, StopListener
  <2>4. CASE StartListener(a) \/ StopListener(a)
    BY <1>0, <1>i, <2>3, <2>4 DEF StartListener, StopListener
  <2>5. CASE AddListener(a) \/ RemoveListener(a)
    <3>1. \/ admin' = [admin EXCEPT ![a] = IdleAdmin]
          \/ \E st \in {"addStart", "removeStop"}: admin' = [admin EXCEPT ![a] = [admin[a] EXCEPT !.step = st]]
      BY <1>0, <2>5 DEF AddListener, RemoveListener
    <3> QED BY <1>0, <1>i, <2>1, <2>2, <2>3, <3>1
  <2> QED BY <1>5, <2>4, <2>5
<1> QED BY <1>1, <1>2, <1>3, <1>4, <1>5 DEF AdminNext, AdminStep

\* Listener states change in the additions and removals only.
LEMMA StatesKept ==
    ASSUME TypeInv, [Next]_vars, NEW l \in Listeners, ~\E a \in Admins: AddListener(a) \/ RemoveListener(a)
    PROVE  lst'[l].st = lst[l].st
<1>0. lst \in [Listeners -> ListenerType] /\ lst[l] \in ListenerType
  BY DEF TypeInv, ListenerTypes
<1>1. CASE UNCHANGED lst
  BY <1>1
<1>2. ASSUME NEW a \in Admins, AdminNext(a) PROVE lst'[l].st = lst[l].st
  <2>1. CASE Begin(a) \/ RequestStop(a) \/ NotifyStopped(a) \/ Stopped(a) \/ DeleteStream(a)
    BY <2>1 DEF Begin, RequestStop, NotifyStopped, Stopped, DeleteStream, listenerVars
  <2>2. CASE Start(a)
    <3>1. CASE status = "stopped"
      <4>1. PICK o \in StartOutcomes: StartOutcome(o)
        BY <2>2, <3>1 DEF Start
      <4>2. CASE o = "ok"
        BY <1>0, <4>1, <4>2 DEF StartOutcome, ListenerType
      <4> QED BY <4>1, <4>2 DEF StartOutcomes, StartOutcome
    <3> QED BY <2>2, <3>1 DEF Start
  <2>3. CASE FinishStop(a) \/ StartListener(a) \/ StopListener(a)
    <3>1. CASE FinishStop(a)
      BY <1>0, <3>1 DEF FinishStop, ListenerType
    <3>2. CASE StartListener(a)
      BY <1>0, <3>2 DEF StartListener, ListenerType
    <3>3. CASE StopListener(a)
      BY <1>0, <3>3 DEF StopListener, ListenerType
    <3> QED BY <2>3, <3>1, <3>2, <3>3
  <2>4. CASE ResetCheckpoint(a)
    <3>1. lst' = [lst EXCEPT ![admin[a].l].cp = 0, ![admin[a].l].src = "event"]
      BY <2>4 DEF ResetCheckpoint
    <3> QED BY <1>0, <3>1 DEF ListenerType
  <2> QED BY <1>2, <2>1, <2>2, <2>3, <2>4 DEF AdminNext, AdminStep
<1>3. CASE PipeNext
  BY <1>1, <1>3, PipeFrame DEF listenerVars
<1>4. CASE BatchLoop
  <2>1. CASE GenerateCheckpoint
    BY <1>0, <2>1 DEF GenerateCheckpoint, ListenerType
  <2>2. CASE ApplyHWM
    <3>1. lst' = [lst EXCEPT ![bl.hwm[1]].cp = bl.hwm[2], ![bl.hwm[1]].src = "hwm"] \/ UNCHANGED lst
      BY <2>2 DEF ApplyHWM
    <3> QED BY <1>0, <3>1 DEF ListenerType
  <2>3. CASE \/ PollEvent \/ PollTimeout \/ PollStopped \/ Post \/ Broadcast \/ WaitForAck
             \/ ActionInterrupted \/ RetryAction \/ GiveUp \/ WriteCheckpoint \/ WriteInterrupted
    BY <2>3 DEF PollEvent, PollTimeout, PollStopped, Post, Broadcast, WaitForAck, ActionInterrupted, RetryAction,
                GiveUp, WriteCheckpoint, WriteInterrupted, listenerVars
  <2>4. CASE \/ \E c \in Conns: SendBatch(c)
             \/ \E k \in Listeners: QueryHWM(k)
    BY <2>4 DEF SendBatch, QueryHWM, listenerVars
  <2> QED BY <1>4, <2>1, <2>2, <2>3, <2>4 DEF BatchLoop
<1>5. CASE ServerNext
  BY <1>1, <1>5, ServerFrame DEF listenerVars
<1>6. CASE Crash
  BY <1>0, <1>6 DEF Crash, ListenerType
<1> QED BY <1>2, <1>3, <1>4, <1>5, <1>6, NextSplit DEF vars, listenerVars

LEMMA InitAdmin == Init => AdminOK
BY DEF Init, AdminOK, IdleAdmin, ListenerOps

LEMMA IdleAdminOK ==
    ASSUME TypeInv, AdminOK, NEW a \in Admins, admin' = [admin EXCEPT ![a] = IdleAdmin], 
           \A l \in Listeners: lst'[l].st = lst[l].st
    PROVE  AdminOK'
BY DEF TypeInv, StreamTypes, AdminOK, IdleAdmin, ListenerOps, AdminType

\* A request that goes on.
LEMMA StepAdminOK ==
    ASSUME TypeInv, AdminOK, NEW a \in Admins, NEW st \in AdminSteps \ {"idle", "add", "addStart"},
           admin' = [admin EXCEPT ![a] = [admin[a] EXCEPT !.step = st]], admin[a].step # "idle",
           \A l \in Listeners: lst'[l].st = lst[l].st, admin[a].op # "add",
           st \in {"stop", "notify", "wait", "stopped"} => admin[a].op \in {"stop", "update", "reset", "delete"},
           st \in {"remove", "removeStop"} => admin[a].op = "remove",
           st = "reset" => admin[a].op = "reset"
    PROVE  AdminOK'
<1>1. admin[a] \in AdminType /\ admin \in [Admins -> AdminType] /\ \A b \in Admins: admin[b] \in AdminType
  BY DEF TypeInv, StreamTypes
<1>2. \A b \in Admins: b # a => admin'[b] = admin[b]
  BY <1>1
<1>3. admin'[a].op = admin[a].op /\ admin'[a].step = st /\ \A b \in Admins: admin'[b].op = admin[b].op
  BY <1>1 DEF AdminType
<1>4. \A b \in Admins: admin[b].step # "idle" => admin[b].l \in Listeners
  BY DEF TypeInv, StreamTypes
<1>5. ASSUME NEW b \in Admins
      PROVE  LET r == admin'[b] IN
         /\ r.step = "idle" <=> r.op = "none"
         /\ r.step \in {"stop", "notify", "wait", "stopped"} => r.op \in {"stop", "update", "reset", "delete"}
         /\ r.op = "add" <=> r.step \in {"add", "addStart"}
         /\ r.step \in {"remove", "removeStop"} => r.op = "remove"
         /\ r.step = "reset" => r.op = "reset"
         /\ r.step = "add" => lst'[r.l].st = "new"
         /\ r.step = "addStart" => lst'[r.l].st # "new"
  <2>1. CASE b = a
    BY <1>3, <2>1 DEF AdminOK
  <2>2. CASE b # a
    <3>1. admin'[b] = admin[b]
      BY <1>2, <2>2
    <3> QED BY <1>4, <3>1 DEF AdminOK
  <2> QED BY <2>1, <2>2
<1> QED BY <1>3, <1>5 DEF AdminOK, ListenerOps

LEMMA AdminStepOK ==
    ASSUME TypeInv, AdminOK, NEW a \in Admins, AdminNext(a) PROVE AdminOK'
<1>0. /\ admin[a] \in AdminType /\ admin \in [Admins -> AdminType] /\ \A b \in Admins: admin[b] \in AdminType
      /\ lst \in [Listeners -> ListenerType]
      /\ \A b \in Admins: admin[b].step # "idle" => admin[b].l \in Listeners
  BY DEF TypeInv, StreamTypes, ListenerTypes
<1>n. [Next]_vars
  BY DEF AdminNext, Next
<1>1. CASE Begin(a)
  <2>0. admin[a].step = "idle" /\ UNCHANGED lst
    BY <1>1 DEF Begin, listenerVars
  <2>p. PICK op \in {"start", "stop", "update", "reset", "delete", "add", "remove"}, l \in Listeners:
             /\ op = "add" => lst[l].st = "new"
             /\ op \in ListenerOps => \A b \in Admins: admin[b].op \notin ListenerOps
             /\ admin' = [admin EXCEPT ![a] =
                  [op |-> op, l |-> l, again |-> current,
                   step |-> CASE op \in {"start", "stop", "add", "remove"} -> op
                              [] op = "update" -> "stop"
                              [] op = "reset" -> IF current THEN "stop" ELSE "reset"
                              [] op = "delete" -> IF status = "stopped" THEN "delete" ELSE "stop"]]
    BY <1>1 DEF Begin
  <2> DEFINE st == CASE op \in {"start", "stop", "add", "remove"} -> op
                     [] op = "update" -> "stop"
                     [] op = "reset" -> IF current THEN "stop" ELSE "reset"
                     [] op = "delete" -> IF status = "stopped" THEN "delete" ELSE "stop"
  <2>q. /\ st \in AdminSteps
        /\ op \in {"start", "stop", "add", "remove"} => st = op
        /\ op = "update" => st = "stop"
        /\ op = "reset" => st \in {"stop", "reset"}
        /\ op = "delete" => st \in {"stop", "delete"}
    BY DEF AdminSteps
  <2>r. admin' = [admin EXCEPT ![a] = [op |-> op, l |-> l, again |-> current, step |-> st]]
    BY <2>p
  <2> HIDE DEF st
  <2>1. /\ admin' = [admin EXCEPT ![a] = [op |-> op, l |-> l, again |-> current, step |-> st]]
        /\ op = "add" => lst[l].st = "new"
        /\ op \in ListenerOps => \A b \in Admins: admin[b].op \notin ListenerOps
        /\ op \in {"start", "stop", "add", "remove"} => st = op
        /\ op = "update" => st = "stop"
        /\ op = "reset" => st \in {"stop", "reset"}
        /\ op = "delete" => st \in {"stop", "delete"}
    BY <2>p, <2>q, <2>r
  <2>2. admin'[a] = [op |-> op, l |-> l, again |-> current, step |-> st] /\ \A b \in Admins: b # a => admin'[b] = admin[b]
    BY <1>0, <2>1
  <2>3. admin'[a].op = op /\ admin'[a].l = l /\ admin'[a].step = st
    BY <2>2
  <2>4. \A b \in Admins: b # a => admin'[b].op = admin[b].op
    BY <2>2
  <2>5. \A b, c \in Admins: admin'[b].op \in ListenerOps /\ admin'[c].op \in ListenerOps => b = c
    BY <2>1, <2>3, <2>4 DEF AdminOK
  <2>6. ASSUME NEW b \in Admins
        PROVE  LET r == admin'[b] IN
         /\ r.step = "idle" <=> r.op = "none"
         /\ r.step \in {"stop", "notify", "wait", "stopped"} => r.op \in {"stop", "update", "reset", "delete"}
         /\ r.op = "add" <=> r.step \in {"add", "addStart"}
         /\ r.step \in {"remove", "removeStop"} => r.op = "remove"
         /\ r.step = "reset" => r.op = "reset"
         /\ r.step = "add" => lst'[r.l].st = "new"
         /\ r.step = "addStart" => lst'[r.l].st # "new"
    <3>1. CASE b = a
      BY <2>0, <2>1, <2>3, <3>1
    <3>2. CASE b # a
      BY <2>0, <2>2, <3>2 DEF AdminOK
    <3> QED BY <3>1, <3>2
  <2> QED BY <2>5, <2>6 DEF AdminOK
<1>2. CASE AddListener(a)
  <2>1. /\ admin[a].step = "add" /\ lst' = [lst EXCEPT ![admin[a].l].st = "in"] /\ admin[a].l \in Listeners
        /\ admin[a].op = "add"
    BY <1>0, <1>2 DEF AddListener, AdminOK
  <2>2. \/ admin' = [admin EXCEPT ![a] = IdleAdmin]
        \/ admin' = [admin EXCEPT ![a] = [admin[a] EXCEPT !.step = "addStart"]]
    BY <1>0, <1>2 DEF AddListener
  <2>3. \A b \in Admins: b # a => admin'[b] = admin[b] /\ admin[b].op # "add" /\ admin[b].step \notin {"add", "addStart"}
    BY <1>0, <2>1, <2>2 DEF AdminOK, ListenerOps
  <2>4. lst'[admin[a].l].st = "in"
    BY <1>0, <2>1 DEF ListenerType
  <2>5. admin'[a] = IdleAdmin \/ (admin'[a].step = "addStart" /\ admin'[a].op = "add" /\ admin'[a].l = admin[a].l)
    BY <1>0, <2>1, <2>2 DEF AdminType
  <2>6. ASSUME NEW b \in Admins
        PROVE  LET r == admin'[b] IN
         /\ r.step = "idle" <=> r.op = "none"
         /\ r.step \in {"stop", "notify", "wait", "stopped"} => r.op \in {"stop", "update", "reset", "delete"}
         /\ r.op = "add" <=> r.step \in {"add", "addStart"}
         /\ r.step \in {"remove", "removeStop"} => r.op = "remove"
         /\ r.step = "reset" => r.op = "reset"
         /\ r.step = "add" => lst'[r.l].st = "new"
         /\ r.step = "addStart" => lst'[r.l].st # "new"
    <3>1. CASE b = a
      BY <2>4, <2>5, <3>1 DEF IdleAdmin
    <3>2. CASE b # a
      BY <2>3, <3>2 DEF AdminOK
    <3> QED BY <3>1, <3>2
  <2>7. \A b, c \in Admins: admin'[b].op \in ListenerOps /\ admin'[c].op \in ListenerOps => b = c
    BY <2>1, <2>3, <2>5 DEF AdminOK, IdleAdmin, ListenerOps
  <2> QED BY <2>6, <2>7 DEF AdminOK
<1>3. CASE RemoveListener(a)
  <2>1. /\ admin[a].step = "remove" /\ lst' = [lst EXCEPT ![admin[a].l].st = "removed"] /\ admin[a].l \in Listeners
        /\ admin[a].op = "remove"
    BY <1>0, <1>3 DEF RemoveListener, AdminOK
  <2>2. \/ admin' = [admin EXCEPT ![a] = IdleAdmin]
        \/ admin' = [admin EXCEPT ![a] = [admin[a] EXCEPT !.step = "removeStop"]]
    BY <1>0, <1>3 DEF RemoveListener
  <2>3. \A b \in Admins: b # a => admin'[b] = admin[b] /\ admin[b].op # "add" /\ admin[b].step \notin {"add", "addStart"}
    BY <1>0, <2>1, <2>2 DEF AdminOK, ListenerOps
  <2>5. admin'[a] = IdleAdmin \/ (admin'[a].step = "removeStop" /\ admin'[a].op = "remove")
    BY <1>0, <2>1, <2>2 DEF AdminType
  <2>6. ASSUME NEW b \in Admins
        PROVE  LET r == admin'[b] IN
         /\ r.step = "idle" <=> r.op = "none"
         /\ r.step \in {"stop", "notify", "wait", "stopped"} => r.op \in {"stop", "update", "reset", "delete"}
         /\ r.op = "add" <=> r.step \in {"add", "addStart"}
         /\ r.step \in {"remove", "removeStop"} => r.op = "remove"
         /\ r.step = "reset" => r.op = "reset"
         /\ r.step = "add" => lst'[r.l].st = "new"
         /\ r.step = "addStart" => lst'[r.l].st # "new"
    <3>1. CASE b = a
      BY <2>5, <3>1 DEF IdleAdmin
    <3>2. CASE b # a
      BY <2>3, <3>2 DEF AdminOK
    <3> QED BY <3>1, <3>2
  <2>7. \A b, c \in Admins: admin'[b].op \in ListenerOps /\ admin'[c].op \in ListenerOps => b = c
    BY <2>1, <2>3, <2>5 DEF AdminOK, IdleAdmin, ListenerOps
  <2> QED BY <2>6, <2>7 DEF AdminOK
<1>4. ASSUME ~Begin(a), ~AddListener(a), ~RemoveListener(a) PROVE AdminOK'
  <2>1. \A l \in Listeners: lst'[l].st = lst[l].st
    <3>1. CASE \E b \in Admins: AddListener(b) \/ RemoveListener(b)
      <4>1. PICK b \in Admins: AddListener(b) \/ RemoveListener(b)
        BY <3>1
      <4>2. b # a
        BY <1>4, <4>1
      <4>3. admin'[a] = admin[a] /\ admin'[b] # admin[b]
        BY <1>0, <4>1, <4>2 DEF AddListener, RemoveListener, IdleAdmin, AdminType
      <4>4. admin[a].step # "idle" /\ admin'[b] = admin[b]
        BY <1>0, <1>4, <4>2 DEF AdminNext, AdminStep, Start, RequestStop, NotifyStopped, FinishStop, Stopped, ResetCheckpoint,
              DeleteStream, StartListener, StopListener
      <4> QED BY <4>3, <4>4
    <3> QED BY <1>n, <3>1, StatesKept
  <2>2. admin[a].step # "idle"
    BY <1>4 DEF AdminNext, AdminStep, Start, RequestStop, NotifyStopped, FinishStop, Stopped, ResetCheckpoint,
              DeleteStream, StartListener, StopListener
  <2>3. CASE Start(a) \/ DeleteStream(a) \/ StartListener(a) \/ StopListener(a)
    BY <2>1, <2>3, IdleAdminOK DEF Start, DeleteStream, StartListener, StopListener
  <2>4. CASE RequestStop(a) \/ NotifyStopped(a) \/ FinishStop(a)
    <3>1. admin[a].op \in {"stop", "update", "reset", "delete"} /\ {"notify", "stopped", "wait"} \subseteq AdminSteps
      BY <2>4 DEF RequestStop, NotifyStopped, FinishStop, AdminOK, AdminSteps
    <3>2. \/ admin' = [admin EXCEPT ![a] = IdleAdmin]
          \/ \E st \in {"notify", "stopped", "wait"}: admin' = [admin EXCEPT ![a] = [admin[a] EXCEPT !.step = st]]
      BY <1>0, <2>4 DEF RequestStop, NotifyStopped, FinishStop
    <3> QED BY <2>1, <2>2, <3>1, <3>2, IdleAdminOK, StepAdminOK
  <2>5. CASE Stopped(a)
    <3>1. admin[a].op \in {"stop", "update", "reset", "delete"}
      BY <2>5 DEF Stopped, AdminOK
    <3>2. \/ admin' = [admin EXCEPT ![a] = IdleAdmin]
          \/ /\ admin[a].op # "stop"
             /\ admin' = [admin EXCEPT ![a] = [admin[a] EXCEPT !.step = NextStep(admin[a].op)]]
      BY <1>0, <2>5 DEF Stopped
    <3>3. CASE admin[a].op # "stop"
      <4>1. /\ NextStep(admin[a].op) \in AdminSteps \ {"idle", "add", "addStart", "stop", "notify", "wait", "stopped", "remove", "removeStop"}
            /\ NextStep(admin[a].op) = "reset" => admin[a].op = "reset"
        BY <3>1, <3>3 DEF NextStep, AdminSteps
      <4> QED BY <2>1, <2>2, <3>1, <3>2, <4>1, IdleAdminOK, StepAdminOK
    <3> QED BY <2>1, <3>2, <3>3, IdleAdminOK
  <2>6. CASE ResetCheckpoint(a)
    <3>1. admin[a].op = "reset" /\ "start" \in AdminSteps
      BY <2>6 DEF ResetCheckpoint, AdminOK, AdminSteps
    <3>2. \/ admin' = [admin EXCEPT ![a] = IdleAdmin]
          \/ admin' = [admin EXCEPT ![a] = [admin[a] EXCEPT !.step = "start"]]
      BY <1>0, <2>6 DEF ResetCheckpoint
    <3> QED BY <2>1, <2>2, <3>1, <3>2, IdleAdminOK, StepAdminOK
  <2> QED BY <1>4, <2>3, <2>4, <2>5, <2>6 DEF AdminNext, AdminStep
<1> QED BY <1>1, <1>2, <1>3, <1>4

LEMMA AdminInvariant == ASSUME TypeInv, AdminOK, [Next]_vars PROVE AdminOK'
<1>1. CASE \E a \in Admins: AdminNext(a)
  BY <1>1, AdminStepOK
<1>2. CASE PipeNext \/ BatchLoop \/ ServerNext \/ UNCHANGED vars
  <2>1. UNCHANGED admin
    BY <1>2, PipeFrame, BatchFrame, ServerFrame DEF streamVars, vars
  <2>2. \A l \in Listeners: lst'[l].st = lst[l].st
    <3>1. CASE \E b \in Admins: AddListener(b) \/ RemoveListener(b)
      <4>1. PICK b \in Admins: AddListener(b) \/ RemoveListener(b)
        BY <3>1
      <4>2. admin'[b] # admin[b]
        BY <4>1 DEF TypeInv, StreamTypes, AddListener, RemoveListener, IdleAdmin, AdminType
      <4> QED BY <2>1, <4>2
    <3> QED BY <3>1, StatesKept
  <2>3. \A b \in Admins: admin[b].step # "idle" => admin[b].l \in Listeners
    BY DEF TypeInv, StreamTypes
  <2> QED BY <2>1, <2>2, <2>3 DEF AdminOK
<1>3. CASE Crash
  BY <1>3 DEF Crash, AdminOK, IdleAdmin, ListenerOps
<1> QED BY <1>1, <1>2, <1>3, NextSplit

LEMMA IdleBatchTypes ==
    ASSUME setup \in Setups, NEW p \in {"none", "done", "poll"}
    PROVE  /\ IdleBatch(p) \in BatchType
           /\ Len(IdleBatch(p).events) <= BatchSize /\ (IdleBatch(p).pc = "poll" => Len(IdleBatch(p).events) < BatchSize)
BY IdleBatchType, SetupParts DEF BatchSize

\* Where a listener starts: behind its checkpoint, and without one events are passed
\* over only where it starts at the head.
LEMMA StartedFrom ==
    ASSUME TypeInv, StartOutcome("ok")
    PROVE  /\ scan' \in Positions /\ passed \subseteq passed' /\ passed' \subseteq Heads
           /\ \A l \in Listeners: lst[l].st = "in" =>
                /\ scan'[l] \in 0..MaxPos /\ stored[l] \in 0..MaxPos
                /\ stored[l] # 0 => scan'[l] <= stored[l]
                /\ \A e \in Events: stored[l] = 0 /\ e[1] = l /\ e[2] <= scan'[l] => e \in passed'
<1>1. /\ scan' \in Positions /\ stored \in Positions /\ passed \subseteq Heads
      /\ \A l \in Listeners: lst[l].st = "in" => scan'[l] \in From(l)
      /\ passed' = passed \cup {e \in Events: lst[e[1]].st = "in" /\ stored[e[1]] = 0 /\ e[2] <= scan'[e[1]]}
  BY DEF TypeInv, ListenerTypes, ConnectorTypes, StartOutcome, Positions
<1>2. ASSUME NEW e \in Events, lst[e[1]].st = "in", stored[e[1]] = 0, e[2] <= scan'[e[1]] PROVE e \in Heads
  <2>1. e[1] \in Listeners /\ e[2] \in 1..MaxPos
    BY EventParts
  <2>2. scan'[e[1]] \in FirstFrom(e[1])
    BY <1>1, <1>2, <2>1 DEF From
  <2>3. CASE ~StartsAtHead(e[1])
    <3>1. scan'[e[1]] = 0
      BY <2>2, <2>3 DEF FirstFrom
    <3> QED BY <1>2, <2>1, <3>1
  <2> QED BY <2>3 DEF Heads
<1>3. ASSUME NEW l \in Listeners, lst[l].st = "in", stored[l] # 0 PROVE scan'[l] <= stored[l]
  BY <1>1, <1>3 DEF From, Positions
<1>4. \A l \in Listeners: scan'[l] \in 0..MaxPos /\ stored[l] \in 0..MaxPos
  BY <1>1 DEF Positions
<1> QED BY <1>1, <1>2, <1>3, <1>4

LEMMA StartedNew ==
    ASSUME TypeInv, NEW a \in Admins, StartListener(a)
    PROVE  /\ admin[a].l \in Listeners /\ passed \subseteq passed' /\ passed' \subseteq Heads
           /\ \/ UNCHANGED <<known, scan, passed, lst>>
              \/ \E s \in 0..MaxPos:
                   /\ known' = known \cup {admin[a].l} /\ scan' = [scan EXCEPT ![admin[a].l] = s]
                   /\ lst' = [lst EXCEPT ![admin[a].l].started = TRUE]
                   /\ \A e \in Events: e[1] = admin[a].l /\ e[2] <= s => e \in passed'
<1> DEFINE k == admin[a].l
<1>1. k \in Listeners /\ scan[k] \in 0..MaxPos /\ passed \subseteq Heads /\ MaxPos \in Nat
  BY MaxPosAssumption DEF TypeInv, StreamTypes, ConnectorTypes, Positions, StartListener
<1>2. CASE UNCHANGED <<known, scan, passed, lst>>
  BY <1>1, <1>2
<1>3. CASE ~UNCHANGED <<known, scan, passed, lst>>
  <2>1. PICK s \in FirstFrom(k): /\ known' = known \cup {k} /\ scan' = [scan EXCEPT ![k] = s]
                                 /\ passed' = passed \cup {<<k, p>>: p \in 1..s}
                                 /\ lst' = [lst EXCEPT ![k].started = TRUE]
    BY <1>3 DEF StartListener
  <2>2. s \in 0..MaxPos /\ (s # 0 => StartsAtHead(k))
    BY <1>1, <2>1 DEF FirstFrom
  <2>3. \A p \in 1..s: <<k, p>> \in Heads
    <3>1. ASSUME NEW p \in 1..s PROVE <<k, p>> \in Events /\ StartsAtHead(k)
      <4>1. p \in 1..MaxPos /\ s # 0
        BY <1>1, <2>2
      <4> QED BY <1>1, <2>2, <4>1, EventParts
    <3> QED BY <3>1 DEF Heads
  <2>4. \A e \in Events: e[1] = k /\ e[2] <= s => e \in passed'
    <3>1. ASSUME NEW e \in Events, e[1] = k, e[2] <= s PROVE e \in {<<k, p>>: p \in 1..s}
      <4>1. e = <<k, e[2]>> /\ e[2] \in 1..MaxPos
        BY <3>1, EventParts
      <4>2. e[2] \in 1..s
        BY <2>2, <3>1, <4>1
      <4> QED BY <4>1, <4>2
    <3> QED BY <2>1, <3>1
  <2> QED BY <1>1, <2>1, <2>2, <2>3, <2>4
<1> QED BY <1>2, <1>3

LEMMA AdminOthers ==
    ASSUME TypeInv, NEW a \in Admins, AdminNext(a)
    PROVE  ServerTypes' /\ ListenerTypes' /\ ConnectorTypes' /\ PipeTypes' /\ BatchTypes'
<1>0. /\ setup \in Setups /\ setup' = setup /\ setup.batch \in Nat \ {0}
      /\ lst \in [Listeners -> ListenerType] /\ stored \in Positions
      /\ known \subseteq Listeners /\ scan \in Positions /\ last \in Positions
      /\ passed \subseteq Heads /\ Heads' = Heads
      /\ admin[a].step # "idle" => admin[a].l \in Listeners
      /\ NoCps \in Positions /\ 0 \in 0..MaxPos
      /\ UNCHANGED <<wsVars, setup, gone, pending, pushing, batchChannel, batchNumber, dropped, skipped>>
      /\ UNCHANGED bounds \/ Trouble
  BY AdminFrame, IdleBatchType, SetupParts, MaxPosAssumption
     DEF TypeInv, StreamTypes, ListenerTypes, ConnectorTypes, Heads, StartsAtHead, IsBlocks
<1>1. ServerTypes'
  BY <1>0, BoundsType DEF TypeInv, ServerTypes, wsVars
<1>2. CASE Start(a) /\ status = "stopped"
  <2>1. PICK o \in StartOutcomes: StartOutcome(o)
    BY <1>2 DEF Start
  <2>2. o \in {"ok", "connector", "checkpoint"} /\ UNCHANGED stored
    BY <1>2 DEF StartOutcomes, Start
  <2>3. CASE o = "ok"
    <3>1. /\ updates' = << >> /\ loop' = "run" /\ bl' = IdleBatch("poll")
          /\ known' = {l \in Listeners: lst[l].st = "in"} /\ scan' \in Positions /\ last' = NoCps
          /\ lst' = [l \in Listeners |-> [lst[l] EXCEPT !.started = lst[l].st = "in"]]
          /\ passed' \subseteq Heads
      BY <2>1, <2>3, StartedFrom DEF StartOutcome, Positions
    <3>2. lst' \in [Listeners -> ListenerType]
      BY <1>0, <3>1 DEF ListenerType
    <3>3. ListenerTypes' /\ ConnectorTypes'
      BY <1>0, <2>2, <3>1, <3>2 DEF ListenerTypes, ConnectorTypes, TypeInv
    <3>4. PipeTypes'
      BY <1>0, <3>1 DEF PipeTypes, TypeInv, BatchSize
    <3>5. BatchTypes'
      BY <1>0, <3>1, IdleBatchTypes DEF BatchTypes, TypeInv, BatchSize
    <3> QED BY <1>1, <3>3, <3>4, <3>5
  <2>4. CASE o = "connector"
    BY <1>0, <1>1, <2>1, <2>2, <2>4 DEF StartOutcome, TypeInv, ListenerTypes, ConnectorTypes, PipeTypes, BatchTypes, BatchSize
  <2>5. CASE o = "checkpoint"
    <3>1. bl' = IdleBatch("none") /\ updates' = << >> /\ loop' = "none" /\ UNCHANGED <<known, scan, last, passed, lst>>
      BY <2>1, <2>5 DEF StartOutcome
    <3>2. BatchTypes'
      BY <1>0, <3>1, IdleBatchTypes DEF BatchTypes, TypeInv, BatchSize
    <3> QED BY <1>0, <1>1, <2>2, <3>1, <3>2 DEF TypeInv, ListenerTypes, ConnectorTypes, PipeTypes, BatchSize
  <2> QED BY <2>2, <2>3, <2>4, <2>5
<1>3. ASSUME ~(Start(a) /\ status = "stopped")
      PROVE  /\ UNCHANGED <<updates, loop, bl, last>>
             /\ known' \subseteq Listeners /\ scan' \in Positions /\ passed' \subseteq Heads
             /\ lst' \in [Listeners -> ListenerType] /\ stored' \in Positions
  <2>1. CASE Begin(a) \/ RequestStop(a) \/ Stopped(a)
    BY <1>0, <2>1 DEF Begin, RequestStop, Stopped, listenerVars, connectorVars, pipeVars, batchVars
  <2>2. CASE Start(a)
    BY <1>0, <1>3, <2>2 DEF Start
  <2>3. CASE NotifyStopped(a)
    BY <1>0, <2>3 DEF NotifyStopped, listenerVars, pipeVars, batchVars
  <2>4. CASE FinishStop(a)
    <3>1. lst' \in [Listeners -> ListenerType]
      BY <1>0, <2>4 DEF FinishStop, ListenerType
    <3> QED BY <1>0, <2>4, <3>1 DEF FinishStop, connectorVars, pipeVars, batchVars
  <2>5. CASE ResetCheckpoint(a)
    <3>1. lst' = [lst EXCEPT ![admin[a].l].cp = 0, ![admin[a].l].src = "event"]
      BY <2>5 DEF ResetCheckpoint
    <3>2. lst' \in [Listeners -> ListenerType]
      <4> DEFINE k == admin[a].l
      <4>1. lst' = [lst EXCEPT ![k] = [lst[k] EXCEPT !.cp = 0, !.src = "event"]]
        BY <1>0, <3>1
      <4>2. k \in Listeners => [lst[k] EXCEPT !.cp = 0, !.src = "event"] \in ListenerType
        BY <1>0, MaxPosAssumption DEF ListenerType
      <4> HIDE DEF k
      <4> QED BY <1>0, <4>1, <4>2
    <3>3. stored' \in Positions
      BY <1>0, <2>5 DEF ResetCheckpoint, Positions
    <3> QED BY <1>0, <2>5, <3>2, <3>3 DEF ResetCheckpoint, connectorVars, pipeVars, batchVars
  <2>6. CASE DeleteStream(a)
    BY <1>0, <2>6 DEF DeleteStream, connectorVars, pipeVars, batchVars
  <2>7. CASE AddListener(a) \/ RemoveListener(a)
    <3>1. lst' \in [Listeners -> ListenerType]
      <4>1. CASE AddListener(a)
        BY <1>0, <4>1 DEF AddListener, ListenerType
      <4>2. CASE RemoveListener(a)
        BY <1>0, <4>2 DEF RemoveListener, ListenerType
      <4> QED BY <2>7, <4>1, <4>2
    <3> QED BY <1>0, <2>7, <3>1 DEF AddListener, RemoveListener, connectorVars, pipeVars, batchVars
  <2>8. CASE StartListener(a)
    <3>1. admin[a].l \in Listeners /\ passed' \subseteq Heads
      BY <2>8, StartedNew
    <3>2. lst' \in [Listeners -> ListenerType]
      <4>1. lst' = [lst EXCEPT ![admin[a].l].started = TRUE] \/ UNCHANGED lst
        BY <2>8, StartedNew
      <4>2. lst[admin[a].l] \in ListenerType /\ [lst[admin[a].l] EXCEPT !.started = TRUE] \in ListenerType
        BY <1>0, <3>1 DEF ListenerType
      <4>3. lst' = [lst EXCEPT ![admin[a].l] = [lst[admin[a].l] EXCEPT !.started = TRUE]] \/ UNCHANGED lst
        BY <4>1
      <4> QED BY <1>0, <4>2, <4>3
    <3>3. known' \subseteq Listeners /\ scan' \in Positions
      BY <1>0, <2>8, StartedNew DEF Positions
    <3> QED BY <1>0, <2>8, <3>1, <3>2, <3>3 DEF StartListener, pipeVars, batchVars
  <2>9. CASE StopListener(a)
    <3>1. lst' \in [Listeners -> ListenerType]
      <4>1. lst' = [lst EXCEPT ![admin[a].l].started = FALSE]
        BY <2>9 DEF StopListener
      <4> QED BY <1>0, <4>1 DEF ListenerType
    <3> QED BY <1>0, <2>9, <3>1 DEF StopListener, pipeVars, batchVars
  <2> QED BY <2>1, <2>2, <2>3, <2>4, <2>5, <2>6, <2>7, <2>8, <2>9 DEF AdminNext, AdminStep
<1>4. CASE ~(Start(a) /\ status = "stopped")
  BY <1>0, <1>1, <1>3, <1>4 DEF TypeInv, ListenerTypes, ConnectorTypes, PipeTypes, BatchTypes, BatchSize
<1> QED BY <1>2, <1>4

LEMMA PipeStepTypes ==
    ASSUME TypeInv, PipeNext
    PROVE  ServerTypes' /\ StreamTypes' /\ ListenerTypes' /\ ConnectorTypes' /\ PipeTypes' /\ BatchTypes'
<1>0. /\ setup \in Setups /\ setup' = setup /\ setup.batch \in Nat \ {0}
      /\ UNCHANGED <<wsVars, streamVars, listenerVars, known, passed, bl, batchNumber, skipped>> /\ Heads' = Heads
      /\ UNCHANGED bounds \/ Trouble
      /\ updates \in Seq([ev: Events, removed: BOOLEAN]) /\ Len(updates) <= BatchSize
      /\ batchChannel \in Seq(Events) /\ Len(batchChannel) <= BatchSize /\ pending \subseteq Events
      /\ pushing \in Events \cup {None} /\ loop \in {"run", "done", "none"}
      /\ scan \in Positions /\ last \in Positions /\ gone \subseteq Events
      /\ dropped \subseteq Events /\ BatchSize \in Nat /\ BatchSize' = BatchSize
  BY PipeFrame, SetupParts DEF TypeInv, StreamTypes, ConnectorTypes, PipeTypes, BatchTypes, streamVars, BatchSize,
                               Heads, StartsAtHead, IsBlocks
<1>1. ServerTypes' /\ StreamTypes' /\ ListenerTypes'
  BY <1>0, BoundsType DEF TypeInv, ServerTypes, StreamTypes, ListenerTypes, wsVars, streamVars, listenerVars
<1>2. /\ scan' \in Positions /\ last' \in Positions /\ gone' \subseteq Events /\ dropped' \subseteq Events
      /\ PipeTypes'
  <2>1. CASE EventLoop
    <3>1. updates' = Tail(updates) /\ updates # << >> /\ UNCHANGED <<loop, batchChannel, scan, last, gone>>
      BY <2>1 DEF EventLoop, connectorVars
    <3>2. Tail(updates) \in Seq([ev: Events, removed: BOOLEAN]) /\ Len(Tail(updates)) <= BatchSize
          /\ Head(updates) \in [ev: Events, removed: BOOLEAN]
      <4> DEFINE U == [ev: Events, removed: BOOLEAN]
      <4>1. updates \in Seq(U) /\ updates # << >> /\ Len(updates) <= BatchSize /\ BatchSize \in Nat
        BY <1>0, <3>1
      <4> HIDE DEF U
      <4>2. Tail(updates) \in Seq(U) /\ Len(Tail(updates)) < BatchSize /\ Head(updates) \in U
        BY <4>1, TailLimit
      <4>3. Len(Tail(updates)) \in Nat
        BY <4>2, LenProperties
      <4> QED BY <1>0, <4>2, <4>3 DEF U
    <3>3. pending' \subseteq Events /\ pushing' \in Events \cup {None} /\ dropped' \subseteq Events
      BY <1>0, <2>1, <3>2 DEF EventLoop
    <3> QED BY <1>0, <3>1, <3>2, <3>3 DEF PipeTypes
  <2>2. CASE EventLoopExits
    BY <1>0, <2>2 DEF EventLoopExits, connectorVars, batchVars, PipeTypes
  <2>3. CASE Push
    <3>1. /\ pushing # None /\ batchChannel' = Append(batchChannel, pushing) /\ pushing' = None /\ Len(batchChannel) < BatchSize
          /\ UNCHANGED <<updates, loop, pending, scan, last, gone, dropped>>
      BY <2>3 DEF Push, connectorVars, batchVars
    <3>2. Append(batchChannel, pushing) \in Seq(Events) /\ Len(Append(batchChannel, pushing)) <= BatchSize
      BY <1>0, <3>1, SeqLimit
    <3> QED BY <1>0, <3>1, <3>2 DEF PipeTypes
  <2>4. ASSUME NEW l \in Listeners, Confirm(l)
        PROVE  /\ scan' \in Positions /\ last' \in Positions /\ gone' \subseteq Events /\ dropped' \subseteq Events
               /\ PipeTypes'
    BY <1>0, <2>4 DEF Confirm, connectorVars, batchVars, PipeTypes
  <2>5. ASSUME NEW l \in Listeners, Detect(l)
        PROVE  /\ scan' \in Positions /\ last' \in Positions /\ gone' \subseteq Events /\ dropped' \subseteq Events
               /\ PipeTypes'
    <3>1. scan[l] + 1 \in 0..MaxPos /\ scan' = [scan EXCEPT ![l] = scan[l] + 1]
      BY <1>0, <2>5, MaxPosAssumption DEF Detect, Positions
    <3>2. scan' \in Positions /\ UNCHANGED <<gone, dropped, loop, pending, pushing>>
      BY <1>0, <2>5, <3>1 DEF Detect, Positions, batchVars
    <3>3. /\ last' \in Positions
          /\ \/ UNCHANGED updates
             \/ Len(updates) < BatchSize /\ \E e \in [ev: Events, removed: BOOLEAN]: updates' = Append(updates, e)
          /\ \/ UNCHANGED batchChannel
             \/ Len(batchChannel) < BatchSize /\ \E e \in Events: batchChannel' = Append(batchChannel, e)
      <4>1. CASE UNCHANGED <<updates, batchChannel, last>>
        BY <1>0, <4>1
      <4>2. ASSUME scan[l] + 1 \in Logs[l] PROVE <<l, scan[l] + 1>> \in Events
        <5>1. scan[l] + 1 \in 1..MaxPos
          BY <4>2, LogsAssumption
        <5> QED BY <5>1, EventParts
      <4>3. CASE scan[l] + 1 \in Logs[l]
        BY <1>0, <2>5, <3>1, <4>2, <4>3 DEF Detect, Positions
      <4> QED BY <2>5, <4>1, <4>3 DEF Detect
    <3>4. updates' \in Seq([ev: Events, removed: BOOLEAN]) /\ Len(updates') <= BatchSize
      <4>1. CASE UNCHANGED updates
        BY <1>0, <4>1
      <4>2. ASSUME Len(updates) < BatchSize, NEW u \in [ev: Events, removed: BOOLEAN], updates' = Append(updates, u)
            PROVE  updates' \in Seq([ev: Events, removed: BOOLEAN]) /\ Len(updates') <= BatchSize
        BY <1>0, <4>2, SeqLimit
      <4> QED BY <3>3, <4>1, <4>2
    <3>5. batchChannel' \in Seq(Events) /\ Len(batchChannel') <= BatchSize
      <4>1. CASE UNCHANGED batchChannel
        BY <1>0, <4>1
      <4>2. ASSUME Len(batchChannel) < BatchSize, NEW e \in Events, batchChannel' = Append(batchChannel, e)
            PROVE  batchChannel' \in Seq(Events) /\ Len(batchChannel') <= BatchSize
        BY <1>0, <4>2, SeqLimit
      <4> QED BY <3>3, <4>1, <4>2
    <3> QED BY <1>0, <3>2, <3>3, <3>4, <3>5 DEF PipeTypes
  <2>6. ASSUME NEW e \in RealEvents, Reorganise(e)
        PROVE  /\ scan' \in Positions /\ last' \in Positions /\ gone' \subseteq Events /\ dropped' \subseteq Events
               /\ PipeTypes'
    <3>1. /\ updates' = Append(updates, [ev |-> e, removed |-> TRUE]) /\ Len(updates) < BatchSize /\ e \in Events
          /\ gone' = gone \cup {e} /\ UNCHANGED <<scan, last, loop, pending, pushing, batchChannel, dropped>>
      BY <2>6, EventParts DEF Reorganise, batchVars
    <3>2. updates' \in Seq([ev: Events, removed: BOOLEAN]) /\ Len(updates') <= BatchSize
      BY <1>0, <3>1, SeqLimit
    <3> QED BY <1>0, <3>1, <3>2 DEF PipeTypes
  <2> QED BY <2>1, <2>2, <2>3, <2>4, <2>5, <2>6 DEF PipeNext, Pipeline
<1> QED BY <1>0, <1>1, <1>2 DEF ConnectorTypes, BatchTypes, TypeInv

\* A step of the batch loop that only goes on to another program counter.
LEMMA GotoTypes ==
    ASSUME bl \in BatchType, NEW p \in {"act", "ack", "backoff", "gen"}, Goto(p)
    PROVE  bl' \in BatchType /\ bl' = [bl EXCEPT !.pc = p] /\ bl'.events = bl.events /\ bl'.pc = p
           /\ bl'.cps = bl.cps /\ bl'.cp = bl.cp /\ bl'.stale = bl.stale /\ bl'.hwm = bl.hwm
           /\ UNCHANGED <<batchNumber, dropped>>
BY DEF Goto, BatchType

LEMMA PollEventStep ==
    ASSUME TypeInv, PollEvent
    PROVE  /\ Head(batchChannel) \in Events
           /\ ~Deliverable(Head(batchChannel)) => UNCHANGED <<bl, batchNumber>>
           /\ Deliverable(Head(batchChannel)) =>
                /\ bl' \in BatchType
                /\ bl'.events = Append(bl.events, Head(batchChannel)) /\ Len(bl'.events) <= BatchSize
                /\ bl'.pc \in {"poll", "act"} /\ (bl'.pc = "poll" => Len(bl'.events) < BatchSize)
                /\ bl'.cps = [bl.cps EXCEPT ![Head(batchChannel)[1]] = Head(batchChannel)[2]]
                /\ UNCHANGED <<bl.cp, bl.stale, bl.hwm>>
                /\ batchNumber' = IF bl.events = << >> THEN batchNumber + 1 ELSE batchNumber
<1> DEFINE e == Head(batchChannel)
           evs == Append(bl.events, e)
<1>1. bl \in BatchType /\ bl.events \in Seq(Events) /\ bl.cps \in Positions /\ Len(bl.events) < BatchSize
  BY DEF TypeInv, BatchTypes, BatchType, PollEvent
<1>2. e \in Events
  BY TailLimit, TailRange DEF TypeInv, PipeTypes, PollEvent
<1>3. /\ evs \in Seq(Events) /\ Len(evs) = Len(bl.events) + 1 /\ Len(bl.events) \in Nat /\ BatchSize \in Nat
      /\ e[1] \in Listeners /\ e[2] \in 0..MaxPos
  BY <1>1, <1>2, AppendRange, EventParts, MaxPosAssumption, SetupParts DEF TypeInv, StreamTypes, BatchSize
<1>4. CASE Deliverable(e)
  <2> HIDE DEF e
  <2>1. bl' = [bl EXCEPT !.events = evs, !.cps[e[1]] = e[2],
                         !.pc = IF Len(evs) >= BatchSize THEN "act" ELSE "poll"]
        /\ batchNumber' = IF bl.events = << >> THEN batchNumber + 1 ELSE batchNumber
    BY <1>4 DEF PollEvent, e
  <2> HIDE DEF evs
  <2>2. bl'.events = evs /\ bl'.cps = [bl.cps EXCEPT ![e[1]] = e[2]]
        /\ bl'.pc = (IF Len(evs) >= BatchSize THEN "act" ELSE "poll") /\ UNCHANGED <<bl.cp, bl.stale, bl.hwm>>
    BY <1>1, <2>1 DEF BatchType
  <2>3. [bl.cps EXCEPT ![e[1]] = e[2]] \in Positions
    BY <1>1, <1>3 DEF Positions
  <2>4. bl' \in BatchType
    BY <1>1, <1>3, <2>1, <2>3 DEF BatchType
  <2> QED BY <1>1, <1>2, <1>3, <1>4, <2>1, <2>2, <2>4 DEF e, evs
<1> QED BY <1>2, <1>4 DEF PollEvent

LEMMA GenerateStep ==
    ASSUME TypeInv, GenerateCheckpoint
    PROVE  /\ lst' \in [Listeners -> ListenerType] /\ bl' \in BatchType
           /\ \A l \in Listeners: lst'[l] = IF lst[l].st = "in" /\ bl.cps[l] # 0
                                            THEN [lst[l] EXCEPT !.cp = bl.cps[l], !.src = "event"] ELSE lst[l]
           /\ bl'.events = << >> /\ bl'.cps = NoCps /\ bl'.pc = "hwm" /\ bl'.hwm = << >>
           /\ \A l \in Listeners: bl'.cp[l] = IF lst'[l].st = "in" THEN lst'[l].cp ELSE 0
           /\ \A l \in bl'.stale: l \in Listeners /\ ~IsBlocks(l)
           /\ bl.pc = "gen" /\ UNCHANGED <<wsVars, streamVars, stored, connectorVars, pipeVars, batchNumber,
                                           dropped, skipped, bounds>>
<1> DEFINE now == [l \in Listeners |->
                     IF lst[l].st = "in" /\ bl.cps[l] # 0
                     THEN [lst[l] EXCEPT !.cp = bl.cps[l], !.src = "event"] ELSE lst[l]]
           cp == [l \in Listeners |-> IF now[l].st = "in" THEN now[l].cp ELSE 0]
<1>0. bl \in BatchType /\ bl.cps \in Positions /\ lst \in [Listeners -> ListenerType]
  BY DEF TypeInv, BatchTypes, BatchType, ListenerTypes
<1>1. now \in [Listeners -> ListenerType]
  BY <1>0 DEF ListenerType, Positions
<1>2. cp \in Positions
  <2> HIDE DEF now
  <2> QED BY <1>1, MaxPosAssumption DEF Positions, ListenerType
<1>3. PICK stale \in SUBSET {l \in Listeners: now[l].st = "in" /\ now[l].started /\ ~IsBlocks(l)}:
          bl' = [IdleBatch("hwm") EXCEPT !.stale = stale, !.cp = cp]
  BY DEF GenerateCheckpoint
<1>4. lst' = now
  BY DEF GenerateCheckpoint
<1>5. stale \subseteq Listeners /\ \A l \in stale: ~IsBlocks(l)
  BY <1>3
<1>6. \A l \in Listeners: lst'[l] = IF lst[l].st = "in" /\ bl.cps[l] # 0
                                    THEN [lst[l] EXCEPT !.cp = bl.cps[l], !.src = "event"] ELSE lst[l]
  BY <1>4
<1>7. \A l \in Listeners: cp[l] = IF lst'[l].st = "in" THEN lst'[l].cp ELSE 0
  <2> HIDE DEF now
  <2> QED BY <1>4
<1> HIDE DEF now, cp
<1>8. /\ bl' \in BatchType /\ bl'.events = << >> /\ bl'.cps = NoCps /\ bl'.pc = "hwm" /\ bl'.hwm = << >>
      /\ bl'.cp = cp /\ bl'.stale = stale
  BY <1>2, <1>3, <1>5, IdleBatchType DEF BatchType
<1> QED BY <1>1, <1>4, <1>5, <1>6, <1>7, <1>8 DEF GenerateCheckpoint

LEMMA QueryStep ==
    ASSUME TypeInv, NEW l \in Listeners, QueryHWM(l)
    PROVE  /\ bl' \in BatchType
           /\ bl.pc = "hwm" /\ l \in bl.stale /\ bl.hwm = << >>
           /\ UNCHANGED <<bl.pc, bl.events, bl.cps>>
           /\ l \in known => /\ bl'.hwm = <<l, scan[l], IF setup.tracks THEN last[l] ELSE 0>>
                             /\ UNCHANGED <<bl.cp, bl.stale>>
           /\ l \notin known => /\ bl'.hwm = << >> /\ bl'.stale = bl.stale \ {l}
                                /\ bl'.cp = [bl.cp EXCEPT ![l] = IF lst[l].cp # 0 THEN lst[l].cp ELSE @]
           /\ UNCHANGED <<wsVars, streamVars, listenerVars, connectorVars, pipeVars, batchNumber, dropped,
                          skipped, bounds>>
<1>0. bl \in BatchType /\ bl.cp \in Positions /\ lst[l] \in ListenerType /\ scan[l] \in 0..MaxPos /\ last[l] \in 0..MaxPos
  BY DEF TypeInv, BatchTypes, BatchType, ListenerTypes, ConnectorTypes, Positions
<1>1. CASE l \in known
  <2> DEFINE h == <<l, scan[l], IF setup.tracks THEN last[l] ELSE 0>>
  <2>1. h \in Listeners \X (0..MaxPos) \X (0..MaxPos)
    BY <1>0, MaxPosAssumption
  <2>2. bl' = [bl EXCEPT !.hwm = h]
    BY <1>1 DEF QueryHWM
  <2> HIDE DEF h
  <2>3. /\ bl' \in BatchType /\ bl'.hwm = h
        /\ UNCHANGED <<bl.pc, bl.events, bl.cps, bl.cp, bl.stale>>
    BY <1>0, <2>1, <2>2 DEF BatchType
  <2> QED BY <1>1, <2>3 DEF QueryHWM, h
<1>2. CASE l \notin known
  <2> DEFINE c == [bl.cp EXCEPT ![l] = IF lst[l].cp # 0 THEN lst[l].cp ELSE @]
             S == bl.stale \ {l}
  <2>1. c \in Positions /\ S \in SUBSET Listeners
    BY <1>0 DEF Positions, ListenerType, BatchType
  <2>2. bl' = [bl EXCEPT !.stale = S, !.cp = c] /\ bl.hwm = << >>
    BY <1>0, <1>2 DEF QueryHWM, BatchType
  <2> HIDE DEF c, S
  <2>3. bl' \in BatchType /\ bl'.cp = c /\ bl'.stale = S /\ UNCHANGED <<bl.pc, bl.events, bl.cps, bl.hwm>>
    BY <1>0, <2>1, <2>2 DEF BatchType
  <2> QED BY <1>2, <2>2, <2>3 DEF QueryHWM, c, S
<1> QED BY <1>1, <1>2

LEMMA ApplyStep ==
    ASSUME TypeInv, ApplyHWM
    PROVE  /\ lst' \in [Listeners -> ListenerType] /\ bl' \in BatchType
           /\ bl.pc = "hwm" /\ bl.hwm # << >>
           /\ bl.hwm[1] \in Listeners /\ bl.hwm[2] \in 0..MaxPos /\ bl.hwm[3] \in 0..MaxPos
           /\ UNCHANGED <<bl.pc, bl.events, bl.cps>> /\ bl'.hwm = << >> /\ bl'.stale = bl.stale \ {bl.hwm[1]}
           /\ \A k \in Listeners: k # bl.hwm[1] => lst'[k] = lst[k] /\ bl'.cp[k] = bl.cp[k]
           /\ HWMSafeToApply(bl.hwm[1], bl.hwm[3]) =>
                 /\ lst'[bl.hwm[1]] = [lst[bl.hwm[1]] EXCEPT !.cp = bl.hwm[2], !.src = "hwm"]
                 /\ bl'.cp[bl.hwm[1]] \in {bl.hwm[2], bl.cp[bl.hwm[1]]}
           /\ ~HWMSafeToApply(bl.hwm[1], bl.hwm[3]) =>
                 /\ UNCHANGED lst
                 /\ bl'.cp[bl.hwm[1]] \in {lst[bl.hwm[1]].cp, bl.cp[bl.hwm[1]]}
           /\ UNCHANGED <<wsVars, streamVars, stored, connectorVars, pipeVars, batchNumber, dropped,
                          skipped, bounds>>
<1> DEFINE l == bl.hwm[1]
           pos == bl.hwm[2]
           safe == HWMSafeToApply(l, bl.hwm[3])
           cp == IF safe THEN pos ELSE lst[l].cp
           c == [bl.cp EXCEPT ![l] = IF cp # 0 THEN cp ELSE @]
           S == bl.stale \ {l}
<1>0. /\ bl \in BatchType /\ bl.cp \in Positions /\ lst \in [Listeners -> ListenerType] /\ bl.hwm # << >>
      /\ bl.hwm \in {<< >>} \cup (Listeners \X (0..MaxPos) \X (0..MaxPos))
  BY DEF TypeInv, BatchTypes, BatchType, ListenerTypes, ApplyHWM
<1>1. l \in Listeners /\ pos \in 0..MaxPos /\ bl.hwm[3] \in 0..MaxPos
  BY <1>0
<1>2. /\ lst' = IF safe THEN [lst EXCEPT ![l].cp = pos, ![l].src = "hwm"] ELSE lst
      /\ bl' = [bl EXCEPT !.hwm = << >>, !.stale = S, !.cp = c]
  BY <1>0 DEF ApplyHWM, BatchType
<1>3. cp \in 0..MaxPos
  BY <1>0, <1>1 DEF ListenerType
<1>4. c \in Positions /\ S \in SUBSET Listeners /\ (\A k \in Listeners: k # l => c[k] = bl.cp[k]) /\ c[l] \in {cp, bl.cp[l]}
  <2> HIDE DEF cp
  <2> QED BY <1>0, <1>1, <1>3 DEF Positions, BatchType
<1>5. safe => cp = pos
  OBVIOUS
<1>6. ~safe => cp = lst[l].cp
  OBVIOUS
<1> HIDE DEF safe, cp, c, S, l, pos
<1>7. /\ bl' \in BatchType /\ bl'.cp = c /\ bl'.stale = S /\ bl'.hwm = << >> /\ UNCHANGED <<bl.pc, bl.events, bl.cps>>
  BY <1>0, <1>2, <1>4, EmptyRange DEF BatchType
<1>8. /\ lst' \in [Listeners -> ListenerType] /\ \A k \in Listeners: k # l => lst'[k] = lst[k]
      /\ safe => lst'[l] = [lst[l] EXCEPT !.cp = pos, !.src = "hwm"]
      /\ ~safe => UNCHANGED lst
  <2>1. CASE safe
    <3>1. lst' = [lst EXCEPT ![l] = [lst[l] EXCEPT !.cp = pos, !.src = "hwm"]]
      BY <1>0, <1>1, <1>2, <2>1
    <3>2. [lst[l] EXCEPT !.cp = pos, !.src = "hwm"] \in ListenerType
      <4>1. lst[l] \in ListenerType /\ pos \in 0..MaxPos
        BY <1>0, <1>1
      <4> QED BY <4>1 DEF ListenerType
    <3> DEFINE r == [lst[l] EXCEPT !.cp = pos, !.src = "hwm"]
    <3>3. r = [lst[l] EXCEPT !.cp = pos, !.src = "hwm"] /\ r \in ListenerType /\ lst' = [lst EXCEPT ![l] = r]
      BY <3>1, <3>2
    <3> HIDE DEF r
    <3>4. /\ lst' \in [Listeners -> ListenerType] /\ lst'[l] = r
          /\ \A k \in Listeners: k # l => lst'[k] = lst[k]
      BY <1>0, <1>1, <3>3
    <3> QED BY <2>1, <3>3, <3>4
  <2>2. CASE ~safe
    BY <1>0, <1>2, <2>2
  <2> QED BY <2>1, <2>2
<1>9. /\ safe = HWMSafeToApply(bl.hwm[1], bl.hwm[3]) /\ S = bl.stale \ {bl.hwm[1]} /\ l = bl.hwm[1] /\ pos = bl.hwm[2]
  BY DEF safe, S, l, pos
<1>10. bl.pc = "hwm" /\ UNCHANGED <<wsVars, streamVars, stored, connectorVars, pipeVars, batchNumber, dropped,
                                    skipped, bounds>>
  BY DEF ApplyHWM
<1> QED BY <1>0, <1>1, <1>4, <1>5, <1>6, <1>7, <1>8, <1>9, <1>10

LEMMA RangeSub == ASSUME NEW S, NEW q \in Seq(S) PROVE Range(q) \subseteq S
BY RangeOut

LEMMA ExitTypes ==
    ASSUME TypeInv, NEW lost \in SUBSET Events, Exit(lost)
    PROVE  /\ bl' \in BatchType /\ bl'.events = << >> /\ bl'.pc = "done" /\ bl'.cps = NoCps /\ bl'.cp = NoCps
           /\ bl'.stale = {} /\ bl'.hwm = << >>
           /\ dropped' = dropped \cup lost /\ dropped' \subseteq Events /\ UNCHANGED <<batchNumber, skipped>>
BY IdleBatchType DEF Exit, TypeInv, BatchTypes

\* What the steps of the batch loop that act on a batch leave alone.
LEMMA ActStep ==
    ASSUME TypeInv,
           \/ PollTimeout \/ Post \/ Broadcast \/ WaitForAck \/ ActionInterrupted \/ RetryAction
           \/ (GiveUp /\ setup.onError = "skip") \/ \E c \in Conns: SendBatch(c)
    PROVE  /\ bl' \in BatchType /\ UNCHANGED <<bl.events, bl.cps, bl.cp, bl.stale, bl.hwm, batchNumber, dropped>>
           /\ bl'.pc \in {"act", "ack", "backoff", "gen"}
           /\ UNCHANGED <<listenerVars, batchChannel, streamVars, connectorVars, pipeVars, bounds>>
<1>0. bl \in BatchType
  BY DEF TypeInv, BatchTypes
<1>1. CASE PollTimeout
  <2>1. \E p \in {"act", "gen"}: bl' = [bl EXCEPT !.pc = p]
    BY <1>1 DEF PollTimeout
  <2>2. bl' \in BatchType /\ UNCHANGED <<bl.events, bl.cps, bl.cp, bl.stale, bl.hwm>> /\ bl'.pc \in {"act", "gen"}
    BY <1>0, <2>1 DEF BatchType
  <2> QED BY <1>1, <2>2 DEF PollTimeout, pipeVars
<1>2. CASE WaitForAck
  <2>1. UNCHANGED <<bl, batchNumber, dropped>> \/ Goto("backoff") \/ Goto("gen")
    BY <1>2 DEF WaitForAck
  <2>2. bl.pc = "ack" /\ UNCHANGED <<listenerVars, batchChannel, streamVars, connectorVars, pipeVars, bounds>>
    BY <1>2 DEF WaitForAck, pipeVars
  <2>3. CASE UNCHANGED <<bl, batchNumber, dropped>>
    BY <1>0, <2>2, <2>3
  <2>4. CASE Goto("backoff") \/ Goto("gen")
    BY <1>0, <2>2, <2>4, GotoTypes
  <2> QED BY <2>1, <2>3, <2>4
<1>3. CASE \/ Post \/ Broadcast \/ ActionInterrupted \/ RetryAction \/ (GiveUp /\ setup.onError = "skip")
           \/ \E c \in Conns: SendBatch(c)
  <2>1. \E p \in {"act", "ack", "backoff", "gen"}: Goto(p)
    BY <1>3 DEF Post, Broadcast, ActionInterrupted, RetryAction, GiveUp, SendBatch
  <2>2. UNCHANGED <<listenerVars, batchChannel, streamVars, connectorVars, pipeVars, bounds>>
    BY <1>3 DEF Post, Broadcast, ActionInterrupted, RetryAction, GiveUp, SendBatch, pipeVars
  <2> QED BY <1>0, <2>1, <2>2, GotoTypes
<1> QED BY <1>1, <1>2, <1>3

\* What they do to the server, and to what was given up.
LEMMA ActServer ==
    ASSUME TypeInv,
           \/ Post \/ Broadcast \/ WaitForAck \/ ActionInterrupted \/ RetryAction
           \/ (GiveUp /\ setup.onError = "skip") \/ \E c \in Conns: SendBatch(c)
    PROVE  ServerTypes' /\ skipped' \subseteq Events
<1>0. /\ bl \in BatchType /\ skipped \subseteq Events /\ BatchEvents \subseteq Events /\ batchNumber \in Nat
      /\ Message \in MsgType /\ received \subseteq Events
      /\ conn \in [Conns -> ConnType] /\ receiver \in Seq(Nat) /\ Len(receiver) <= ReceiverCap /\ ReceiverCap \in Nat
      /\ fan \in [Fans -> [to: SUBSET Conns, msg: MsgType]] /\ bounds \in [connects: Nat, replies: Nat, trouble: Nat]
  <2>1. bl \in BatchType /\ bl.events \in Seq(Events)
    BY DEF TypeInv, BatchTypes, BatchType
  <2>2. BatchEvents \subseteq Events
    BY <2>1, RangeSub DEF BatchEvents
  <2> QED BY <2>1, <2>2, WsAssumption DEF TypeInv, BatchTypes, ServerTypes, Message, MsgType
<1>1. CASE Post
  BY <1>0, <1>1 DEF Post, ServerTypes
<1>2. CASE Broadcast
  <2>1. /\ fan' = [fan EXCEPT !["topic"] = [to |-> Registered("topic"), msg |-> Message]]
        /\ skipped' = skipped \cup BatchEvents /\ UNCHANGED <<conn, receiver, received, bounds>>
    BY <1>2 DEF Broadcast, FanTakes
  <2>2. fan' \in [Fans -> [to: SUBSET Conns, msg: MsgType]]
    BY <1>0, <2>1 DEF Registered
  <2> QED BY <1>0, <2>1, <2>2 DEF ServerTypes
<1>3. CASE WaitForAck
  <2>1. receiver' = Tail(receiver) /\ receiver # << >> /\ UNCHANGED <<conn, fan, received, skipped, bounds>>
    BY <1>3 DEF WaitForAck
  <2>2. Tail(receiver) \in Seq(Nat) /\ Len(Tail(receiver)) <= ReceiverCap
    BY <1>0, <2>1, TailLimit, LenProperties
  <2> QED BY <1>0, <2>1, <2>2 DEF ServerTypes
<1>4. CASE ActionInterrupted \/ RetryAction
  BY <1>0, <1>4 DEF ActionInterrupted, RetryAction, ServerTypes, wsVars
<1>5. CASE GiveUp /\ setup.onError = "skip"
  BY <1>0, <1>5 DEF GiveUp, ServerTypes, wsVars
<1>6. ASSUME NEW c \in Conns, SendBatch(c) PROVE ServerTypes' /\ skipped' \subseteq Events
  <2>1. /\ conn' = [conn EXCEPT ![c] = [conn[c] EXCEPT !.sender = "write", !.msg = Message]]
        /\ UNCHANGED <<receiver, fan, received, skipped, bounds>>
    BY <1>6 DEF SendBatch, Taken
  <2>2. [conn[c] EXCEPT !.sender = "write", !.msg = Message] \in ConnType
    <3>1. conn[c] \in ConnType /\ Message \in MsgType
      BY <1>0
    <3> QED BY <3>1 DEF ConnType
  <2>3. conn' \in [Conns -> ConnType]
    BY <1>0, <2>1, <2>2
  <2> QED BY <1>0, <2>1, <2>3 DEF ServerTypes
<1> QED BY <1>1, <1>2, <1>3, <1>4, <1>5, <1>6

LEMMA BatchStepTypes == ASSUME TypeInv, BatchLoop PROVE TypeInv'
<1>0. /\ setup \in Setups /\ setup' = setup /\ setup.batch \in Nat \ {0} /\ BatchSize \in Nat \ {0} /\ BatchSize' = BatchSize
      /\ UNCHANGED <<streamVars, connectorVars, updates, loop, pending, pushing, bounds>>
      /\ bl \in BatchType /\ batchChannel \in Seq(Events) /\ Len(batchChannel) <= BatchSize
      /\ bl.events \in Seq(Events) /\ BatchEvents \subseteq Events /\ Len(bl.events) <= BatchSize
      /\ {} \subseteq Events
  BY BatchFrame, SetupParts, RangeSub
     DEF TypeInv, StreamTypes, PipeTypes, BatchTypes, BatchType, streamVars, BatchSize, BatchEvents
<1>s. SUFFICES ServerTypes' /\ ListenerTypes' /\ BatchTypes' /\ batchChannel' \in Seq(Events) /\ Len(batchChannel') <= BatchSize
  BY <1>0 DEF TypeInv, StreamTypes, ConnectorTypes, PipeTypes, streamVars, connectorVars, Heads, StartsAtHead, IsBlocks
<1>1. CASE PollEvent
  <2>1. /\ batchChannel' = Tail(batchChannel) /\ batchChannel # << >>
        /\ UNCHANGED <<wsVars, listenerVars, dropped, skipped, bounds>>
    BY <1>1 DEF PollEvent
  <2>2. batchChannel' \in Seq(Events) /\ Len(batchChannel') <= BatchSize
    BY <1>0, <2>1, TailLimit, LenProperties
  <2>3. BatchTypes'
    BY <1>0, <1>1, <2>1, PollEventStep DEF TypeInv, BatchTypes
  <2> QED BY <2>1, <2>2, <2>3 DEF TypeInv, ServerTypes, ListenerTypes, wsVars, listenerVars
<1>2. CASE PollStopped \/ (GiveUp /\ setup.onError = "block" /\ status = "stopping") \/ WriteInterrupted
  <2>1. UNCHANGED <<wsVars, listenerVars, batchChannel, bounds>> /\ \E lost \in SUBSET Events: Exit(lost)
    <3>1. CASE PollStopped
      BY <1>0, <3>1 DEF PollStopped, pipeVars
    <3>2. CASE GiveUp /\ setup.onError = "block" /\ status = "stopping"
      BY <1>0, <3>2 DEF GiveUp, pipeVars
    <3>3. CASE WriteInterrupted
      BY <1>0, <3>3 DEF WriteInterrupted, pipeVars
    <3> QED BY <1>2, <3>1, <3>2, <3>3
  <2>2. bl' \in BatchType /\ bl'.events = << >> /\ bl'.pc = "done" /\ dropped' \subseteq Events /\ UNCHANGED <<batchNumber, skipped>>
    BY <2>1, ExitTypes
  <2> QED BY <1>0, <2>1, <2>2 DEF TypeInv, ServerTypes, ListenerTypes, BatchTypes, wsVars, listenerVars
<1>3. CASE PollTimeout
  <2>1. UNCHANGED <<wsVars, listenerVars, batchChannel, dropped, skipped, bounds>>
    BY <1>3 DEF PollTimeout, pipeVars
  <2> QED BY <1>0, <1>3, <2>1, ActStep DEF TypeInv, ServerTypes, ListenerTypes, BatchTypes, wsVars, listenerVars
<1>4. CASE \/ Post \/ Broadcast \/ WaitForAck \/ ActionInterrupted \/ RetryAction
           \/ (GiveUp /\ setup.onError = "skip") \/ \E c \in Conns: SendBatch(c)
  BY <1>0, <1>4, ActStep, ActServer DEF TypeInv, ListenerTypes, BatchTypes, listenerVars
<1>5. CASE GenerateCheckpoint
  <2>1. /\ lst' \in [Listeners -> ListenerType] /\ bl' \in BatchType /\ bl'.events = << >> /\ bl'.pc = "hwm"
        /\ UNCHANGED <<wsVars, stored, batchChannel, batchNumber, dropped, skipped, bounds>>
    BY <1>5, GenerateStep DEF pipeVars
  <2>2. BatchTypes'
    BY <1>0, <2>1 DEF TypeInv, BatchTypes
  <2> QED BY <1>0, <2>1, <2>2 DEF TypeInv, ServerTypes, ListenerTypes, wsVars
<1>6. CASE ApplyHWM
  BY <1>0, <1>6, ApplyStep DEF TypeInv, ServerTypes, ListenerTypes, BatchTypes, wsVars, pipeVars
<1>7. ASSUME NEW l \in Listeners, QueryHWM(l)
      PROVE  ServerTypes' /\ ListenerTypes' /\ BatchTypes' /\ batchChannel' \in Seq(Events) /\ Len(batchChannel') <= BatchSize
  BY <1>0, <1>7, QueryStep DEF TypeInv, ServerTypes, ListenerTypes, BatchTypes, wsVars, listenerVars, pipeVars
<1>8. CASE WriteCheckpoint
  <2>1. /\ stored' = bl.cp /\ bl' = IdleBatch("poll")
        /\ UNCHANGED <<wsVars, lst, batchChannel, batchNumber, dropped, skipped, bounds>>
    BY <1>8 DEF WriteCheckpoint, pipeVars
  <2>2. stored' \in Positions
    BY <1>0, <2>1 DEF BatchType
  <2> QED BY <1>0, <2>1, <2>2, IdleBatchTypes DEF TypeInv, ServerTypes, ListenerTypes, BatchTypes, wsVars
<1> QED BY <1>1, <1>2, <1>3, <1>4, <1>5, <1>6, <1>7, <1>8 DEF BatchLoop, GiveUp

LEMMA CrashTypes == ASSUME TypeInv, Crash PROVE TypeInv'
<1>0. /\ setup \in Setups /\ setup' = setup /\ BatchSize \in Nat \ {0} /\ BatchSize' = BatchSize /\ NoCps \in Positions
      /\ IdleAdmin \in AdminType /\ IdleAdmin.step = "idle" /\ 0 \in 0..MaxPos
  <2>1. setup \in Setups /\ setup' = setup
    BY DEF Crash, TypeInv, StreamTypes
  <2>2. IdleAdmin \in AdminType /\ IdleAdmin.step = "idle"
    BY DEF IdleAdmin, AdminType, AdminOps, AdminSteps, None
  <2> QED BY <2>1, <2>2, SetupParts, IdleBatchType, MaxPosAssumption DEF BatchSize
<1>1. ServerTypes'
  <2>1. GoneConn \in ConnType /\ IdleFan \in [to: SUBSET Conns, msg: MsgType]
    BY DEF GoneConn, NewConn, ConnType, MsgType, NoMsg, IdleFan, Fans
  <2>2. /\ conn' = [c \in Conns |-> GoneConn] /\ receiver' = << >> /\ fan' = [f \in Fans |-> IdleFan] /\ UNCHANGED received
        /\ Trouble
    BY DEF Crash
  <2> QED BY <2>1, <2>2, BoundsType, WsAssumption DEF TypeInv, ServerTypes
<1>2. StreamTypes'
  BY <1>0 DEF Crash, TypeInv, StreamTypes
<1>3. ListenerTypes' /\ ConnectorTypes'
  <2>1. lst' \in [Listeners -> ListenerType]
    BY <1>0 DEF Crash, TypeInv, ListenerTypes, ListenerType
  <2> QED BY <1>0, <2>1 DEF Crash, TypeInv, ListenerTypes, ConnectorTypes, Heads, StartsAtHead, IsBlocks
<1>4. PipeTypes' /\ BatchTypes'
  <2>1. bl' = IdleBatch("done") /\ batchNumber' = 0 /\ UNCHANGED <<dropped, skipped>>
    BY DEF Crash
  <2>2. BatchTypes'
    <3>1. bl' \in BatchType /\ Len(bl'.events) <= BatchSize /\ bl'.pc = "done"
      BY <1>0, <2>1, IdleBatchTypes, IdleBatchType
    <3>2. dropped \subseteq Events /\ skipped \subseteq Events
      BY DEF TypeInv, BatchTypes
    <3> QED BY <1>0, <2>1, <3>1, <3>2 DEF BatchTypes
  <2>3. PipeTypes'
    <3>1. updates' = << >> /\ loop' = "done" /\ pending' = {} /\ pushing' = None /\ batchChannel' = << >>
      BY DEF Crash
    <3> QED BY <1>0, <3>1 DEF PipeTypes
  <2> QED BY <2>2, <2>3
<1> QED BY <1>1, <1>2, <1>3, <1>4 DEF TypeInv

LEMMA TypeInvariant == ASSUME TypeInv, AdminOK, [Next]_vars PROVE TypeInv'
<1>1. CASE \E a \in Admins: AdminNext(a)
  BY <1>1, AdminTypes, AdminOthers DEF TypeInv
<1>2. CASE PipeNext
  BY <1>2, PipeStepTypes DEF TypeInv
<1>3. CASE ServerNext
  <2>1. UNCHANGED <<streamVars, listenerVars, connectorVars, pipeVars, batchVars>>
    BY <1>3, ServerFrame
  <2>2. ServerTypes'
    BY <1>3, ServerNextTypes DEF TypeInv
  <2>3. BatchSize' = BatchSize
    BY <2>1 DEF BatchSize, streamVars
  <2> QED BY <2>1, <2>2, <2>3 DEF TypeInv, StreamTypes, ListenerTypes, ConnectorTypes, PipeTypes, BatchTypes,
                             streamVars, listenerVars, connectorVars, pipeVars, batchVars, Heads, StartsAtHead, IsBlocks
<1>4. CASE UNCHANGED vars
  BY <1>4 DEF vars, TypeInv, ServerTypes, StreamTypes, ListenerTypes, ConnectorTypes, PipeTypes, BatchTypes, BatchSize,
              wsVars, streamVars, listenerVars, connectorVars, pipeVars, batchVars, Heads, StartsAtHead, IsBlocks
<1> QED BY <1>1, <1>2, <1>3, <1>4, BatchStepTypes, CrashTypes, NextSplit

LEMMA TypesSuffice == TypeInv => EventStreamTypeOK
<1> SUFFICES ASSUME TypeInv PROVE EventStreamTypeOK
  OBVIOUS
<1>1. WsTypeOK
  <2> DEFINE U == UNION {conn[c].msg.evs: c \in Conns}
  <2>1. conn \in [Conns -> ConnType]
    BY DEF TypeInv, ServerTypes
  <2>2. ASSUME NEW c \in Conns
        PROVE  conn[c] \in [alive: BOOLEAN, closed: BOOLEAN, reader: {"read", "join", "done"},
                            sender: {"select", "write", "done"}, joined: BOOLEAN, watch: BOOLEAN,
                            maps: SUBSET Fans, msg: [n: Nat, evs: SUBSET U], inbox: SUBSET Nat]
    <3>1. conn[c] \in ConnType /\ conn[c].msg \in MsgType /\ conn[c].msg.evs \subseteq U
      BY <2>1 DEF ConnType
    <3> HIDE DEF U
    <3>2. conn[c].msg \in [n: Nat, evs: SUBSET U]
      BY <3>1 DEF MsgType
    <3> QED BY <3>1, <3>2 DEF ConnType
  <2> HIDE DEF U
  <2>3. conn \in [Conns -> [alive: BOOLEAN, closed: BOOLEAN, reader: {"read", "join", "done"},
                            sender: {"select", "write", "done"}, joined: BOOLEAN, watch: BOOLEAN,
                            maps: SUBSET Fans, msg: [n: Nat, evs: SUBSET U], inbox: SUBSET Nat]]
    BY <2>1, <2>2
  <2> QED BY <2>3 DEF WsTypeOK, TypeInv, ServerTypes, U
<1>2. lst \in [Listeners -> [st: {"new", "in", "removed"}, cp: 0..MaxPos, src: {"event", "hwm"}, started: BOOLEAN]]
  BY DEF TypeInv, ListenerTypes, ListenerType
<1>3. bl.pc \in {"none", "done", "poll", "act", "ack", "backoff", "gen", "hwm"} /\ Len(bl.events) <= BatchSize
  BY DEF TypeInv, BatchTypes, BatchType
<1> QED BY <1>1, <1>2, <1>3 DEF TypeInv, StreamTypes, ListenerTypes, ConnectorTypes, PipeTypes, Positions, Heads, EventStreamTypeOK

\* Types, capacities and the queue of the batch: whatever is asked of a stream, and
\* however it fails, updates and batchChannel stay within spec.BatchSize and the
\* receiver channel within its capacity.
THEOREM TypeCorrect == Spec => []EventStreamTypeOK
<1> DEFINE Inv == TypeInv /\ AdminOK
<1>1. Init => Inv
  BY InitTypes, InitAdmin
<1>2. Inv /\ [Next]_vars => Inv'
  BY TypeInvariant, AdminInvariant
<1>3. Inv => EventStreamTypeOK
  BY TypesSuffice
<1> QED BY <1>1, <1>2, <1>3, PTL DEF Spec

(***************************************************************************)
(* Delivery: what is lost, and in which order                              *)
(***************************************************************************)

\* Nothing has disturbed the stream yet; a listener whose stored checkpoint can be
\* trusted; one whose order can be.
Quiet == bounds.trouble = setup.trouble
Reliable(l) == setup.tracks \/ IsBlocks(l)
Trusted(l) == Reliable(l) \/ Quiet
Live(l) == Trusted(l) /\ lst[l].st = "in" /\ loop # "none"

\* The events of a listener before f, and up to position p.
Prior(f) == {e \in RealEvents: e[1] = f[1] /\ e[2] < f[2]}
UpTo(l, p) == {e \in RealEvents: e[1] = l /\ e[2] <= p}

\* Where an event may be: settled or passed over, in the batch, in the channel, with the
\* confirmation manager, on its way from the connector.
Sound == received \cup gone \cup dropped \cup skipped \cup passed
Batched == Sound \cup BatchEvents
Queued == Batched \cup Range(batchChannel)
Held == Queued \cup {pushing} \cup pending
InUpdates(e, n) == \E j \in 1..n: updates[j].ev = e

\* A stream that is stopped has no batch, and one whose start failed half-way stays
\* as it is; an undisturbed stream has only ever been started, and has nothing
\* stored before its first start.
StatusInv ==
    /\ bounds.trouble <= setup.trouble
    /\ status = "stopped" => bl.pc \in {"done", "none"} /\ loop # "none"
    /\ loop = "none" => bl.pc = "none"
    /\ Quiet => /\ status \in {"stopped", "started"}
                /\ \A a \in Admins: admin[a].step \in {"idle", "start"}
                /\ status = "stopped" => stored = NoCps

\* Nothing of a listener that is not added yet is on its way.
NewInv ==
    \A l \in Listeners: lst[l].st = "new" =>
        /\ l \notin known /\ (pushing # None => pushing[1] # l)
        /\ \A i \in 1..Len(updates): updates[i].ev[1] # l
        /\ \A e \in pending: e[1] # l
        /\ \A e \in Range(batchChannel): e[1] # l

\* Blocks go straight to the channel; what is announced as removed is gone.
PipeInv ==
    /\ \A i \in 1..Len(updates): ~IsBlocks(updates[i].ev[1]) /\ (updates[i].removed => updates[i].ev \in gone)
    /\ \A e \in pending: ~IsBlocks(e[1])
    /\ pushing # None => ~IsBlocks(pushing[1])
    /\ ~setup.confirms => pending = {}

\* The batch: its checkpoints are those of its events, and a checkpoint is only
\* generated once its events are settled.
BatchInv ==
    /\ bl.pc \in {"hwm", "done", "none"} => bl.events = << >>
    /\ \A l \in Listeners: bl.cps[l] # 0 => <<l, bl.cps[l]>> \in BatchEvents
    /\ bl.pc = "gen" => BatchEvents \subseteq Sound
    /\ \A l \in bl.stale: ~IsBlocks(l)
    /\ bl.hwm # << >> => bl.hwm[1] \in bl.stale
    /\ setup.onError = "block" /\ setup.mode # "broadcast" => skipped = {}

\* Acks: whoever holds the number of the current batch holds the batch, and an ack
\* for it says that it was received.
AckInv ==
    /\ setup.mode # "broadcast" => \A k \in Fans: fan[k] = IdleFan
    /\ bl.events # << >> => batchNumber > 0
    /\ bl.pc = "ack" => setup.mode = "load_balance"
    /\ setup.mode = "load_balance" =>
         /\ \A c \in Conns: conn[c].msg.n <= batchNumber /\ \A n \in conn[c].inbox: n <= batchNumber
         /\ \A n \in Range(receiver): n <= batchNumber
    /\ setup.mode = "load_balance" /\ bl.events # << >> =>
         /\ \A c \in Conns: conn[c].msg.n = batchNumber => bl.pc # "poll" /\ conn[c].msg.evs = BatchEvents
         /\ \A c \in Conns: batchNumber \in conn[c].inbox => bl.pc # "poll" /\ BatchEvents \subseteq received
         /\ batchNumber \in Range(receiver) => bl.pc # "poll" /\ BatchEvents \subseteq received

\* What has reached the application, a connection or a batch has nothing missing
\* before it ...
OrderInv ==
    /\ \A f \in received: Trusted(f[1]) => Prior(f) \subseteq Sound
    /\ \A c \in Conns: \A f \in conn[c].msg.evs: Trusted(f[1]) => Prior(f) \subseteq Sound \cup conn[c].msg.evs
    /\ \A k \in Fans: \A f \in fan[k].msg.evs: Trusted(f[1]) => Prior(f) \subseteq Sound \cup fan[k].msg.evs
    /\ \A f \in BatchEvents: Trusted(f[1]) => Prior(f) \subseteq Batched

\* ... and neither has anything on its way there.
ChannelInv ==
    \A i \in 1..Len(batchChannel): Live(batchChannel[i][1]) =>
        \A e \in Prior(batchChannel[i]): e \in Batched \/ \E j \in 1..(i - 1): batchChannel[j] = e
PushInv == pushing # None /\ Live(pushing[1]) => Prior(pushing) \subseteq Queued
PendingInv == \A f \in pending: Live(f[1]) => Prior(f) \subseteq Held
UpdatesInv ==
    \A i \in 1..Len(updates): Live(updates[i].ev[1]) /\ ~updates[i].removed =>
        \A e \in Prior(updates[i].ev): e \in Held \/ InUpdates(e, i - 1)
ScanInv == \A l \in known: Live(l) => \A e \in UpTo(l, scan[l]): e \in Held \/ InUpdates(e, Len(updates))
FlowInv == ChannelInv /\ PushInv /\ PendingInv /\ UpdatesInv /\ ScanInv

\* Everything up to a checkpoint is settled.
MarkInv ==
    /\ \A l \in Listeners: Reliable(l) \/ (Quiet /\ lst[l].src = "event") => UpTo(l, lst[l].cp) \subseteq Sound
    /\ \A l \in Listeners: Reliable(l) => UpTo(l, stored[l]) \subseteq Sound /\ UpTo(l, bl.cp[l]) \subseteq Sound
    /\ setup.tracks => \A l \in known: IsBlocks(l) \/ UpTo(l, scan[l]) \subseteq Sound \cup UpTo(l, last[l])
    /\ setup.tracks /\ bl.hwm # << >> => UpTo(bl.hwm[1], bl.hwm[2]) \subseteq Sound \cup UpTo(bl.hwm[1], bl.hwm[3])

Invariant == TypeInv /\ AdminOK /\ StatusInv /\ NewInv /\ PipeInv /\ BatchInv /\ AckInv /\ OrderInv /\ FlowInv /\ MarkInv

LEMMA UpToFacts ==
    ASSUME NEW l \in Listeners
    PROVE  /\ UpTo(l, 0) = {}
           /\ \A p, q \in 0..MaxPos: p <= q => UpTo(l, p) \subseteq UpTo(l, q)
           /\ \A p \in 0..MaxPos: \A e \in UpTo(l, p + 1): e \in UpTo(l, p) \/ e = <<l, p + 1>>
           /\ \A p \in 0..MaxPos: Prior(<<l, p + 1>>) = UpTo(l, p)
           /\ \A p \in 0..MaxPos: \A e \in UpTo(l, p): e \in Prior(<<l, p>>) \/ e = <<l, p>>
<1>1. \A e \in RealEvents: e \in Events /\ e[1] \in Listeners /\ e[2] \in 1..MaxPos /\ e = <<e[1], e[2]>>
  BY EventParts
<1>2. MaxPos \in Nat
  BY MaxPosAssumption
<1>3. \A p: <<l, p>>[1] = l /\ <<l, p>>[2] = p
  OBVIOUS
<1>4. \A p \in 0..MaxPos: \A e \in RealEvents: e[1] = l /\ e[2] <= p + 1 => e[2] <= p \/ e[2] = p + 1
  BY <1>1, <1>2
<1>5. \A p \in 0..MaxPos: \A e \in RealEvents: e[1] = l /\ e[2] <= p => e[2] < p \/ e[2] = p
  BY <1>1, <1>2
<1>6. \A p \in 0..MaxPos: \A e \in RealEvents: e[2] < p + 1 <=> e[2] <= p
  BY <1>1, <1>2
<1>7. UpTo(l, 0) = {}
  BY <1>1, <1>2 DEF UpTo
<1>8. \A p, q \in 0..MaxPos: p <= q => UpTo(l, p) \subseteq UpTo(l, q)
  BY <1>1, <1>2 DEF UpTo
<1>9. \A p \in 0..MaxPos: \A e \in UpTo(l, p + 1): e \in UpTo(l, p) \/ e = <<l, p + 1>>
  BY <1>1, <1>4 DEF UpTo
<1>10. \A p \in 0..MaxPos: Prior(<<l, p + 1>>) = UpTo(l, p)
  BY <1>3, <1>6 DEF UpTo, Prior
<1>11. \A p \in 0..MaxPos: \A e \in UpTo(l, p): e \in Prior(<<l, p>>) \/ e = <<l, p>>
  BY <1>1, <1>3, <1>5 DEF UpTo, Prior
<1> QED BY <1>7, <1>8, <1>9, <1>10, <1>11

LEMMA PriorFacts ==
    ASSUME NEW f, NEW e \in Prior(f)
    PROVE  e \in RealEvents /\ e \in Events /\ e # None /\ e[1] = f[1] /\ e[2] < f[2]
BY EventParts DEF Prior

LEMMA AdminPassed == ASSUME TypeInv, NEW a \in Admins, AdminNext(a) PROVE passed \subseteq passed'
<1>1. CASE Start(a) /\ status = "stopped"
  <2>1. PICK o \in StartOutcomes: StartOutcome(o)
    BY <1>1 DEF Start
  <2>2. CASE o = "ok"
    BY <2>1, <2>2, StartedFrom
  <2> QED BY <2>1, <2>2 DEF StartOutcomes, StartOutcome
<1>2. CASE Start(a) /\ status # "stopped"
  BY <1>2 DEF Start
<1>3. CASE StartListener(a)
  BY <1>3, StartedNew
<1>4. CASE ~Start(a) /\ ~StartListener(a)
  BY <1>4 DEF AdminNext, AdminStep, Begin, RequestStop, NotifyStopped, FinishStop, Stopped, ResetCheckpoint, DeleteStream,
              AddListener, RemoveListener, StopListener, connectorVars
<1> QED BY <1>1, <1>2, <1>3, <1>4

\* What is settled stays so, and the stream is disturbed more and more.
LEMMA SettledGrows ==
    ASSUME TypeInv, [Next]_vars
    PROVE  /\ received \subseteq received' /\ gone \subseteq gone' /\ dropped \subseteq dropped' /\ skipped \subseteq skipped'
           /\ passed \subseteq passed'
           /\ setup' = setup /\ bounds.trouble \in Nat /\ bounds'.trouble \in Nat /\ bounds'.trouble <= bounds.trouble
<1>0. bounds \in [connects: Nat, replies: Nat, trouble: Nat]
  BY DEF TypeInv, ServerTypes
<1>t. Trouble => bounds'.trouble \in Nat /\ bounds'.trouble < bounds.trouble
  BY <1>0, BoundsType
<1>1. CASE \E a \in Admins: AdminNext(a)
  <2>1. PICK a \in Admins: AdminNext(a)
    BY <1>1
  <2>2. passed \subseteq passed'
    BY <2>1, AdminPassed
  <2> QED BY <1>0, <1>t, <2>1, <2>2, AdminFrame DEF wsVars
<1>2. CASE PipeNext
  <2>1. gone \subseteq gone' /\ dropped \subseteq dropped'
    <3>1. CASE EventLoop
      BY <3>1 DEF EventLoop, connectorVars
    <3>2. CASE EventLoopExits \/ Push
      BY <3>2 DEF EventLoopExits, Push, connectorVars, batchVars
    <3>3. ASSUME NEW l \in Listeners, Detect(l) \/ Confirm(l) PROVE gone \subseteq gone' /\ dropped \subseteq dropped'
      BY <3>3 DEF Detect, Confirm, connectorVars, batchVars
    <3>4. ASSUME NEW e \in RealEvents, Reorganise(e) PROVE gone \subseteq gone' /\ dropped \subseteq dropped'
      BY <3>4 DEF Reorganise, batchVars
    <3> QED BY <1>2, <3>1, <3>2, <3>3, <3>4 DEF PipeNext, Pipeline
  <2> QED BY <1>0, <1>2, <1>t, <2>1, PipeFrame DEF wsVars, streamVars
<1>3. CASE BatchLoop
  <2>1. received \subseteq received' /\ dropped \subseteq dropped' /\ skipped \subseteq skipped'
    <3>1. CASE PollEvent \/ PollTimeout \/ PollStopped
      BY <3>1 DEF PollEvent, PollTimeout, PollStopped, Exit, wsVars
    <3>2. CASE Post \/ Broadcast \/ WaitForAck \/ ActionInterrupted \/ RetryAction \/ GiveUp
      BY <3>2 DEF Post, Broadcast, WaitForAck, ActionInterrupted, RetryAction, GiveUp, Exit, Goto, wsVars
    <3>3. CASE \/ \E c \in Conns: SendBatch(c)
               \/ \E l \in Listeners: QueryHWM(l)
      BY <3>3 DEF SendBatch, QueryHWM, Goto, wsVars
    <3>4. CASE GenerateCheckpoint \/ ApplyHWM \/ WriteCheckpoint \/ WriteInterrupted
      BY <3>4 DEF GenerateCheckpoint, ApplyHWM, WriteCheckpoint, WriteInterrupted, Exit, wsVars
    <3> QED BY <1>3, <3>1, <3>2, <3>3, <3>4 DEF BatchLoop
  <2> QED BY <1>0, <1>3, <2>1, BatchFrame DEF streamVars, connectorVars
<1>4. CASE ServerNext
  <2>1. UNCHANGED <<setup, gone, passed, dropped, skipped>>
    BY <1>4, ServerFrame DEF streamVars, connectorVars, batchVars
  <2>2. /\ received \subseteq received'
        /\ \/ UNCHANGED bounds \/ Trouble
           \/ bounds' = [bounds EXCEPT !.connects = @ - 1] \/ bounds' = [bounds EXCEPT !.replies = @ - 1]
    <3>1. ASSUME NEW c \in Conns, ConnStep(c) PROVE received \subseteq received' /\ UNCHANGED bounds
      BY <3>1 DEF ConnStep, ReadFails, TopicTold, TopicNotTold, SenderWrites, SenderCloses, FanOut, Close
    <3>2. ASSUME NEW c \in Conns, ClientStep(c)
          PROVE  UNCHANGED received /\ (UNCHANGED bounds \/ Trouble \/ bounds' = [bounds EXCEPT !.connects = @ - 1])
      BY <3>2 DEF ClientStep, Connect, Disconnect, ListenTopic, Ack, ClientError
    <3>3. ASSUME ReplyStep PROVE UNCHANGED received /\ (UNCHANGED bounds \/ bounds' = [bounds EXCEPT !.replies = @ - 1])
      BY <3>3 DEF ReplyStep, SendReply, ListenReplies
    <3> QED BY <1>4, <3>1, <3>2, <3>3 DEF ServerNext, ServerStep
  <2>3. bounds'.trouble \in Nat /\ bounds'.trouble <= bounds.trouble
    BY <1>0, <1>t, <2>2
  <2> QED BY <1>0, <2>1, <2>2, <2>3
<1>5. CASE Crash
  <2>1. UNCHANGED <<received, setup, gone, passed, dropped, skipped>> /\ Trouble
    BY <1>5 DEF Crash
  <2> QED BY <1>0, <1>t, <2>1
<1>6. CASE UNCHANGED vars
  BY <1>0, <1>6 DEF vars, wsVars, streamVars, connectorVars, batchVars
<1> QED BY <1>1, <1>2, <1>3, <1>4, <1>5, <1>6, NextSplit

LEMMA Grows ==
    ASSUME TypeInv, StatusInv, [Next]_vars
    PROVE  /\ Sound \subseteq Sound' /\ setup' = setup /\ bounds'.trouble <= setup'.trouble
           /\ Quiet' => Quiet /\ UNCHANGED bounds.trouble
           /\ \A l: (IsBlocks(l)' <=> IsBlocks(l)) /\ (Reliable(l)' <=> Reliable(l)) /\ (Trusted(l)' => Trusted(l))
<1>1. Sound \subseteq Sound'
  BY SettledGrows DEF Sound
<1>2. setup' = setup /\ bounds'.trouble \in Nat /\ bounds.trouble \in Nat /\ bounds'.trouble <= bounds.trouble
      /\ setup.trouble \in Nat /\ bounds.trouble <= setup.trouble
  BY SettledGrows, SetupParts DEF TypeInv, StreamTypes, StatusInv
<1>3. Quiet' => Quiet /\ UNCHANGED bounds.trouble
  BY <1>2 DEF Quiet
<1>4. bounds'.trouble <= setup'.trouble
  BY <1>2
<1> QED BY <1>1, <1>2, <1>3, <1>4 DEF Reliable, Trusted, IsBlocks

LEMMA StatusStep == ASSUME Invariant, [Next]_vars PROVE StatusInv'
<1>0. /\ Quiet' => Quiet /\ UNCHANGED bounds.trouble
      /\ setup' = setup /\ bounds'.trouble <= setup'.trouble /\ bounds.trouble \in Nat
      /\ TypeInv /\ AdminOK /\ StatusInv
      /\ Trouble => ~Quiet'
  <2>1. TypeInv /\ StatusInv
    BY DEF Invariant
  <2>2. Trouble => bounds'.trouble < bounds.trouble /\ bounds.trouble \in Nat /\ bounds'.trouble \in Nat
    BY <2>1, BoundsType DEF TypeInv, ServerTypes
  <2>3. Trouble => ~Quiet'
    <3>1. Trouble => ~(UNCHANGED bounds.trouble)
      BY <2>2
    <3> QED BY <2>1, <3>1, Grows
  <2> QED BY <2>1, <2>3, Grows DEF Invariant, TypeInv, ServerTypes
<1>s. SUFFICES /\ status' = "stopped" => bl'.pc \in {"done", "none"} /\ loop' # "none"
               /\ loop' = "none" => bl'.pc = "none"
               /\ Quiet' => /\ status' \in {"stopped", "started"}
                            /\ \A a \in Admins: admin'[a].step \in {"idle", "start"}
                            /\ status' = "stopped" => stored' = NoCps
  BY <1>0 DEF StatusInv
<1>1. ASSUME NEW a \in Admins, AdminNext(a)
      PROVE  /\ status' = "stopped" => bl'.pc \in {"done", "none"} /\ loop' # "none"
             /\ loop' = "none" => bl'.pc = "none"
             /\ Quiet' => /\ status' \in {"stopped", "started"}
                          /\ \A b \in Admins: admin'[b].step \in {"idle", "start"}
                          /\ status' = "stopped" => stored' = NoCps
  <2>0. admin \in [Admins -> AdminType] /\ admin[a] \in AdminType /\ IdleAdmin.step = "idle"
    BY <1>0 DEF TypeInv, StreamTypes, IdleAdmin
  <2>1. CASE Start(a)
    <3>1. admin' = [admin EXCEPT ![a] = IdleAdmin] /\ UNCHANGED stored
      BY <2>1 DEF Start
    <3>2. CASE status # "stopped"
      <4>1. UNCHANGED <<status, bl, loop, bounds>>
        BY <2>1, <3>2 DEF Start
      <4> QED BY <1>0, <2>0, <3>1, <3>2, <4>1 DEF StatusInv
    <3>3. CASE status = "stopped"
      <4>1. PICK o \in StartOutcomes: StartOutcome(o) /\ CountFail(o = "ok")
        BY <2>1, <3>3 DEF Start
      <4>2. o \in {"ok", "connector", "checkpoint"}
        BY <4>1 DEF StartOutcomes
      <4>3. CASE o = "ok"
        BY <1>0, <2>0, <3>1, <4>1, <4>3, IdleBatchType DEF StartOutcome, StatusInv
      <4>4. CASE o = "connector"
        <5>1. status' = "stopped" /\ UNCHANGED <<loop, bl>> /\ Trouble
          BY <4>1, <4>4 DEF StartOutcome, CountFail
        <5> QED BY <1>0, <3>3, <5>1 DEF StatusInv
      <4>5. CASE o = "checkpoint"
        <5>1. status' = "started" /\ loop' = "none" /\ bl' = IdleBatch("none") /\ Trouble
          BY <4>1, <4>5 DEF StartOutcome, CountFail
        <5> QED BY <1>0, <5>1, IdleBatchType DEF StatusInv
      <4> QED BY <4>2, <4>3, <4>4, <4>5
    <3> QED BY <3>2, <3>3
  <2>2. CASE Begin(a)
    <3>1. UNCHANGED <<status, stored, loop, bl>>
      BY <2>2 DEF Begin, listenerVars, pipeVars, batchVars
    <3>2. PICK op \in {"start", "stop", "update", "reset", "delete", "add", "remove"}, l \in Listeners:
               /\ admin' = [admin EXCEPT ![a] =
                    [op |-> op, l |-> l, again |-> current,
                     step |-> CASE op \in {"start", "stop", "add", "remove"} -> op
                                [] op = "update" -> "stop"
                                [] op = "reset" -> IF current THEN "stop" ELSE "reset"
                                [] op = "delete" -> IF status = "stopped" THEN "delete" ELSE "stop"]]
               /\ CountFail(op = "start")
      BY <2>2 DEF Begin
    <3>3. CASE op = "start"
      <4>1. admin' = [admin EXCEPT ![a] = [op |-> op, l |-> l, again |-> current, step |-> op]] 
        BY <3>2, <3>3
      <4>2. admin'[a].step = "start" /\ \A b \in Admins: b # a => admin'[b] = admin[b]
        BY <2>0, <3>3, <4>1
      <4> QED BY <1>0, <3>1, <4>2 DEF StatusInv
    <3>4. CASE op # "start"
      <4>1. Trouble
        BY <3>2, <3>4 DEF CountFail
      <4> QED BY <1>0, <3>1, <4>1 DEF StatusInv
    <3> QED BY <3>3, <3>4
  <2>3. CASE \/ RequestStop(a) \/ NotifyStopped(a) \/ FinishStop(a) \/ Stopped(a) \/ ResetCheckpoint(a) \/ DeleteStream(a)
             \/ AddListener(a) \/ StartListener(a) \/ RemoveListener(a) \/ StopListener(a)
    <3>1. admin[a].step \notin {"idle", "start"}
      BY <2>3 DEF RequestStop, NotifyStopped, FinishStop, Stopped, ResetCheckpoint, DeleteStream,
                  AddListener, StartListener, RemoveListener, StopListener
    <3>2. ~Quiet'
      BY <1>0, <3>1 DEF StatusInv
    <3>3. CASE FinishStop(a)
      <4>1. loop = "done" /\ bl.pc = "done" /\ UNCHANGED <<loop, bl>>
        BY <3>3 DEF FinishStop, pipeVars, batchVars
      <4> QED BY <3>2, <4>1
    <3>4. CASE ~FinishStop(a)
      <4>1. UNCHANGED <<loop, bl>> /\ (status' = "stopped" => status = "stopped")
        BY <2>3, <3>4 DEF RequestStop, NotifyStopped, Stopped, ResetCheckpoint, DeleteStream,
                  AddListener, StartListener, RemoveListener, StopListener, pipeVars, batchVars
      <4> QED BY <1>0, <3>2, <4>1 DEF StatusInv
    <3> QED BY <3>3, <3>4
  <2> QED BY <1>1, <2>1, <2>2, <2>3 DEF AdminNext, AdminStep
<1>2. CASE PipeNext
  <2>1. UNCHANGED <<status, admin, stored, bl>>
    BY <1>2, PipeFrame DEF streamVars, listenerVars
  <2>2. loop' = loop \/ (loop = "run" /\ loop' = "done")
    <3>1. CASE EventLoop \/ EventLoopExits \/ Push
      BY <3>1 DEF EventLoop, EventLoopExits, Push
    <3>2. ASSUME NEW l \in Listeners, Detect(l) \/ Confirm(l) PROVE UNCHANGED loop
      BY <3>2 DEF Detect, Confirm
    <3>3. ASSUME NEW e \in RealEvents, Reorganise(e) PROVE UNCHANGED loop
      BY <3>3 DEF Reorganise
    <3> QED BY <1>2, <3>1, <3>2, <3>3 DEF PipeNext, Pipeline
  <2> QED BY <1>0, <2>1, <2>2 DEF StatusInv
<1>3. CASE BatchLoop
  <2>1. UNCHANGED <<status, admin, loop>>
    BY <1>3, BatchFrame DEF streamVars
  <2>2. bl.pc \notin {"done", "none"}
    <3>1. CASE PollEvent \/ PollTimeout \/ PollStopped
      BY <3>1 DEF PollEvent, PollTimeout, PollStopped
    <3>2. CASE Post \/ Broadcast \/ WaitForAck \/ ActionInterrupted \/ RetryAction \/ GiveUp
      BY <3>2 DEF Post, Broadcast, WaitForAck, ActionInterrupted, RetryAction, GiveUp
    <3>3. CASE \/ \E c \in Conns: SendBatch(c)
               \/ \E l \in Listeners: QueryHWM(l)
      BY <3>3 DEF SendBatch, QueryHWM
    <3>4. CASE GenerateCheckpoint \/ ApplyHWM \/ WriteCheckpoint \/ WriteInterrupted
      BY <3>4 DEF GenerateCheckpoint, ApplyHWM, WriteCheckpoint, WriteInterrupted
    <3> QED BY <1>3, <3>1, <3>2, <3>3, <3>4 DEF BatchLoop
  <2> QED BY <1>0, <2>1, <2>2 DEF StatusInv
<1>4. CASE ServerNext
  <2>1. UNCHANGED <<status, admin, stored, bl, loop>>
    BY <1>4, ServerFrame DEF streamVars, listenerVars, pipeVars, batchVars
  <2> QED BY <1>0, <2>1 DEF StatusInv
<1>5. CASE Crash
  <2>1. bl' = IdleBatch("done") /\ loop' = "done" /\ Trouble
    BY <1>5 DEF Crash
  <2> QED BY <1>0, <2>1, IdleBatchType
<1>6. CASE UNCHANGED vars
  <2>1. UNCHANGED <<status, admin, stored, bl, loop, setup, bounds>>
    BY <1>6 DEF vars, streamVars, listenerVars, pipeVars, batchVars
  <2> QED BY <1>0, <2>1 DEF StatusInv
<1> QED BY <1>1, <1>2, <1>3, <1>4, <1>5, <1>6, NextSplit

\* How the pipeline moves events: what is new in a place was in the one before.
LEMMA Detected ==
    ASSUME TypeInv, NEW l \in Listeners, Detect(l)
    PROVE  /\ l \in known /\ scan[l] \in 0..MaxPos /\ scan[l] + 1 \in 0..MaxPos
           /\ scan' = [scan EXCEPT ![l] = scan[l] + 1]
           /\ UNCHANGED <<wsVars, streamVars, listenerVars, known, gone, passed, loop, pending, pushing, batchVars, bounds>>
           /\ \/ /\ <<l, scan[l] + 1>> \notin RealEvents \/ <<l, scan[l] + 1>> \in gone
                 /\ UNCHANGED <<updates, batchChannel, last>>
              \/ /\ ~IsBlocks(l) /\ <<l, scan[l] + 1>> \in Events /\ Len(updates) < BatchSize
                 /\ updates' = Append(updates, [ev |-> <<l, scan[l] + 1>>, removed |-> FALSE])
                 /\ last' = [last EXCEPT ![l] = scan[l] + 1] /\ UNCHANGED batchChannel
              \/ /\ IsBlocks(l) /\ <<l, scan[l] + 1>> \in Events /\ Len(batchChannel) < BatchSize
                 /\ batchChannel' = Append(batchChannel, <<l, scan[l] + 1>>)
                 /\ UNCHANGED <<updates, last>>
<1>0. scan \in Positions /\ scan[l] \in 0..MaxPos /\ scan[l] + 1 <= MaxPos
  BY DEF TypeInv, ConnectorTypes, Positions, Detect
<1>1. scan[l] + 1 \in 0..MaxPos
  BY <1>0, MaxPosAssumption
<1>2. ASSUME scan[l] + 1 \in Logs[l] PROVE <<l, scan[l] + 1>> \in Events
  <2>1. scan[l] + 1 \in 1..MaxPos
    BY <1>2, LogsAssumption
  <2> QED BY <2>1, EventParts
<1>3. scan[l] + 1 \notin Logs[l] => <<l, scan[l] + 1>> \notin RealEvents
  BY DEF RealEvents
<1> QED BY <1>0, <1>1, <1>2, <1>3 DEF Detect

\* The six steps of the pipeline by what they move.
LEMMA Looped ==
    ASSUME TypeInv, EventLoop
    PROVE  /\ Head(updates) = updates[1] /\ updates # << >> /\ Len(updates) \in Nat \ {0}
           /\ updates[1].ev \in Events /\ updates[1].removed \in BOOLEAN
           /\ Len(updates') = Len(updates) - 1 /\ \A i \in 1..Len(updates'): updates'[i] = updates[i + 1] /\ i + 1 \in 1..Len(updates)
           /\ UNCHANGED <<wsVars, streamVars, listenerVars, connectorVars, loop, batchChannel, bl, batchNumber, skipped, bounds>>
           /\ \/ updates[1].removed /\ pending' = pending \ {updates[1].ev} /\ UNCHANGED <<pushing, dropped>>
              \/ ~updates[1].removed /\ lst[updates[1].ev[1]].st # "in" /\ UNCHANGED <<pending, pushing, dropped>>
              \/ /\ ~updates[1].removed /\ lst[updates[1].ev[1]].st = "in" /\ ~setup.confirms
                 /\ pushing = None /\ pushing' = updates[1].ev /\ UNCHANGED <<pending, dropped>>
              \/ /\ ~updates[1].removed /\ lst[updates[1].ev[1]].st = "in" /\ setup.confirms
                 /\ pending' = pending \cup {updates[1].ev} /\ UNCHANGED <<pushing, dropped>>
              \/ ~updates[1].removed /\ dropped' = dropped \cup {updates[1].ev} /\ UNCHANGED <<pending, pushing>>
<1> DEFINE U == [ev: Events, removed: BOOLEAN]
<1>1. updates \in Seq(U) /\ updates # << >> /\ updates' = Tail(updates)
  BY DEF TypeInv, PipeTypes, EventLoop
<1> HIDE DEF U
<1>2. /\ Head(updates) \in U /\ Len(Tail(updates)) = Len(updates) - 1 /\ Len(updates) \in Nat \ {0}
      /\ Head(updates) = updates[1] /\ \A i \in 1..Len(Tail(updates)): Tail(updates)[i] = updates[i + 1]
  BY <1>1, TailRange
<1>3. \A i \in 1..(Len(updates) - 1): i + 1 \in 1..Len(updates)
  BY <1>2
<1>4. updates[1].ev \in Events /\ updates[1].removed \in BOOLEAN
  BY <1>2 DEF U
<1> QED BY <1>1, <1>2, <1>3, <1>4 DEF EventLoop

LEMMA Pushed ==
    ASSUME TypeInv, Push
    PROVE  /\ pushing # None /\ pushing \in Events /\ pushing' = None
           /\ Len(batchChannel) \in Nat /\ Len(batchChannel') = Len(batchChannel) + 1
           /\ \A i \in 1..Len(batchChannel): batchChannel'[i] = batchChannel[i]
           /\ batchChannel'[Len(batchChannel) + 1] = pushing
           /\ Range(batchChannel') = Range(batchChannel) \cup {pushing}
           /\ UNCHANGED <<wsVars, streamVars, listenerVars, connectorVars, updates, loop, pending, batchVars, bounds>>
<1>1. batchChannel \in Seq(Events) /\ pushing \in Events /\ pushing # None /\ batchChannel' = Append(batchChannel, pushing)
  BY DEF TypeInv, PipeTypes, Push
<1> QED BY <1>1, AppendRange DEF Push

LEMMA Reorganised ==
    ASSUME TypeInv, NEW e \in RealEvents, Reorganise(e)
    PROVE  /\ gone' = gone \cup {e} /\ Len(updates) \in Nat /\ Len(updates') = Len(updates) + 1
           /\ \A i \in 1..Len(updates): updates'[i] = updates[i]
           /\ updates'[Len(updates) + 1] = [ev |-> e, removed |-> TRUE]
           /\ e \in pending \/ \E i \in 1..Len(updates): updates[i].ev = e
           /\ Trouble
           /\ UNCHANGED <<wsVars, streamVars, listenerVars, known, scan, last, passed, loop, pending, pushing,
                          batchChannel, batchVars>>
<1> DEFINE U == [ev: Events, removed: BOOLEAN]
           u == [ev |-> e, removed |-> TRUE]
<1>1. updates \in Seq(U) /\ u \in U /\ updates' = Append(updates, u)
  BY EventParts DEF TypeInv, PipeTypes, Reorganise
<1> HIDE DEF U
<1>2. /\ Len(updates) \in Nat /\ DOMAIN updates = 1..Len(updates) /\ Len(updates') = Len(updates) + 1
      /\ \A i \in 1..Len(updates): updates'[i] = updates[i]
      /\ updates'[Len(updates) + 1] = u
  BY <1>1, AppendRange, SeqDomain
<1> QED BY <1>2 DEF Reorganise

LEMMA UpdatesAppended ==
    ASSUME TypeInv, NEW u \in [ev: Events, removed: BOOLEAN], updates' = Append(updates, u)
    PROVE  /\ Len(updates) \in Nat /\ Len(updates') = Len(updates) + 1
           /\ \A i \in 1..Len(updates): updates'[i] = updates[i]
           /\ updates'[Len(updates) + 1] = u
<1> DEFINE U == [ev: Events, removed: BOOLEAN]
<1>1. updates \in Seq(U) /\ u \in U
  BY DEF TypeInv, PipeTypes
<1> HIDE DEF U
<1> QED BY <1>1, AppendRange

LEMMA ChannelAppended ==
    ASSUME TypeInv, NEW e \in Events, batchChannel' = Append(batchChannel, e)
    PROVE  /\ Len(batchChannel) \in Nat /\ Len(batchChannel') = Len(batchChannel) + 1
           /\ \A i \in 1..Len(batchChannel): batchChannel'[i] = batchChannel[i]
           /\ batchChannel'[Len(batchChannel) + 1] = e
           /\ Range(batchChannel') = Range(batchChannel) \cup {e}
BY AppendRange DEF TypeInv, PipeTypes

LEMMA ChannelTail ==
    ASSUME TypeInv, batchChannel # << >>, batchChannel' = Tail(batchChannel)
    PROVE  /\ Head(batchChannel) = batchChannel[1] /\ batchChannel[1] \in Events
           /\ Len(batchChannel) \in Nat \ {0} /\ Len(batchChannel') = Len(batchChannel) - 1
           /\ \A i \in 1..Len(batchChannel'): batchChannel'[i] = batchChannel[i + 1] /\ i + 1 \in 1..Len(batchChannel)
           /\ Range(batchChannel) = {batchChannel[1]} \cup Range(batchChannel')
<1>1. batchChannel \in Seq(Events)
  BY DEF TypeInv, PipeTypes
<1>2. /\ Head(batchChannel) \in Events /\ Len(batchChannel) \in Nat \ {0} /\ Len(batchChannel') = Len(batchChannel) - 1
      /\ Head(batchChannel) = batchChannel[1] /\ \A i \in 1..Len(batchChannel'): batchChannel'[i] = batchChannel[i + 1]
      /\ Range(batchChannel) = {Head(batchChannel)} \cup Range(batchChannel')
  BY <1>1, TailRange
<1>3. \A i \in 1..(Len(batchChannel) - 1): i + 1 \in 1..Len(batchChannel)
  BY <1>2
<1> QED BY <1>2, <1>3

\* A listener that is new is so from the beginning.
LEMMA NewBefore ==
    ASSUME TypeInv, AdminOK, [Next]_vars, NEW l \in Listeners
    PROVE  /\ lst'[l].st = "new" => lst[l].st = "new"
           /\ lst'[l].st = "in" => lst[l].st \in {"in", "new"}
<1>0. lst \in [Listeners -> ListenerType]
  BY DEF TypeInv, ListenerTypes
<1>1. ASSUME NEW a \in Admins, AddListener(a)
      PROVE  /\ lst'[l].st = "new" => lst[l].st = "new"
             /\ lst'[l].st = "in" => lst[l].st \in {"in", "new"}
  <2>1. lst' = [lst EXCEPT ![admin[a].l].st = "in"] /\ lst[admin[a].l].st = "new"
    BY <1>1 DEF AddListener, AdminOK
  <2> QED BY <1>0, <2>1 DEF ListenerType
<1>2. ASSUME NEW a \in Admins, RemoveListener(a)
      PROVE  /\ lst'[l].st = "new" => lst[l].st = "new"
             /\ lst'[l].st = "in" => lst[l].st \in {"in", "new"}
  <2>1. lst' = [lst EXCEPT ![admin[a].l].st = "removed"]
    BY <1>2 DEF RemoveListener
  <2> QED BY <1>0, <2>1 DEF ListenerType
<1> QED BY <1>1, <1>2, StatesKept

LEMMA AdminUpdates ==
    ASSUME NEW a \in Admins, AdminNext(a)
    PROVE  \/ UNCHANGED <<updates, loop, bl>>
           \/ /\ Start(a) /\ status = "stopped" /\ updates' = << >>
              /\ bl' = IdleBatch("poll") \/ bl' = IdleBatch("none")
<1>1. CASE Start(a) /\ status = "stopped"
  <2>1. PICK o \in StartOutcomes: StartOutcome(o)
    BY <1>1 DEF Start
  <2> QED BY <1>1, <2>1 DEF StartOutcomes, StartOutcome
<1>2. CASE Start(a) /\ status # "stopped"
  BY <1>2 DEF Start
<1>3. CASE ~Start(a)
  BY <1>3 DEF AdminNext, AdminStep, Begin, RequestStop, NotifyStopped, FinishStop, Stopped, ResetCheckpoint, DeleteStream,
              AddListener, StartListener, RemoveListener, StopListener, pipeVars, batchVars
<1> QED BY <1>1, <1>2, <1>3

LEMMA NewStep == ASSUME Invariant, [Next]_vars PROVE NewInv'
<1>0. TypeInv /\ AdminOK /\ NewInv /\ \A l \in Listeners: lst'[l].st = "new" => lst[l].st = "new"
  BY NewBefore DEF Invariant
<1>1. ASSUME NEW a \in Admins, AdminNext(a) PROVE NewInv'
  <2>1. UNCHANGED <<pushing, pending, batchChannel>>
    BY <1>1, AdminFrame
  <2>2. UNCHANGED updates \/ updates' = << >>
    BY <1>1, AdminUpdates
  <2>3. ASSUME NEW l \in known' PROVE l \in known \/ lst'[l].st # "new"
    <3>1. CASE Start(a) /\ status = "stopped"
      <4>1. PICK o \in StartOutcomes: StartOutcome(o)
        BY <3>1 DEF Start
      <4>2. CASE o = "ok"
        BY <1>0, <2>3, <4>1, <4>2 DEF StartOutcome
      <4> QED BY <2>3, <4>1, <4>2 DEF StartOutcomes, StartOutcome
    <3>2. CASE Start(a) /\ status # "stopped"
      BY <2>3, <3>2 DEF Start
    <3>3. CASE StartListener(a)
      <4>1. lst[admin[a].l].st # "new" /\ known' \subseteq known \cup {admin[a].l}
        BY <1>0, <3>3 DEF StartListener, AdminOK
      <4>2. admin[a].l \in Listeners
        BY <1>0, <3>3 DEF TypeInv, StreamTypes, StartListener
      <4> QED BY <1>0, <2>3, <4>1, <4>2
    <3>4. CASE ~Start(a) /\ ~StartListener(a)
      BY <1>1, <2>3, <3>4 DEF AdminNext, AdminStep, Begin, RequestStop, NotifyStopped, FinishStop, Stopped, ResetCheckpoint, DeleteStream,
                  AddListener, RemoveListener, StopListener, connectorVars
    <3> QED BY <3>1, <3>2, <3>3, <3>4
  <2>4. ASSUME NEW l \in Listeners, lst'[l].st = "new"
        PROVE  /\ l \notin known' /\ (pushing' # None => pushing'[1] # l)
               /\ \A i \in 1..Len(updates'): updates'[i].ev[1] # l
               /\ \A e \in pending': e[1] # l
               /\ \A e \in Range(batchChannel'): e[1] # l
    <3>1. lst[l].st = "new"
      BY <1>0, <2>4
    <3>2. l \notin known'
      BY <1>0, <2>3, <2>4, <3>1 DEF NewInv
    <3>3. CASE UNCHANGED updates
      BY <1>0, <2>1, <3>1, <3>2, <3>3 DEF NewInv
    <3>4. CASE updates' = << >>
      BY <1>0, <2>1, <3>1, <3>2, <3>4 DEF NewInv
    <3> QED BY <2>2, <3>3, <3>4
  <2> QED BY <2>4 DEF NewInv
<1>2. CASE PipeNext
  <2>0. UNCHANGED <<lst, known>>
    BY <1>2, PipeFrame DEF listenerVars
  <2>1. CASE EventLoop
    <3>1. \A l \in Listeners: lst[l].st = "new" => updates[1].ev[1] # l
      BY <1>0, <2>1, Looped DEF NewInv
    <3>2. \A i \in 1..Len(updates'): \E j \in 1..Len(updates): updates'[i] = updates[j]
      BY <1>0, <2>1, Looped
    <3>3. /\ pushing' = pushing \/ pushing' = updates[1].ev
          /\ \A e \in pending': e \in pending \/ e = updates[1].ev
          /\ UNCHANGED batchChannel
      BY <1>0, <2>1, Looped
    <3> QED BY <1>0, <2>0, <3>1, <3>2, <3>3 DEF NewInv
  <2>2. CASE EventLoopExits
    BY <1>0, <2>0, <2>2 DEF EventLoopExits, NewInv
  <2>3. CASE Push
    BY <1>0, <2>0, <2>3, Pushed DEF NewInv
  <2>4. ASSUME NEW k \in Listeners, Confirm(k) PROVE NewInv'
    <3>1. pushing' \in pending /\ pending' \subseteq pending /\ UNCHANGED <<updates, batchChannel>>
      BY <2>4 DEF Confirm
    <3> QED BY <1>0, <2>0, <3>1 DEF NewInv
  <2>5. ASSUME NEW k \in Listeners, Detect(k) PROVE NewInv'
    <3>1. k \in known /\ lst[k].st # "new" /\ UNCHANGED <<pending, pushing>>
      BY <1>0, <2>5, Detected DEF NewInv
    <3>2. \A i \in 1..Len(updates'): updates'[i].ev[1] = k \/ \E j \in 1..Len(updates): updates'[i] = updates[j]
      <4>1. CASE UNCHANGED updates
        BY <4>1
      <4>2. CASE updates' = Append(updates, [ev |-> <<k, scan[k] + 1>>, removed |-> FALSE]) /\ <<k, scan[k] + 1>> \in Events
        <5>1. /\ Len(updates) \in Nat /\ Len(updates') = Len(updates) + 1
              /\ \A i \in 1..Len(updates): updates'[i] = updates[i]
              /\ updates'[Len(updates) + 1] = [ev |-> <<k, scan[k] + 1>>, removed |-> FALSE]
          BY <1>0, <4>2, UpdatesAppended
        <5> QED BY <5>1
      <4> QED BY <1>0, <2>5, <4>1, <4>2, Detected
    <3>3. \A e \in Range(batchChannel'): e[1] = k \/ e \in Range(batchChannel)
      <4>1. CASE UNCHANGED batchChannel
        BY <4>1
      <4>2. CASE batchChannel' = Append(batchChannel, <<k, scan[k] + 1>>) /\ <<k, scan[k] + 1>> \in Events
        BY <1>0, <4>2, ChannelAppended
      <4> QED BY <1>0, <2>5, <4>1, <4>2, Detected
    <3> QED BY <1>0, <2>0, <3>1, <3>2, <3>3 DEF NewInv
  <2>6. ASSUME NEW e \in RealEvents, Reorganise(e) PROVE NewInv'
    <3>1. \A i \in 1..Len(updates'): \/ \E j \in 1..Len(updates): updates'[i].ev = updates[j].ev
                                     \/ updates'[i].ev \in pending
      <4>1. /\ Len(updates) \in Nat /\ Len(updates') = Len(updates) + 1
            /\ \A i \in 1..Len(updates): updates'[i] = updates[i]
            /\ updates'[Len(updates) + 1].ev = e
            /\ e \in pending \/ \E i \in 1..Len(updates): updates[i].ev = e
        <5>1. /\ Len(updates) \in Nat /\ Len(updates') = Len(updates) + 1
              /\ \A i \in 1..Len(updates): updates'[i] = updates[i]
              /\ updates'[Len(updates) + 1] = [ev |-> e, removed |-> TRUE]
          BY <1>0, <2>6, Reorganised
        <5>2. e \in pending \/ \E i \in 1..Len(updates): updates[i].ev = e
          BY <1>0, <2>6, Reorganised
        <5> QED BY <5>1, <5>2
      <4>2. ASSUME NEW i \in 1..Len(updates')
            PROVE  \/ \E j \in 1..Len(updates): updates'[i].ev = updates[j].ev
                   \/ updates'[i].ev \in pending
        <5>1. CASE i = Len(updates) + 1
          BY <4>1, <5>1
        <5>2. CASE i \in 1..Len(updates)
          BY <4>1, <5>2
        <5> QED BY <4>1, <5>1, <5>2
      <4> QED BY <4>2
    <3>2. UNCHANGED <<pending, pushing, batchChannel>>
      BY <1>0, <2>6, Reorganised
    <3> QED BY <1>0, <2>0, <3>1, <3>2 DEF NewInv
  <2> QED BY <1>2, <2>1, <2>2, <2>3, <2>4, <2>5, <2>6 DEF PipeNext, Pipeline
<1>3. CASE BatchLoop
  <2>1. UNCHANGED <<known, updates, pending, pushing>>
    BY <1>3, BatchFrame DEF connectorVars
  <2>2. Range(batchChannel') \subseteq Range(batchChannel)
    <3>1. CASE PollEvent
      BY <1>0, <3>1, ChannelTail DEF PollEvent
    <3>2. CASE ~PollEvent
      <4>1. UNCHANGED batchChannel
        BY <1>3, <3>2 DEF BatchLoop, PollTimeout, PollStopped, Post, Broadcast, WaitForAck, ActionInterrupted, RetryAction, GiveUp,
                    SendBatch, QueryHWM, GenerateCheckpoint, ApplyHWM, WriteCheckpoint, WriteInterrupted, pipeVars
      <4> QED BY <4>1
    <3> QED BY <3>1, <3>2
  <2> QED BY <1>0, <2>1, <2>2 DEF NewInv
<1>4. CASE ServerNext \/ UNCHANGED vars
  <2>1. UNCHANGED <<known, updates, pending, pushing, batchChannel, lst>>
    BY <1>4, ServerFrame DEF listenerVars, connectorVars, pipeVars, vars
  <2> QED BY <1>0, <2>1 DEF NewInv
<1>5. CASE Crash
  <2>1. known' = {} /\ updates' = << >> /\ pending' = {} /\ pushing' = None /\ batchChannel' = << >>
    BY <1>5 DEF Crash
  <2> QED BY <2>1, EmptyRange DEF NewInv
<1> QED BY <1>1, <1>2, <1>3, <1>4, <1>5, NextSplit

LEMMA PipeStep == ASSUME Invariant, [Next]_vars PROVE PipeInv'
<1>0. TypeInv /\ AdminOK /\ PipeInv /\ setup' = setup /\ gone \subseteq gone'
  BY SettledGrows DEF Invariant
<1>s. SUFFICES /\ \A i \in 1..Len(updates'): ~IsBlocks(updates'[i].ev[1]) /\ (updates'[i].removed => updates'[i].ev \in gone')
               /\ \A e \in pending': ~IsBlocks(e[1])
               /\ pushing' # None => ~IsBlocks(pushing'[1])
               /\ ~setup.confirms => pending' = {}
  BY <1>0 DEF PipeInv, IsBlocks
<1>1. CASE \E a \in Admins: AdminNext(a)
  <2>1. UNCHANGED <<pushing, pending>>
    BY <1>1, AdminFrame
  <2>2. UNCHANGED updates \/ updates' = << >>
    BY <1>1, AdminUpdates
  <2>3. CASE updates' = << >>
    BY <1>0, <2>1, <2>3 DEF PipeInv
  <2>4. CASE UNCHANGED updates
    BY <1>0, <2>1, <2>4 DEF PipeInv
  <2> QED BY <2>2, <2>3, <2>4
<1>2. CASE EventLoop
  <2>1. \A i \in 1..Len(updates'): \E j \in 1..Len(updates): updates'[i] = updates[j]
    BY <1>0, <1>2, Looped
  <2>2. ~IsBlocks(updates[1].ev[1])
    BY <1>0, <1>2, Looped DEF PipeInv
  <2>3. /\ pushing' = pushing \/ pushing' = updates[1].ev
        /\ \A e \in pending': e \in pending \/ e = updates[1].ev
        /\ ~setup.confirms => pending' \subseteq pending
    BY <1>0, <1>2, Looped
  <2> QED BY <1>0, <2>1, <2>2, <2>3 DEF PipeInv
<1>3. CASE EventLoopExits \/ Push
  <2>1. UNCHANGED <<updates, pending>> /\ (pushing' = pushing \/ pushing' = None)
    BY <1>3 DEF EventLoopExits, Push
  <2> QED BY <1>0, <2>1 DEF PipeInv
<1>4. ASSUME NEW k \in Listeners, Confirm(k)
      PROVE  /\ \A i \in 1..Len(updates'): ~IsBlocks(updates'[i].ev[1]) /\ (updates'[i].removed => updates'[i].ev \in gone')
             /\ \A e \in pending': ~IsBlocks(e[1])
             /\ pushing' # None => ~IsBlocks(pushing'[1])
             /\ ~setup.confirms => pending' = {}
  <2>1. pushing' \in pending /\ pending' \subseteq pending /\ UNCHANGED updates
    BY <1>4 DEF Confirm
  <2> QED BY <1>0, <2>1 DEF PipeInv
<1>5. ASSUME NEW k \in Listeners, Detect(k)
      PROVE  /\ \A i \in 1..Len(updates'): ~IsBlocks(updates'[i].ev[1]) /\ (updates'[i].removed => updates'[i].ev \in gone')
             /\ \A e \in pending': ~IsBlocks(e[1])
             /\ pushing' # None => ~IsBlocks(pushing'[1])
             /\ ~setup.confirms => pending' = {}
  <2>1. UNCHANGED <<pending, pushing>>
    BY <1>0, <1>5, Detected
  <2>2. CASE UNCHANGED updates
    BY <1>0, <2>1, <2>2 DEF PipeInv
  <2>3. CASE /\ updates' = Append(updates, [ev |-> <<k, scan[k] + 1>>, removed |-> FALSE]) /\ <<k, scan[k] + 1>> \in Events
             /\ ~IsBlocks(k)
    <3>1. /\ Len(updates) \in Nat /\ Len(updates') = Len(updates) + 1
          /\ \A i \in 1..Len(updates): updates'[i] = updates[i]
          /\ updates'[Len(updates) + 1] = [ev |-> <<k, scan[k] + 1>>, removed |-> FALSE]
      BY <1>0, <2>3, UpdatesAppended
    <3> QED BY <1>0, <2>1, <2>3, <3>1 DEF PipeInv
  <2> QED BY <1>0, <1>5, <2>2, <2>3, Detected
<1>6. ASSUME NEW e \in RealEvents, Reorganise(e)
      PROVE  /\ \A i \in 1..Len(updates'): ~IsBlocks(updates'[i].ev[1]) /\ (updates'[i].removed => updates'[i].ev \in gone')
             /\ \A x \in pending': ~IsBlocks(x[1])
             /\ pushing' # None => ~IsBlocks(pushing'[1])
             /\ ~setup.confirms => pending' = {}
  <2>1. /\ Len(updates) \in Nat /\ Len(updates') = Len(updates) + 1
        /\ \A i \in 1..Len(updates): updates'[i] = updates[i]
        /\ updates'[Len(updates) + 1] = [ev |-> e, removed |-> TRUE]
        /\ UNCHANGED <<pending, pushing>> /\ e \in gone'
    BY <1>0, <1>6, Reorganised
  <2>2. e \in pending \/ \E i \in 1..Len(updates): updates[i].ev = e
    BY <1>0, <1>6, Reorganised
  <2>3. ~IsBlocks(e[1])
    BY <1>0, <2>2 DEF PipeInv
  <2> QED BY <1>0, <2>1, <2>3 DEF PipeInv
<1>7. CASE BatchLoop \/ ServerNext \/ UNCHANGED vars
  <2>1. UNCHANGED <<updates, pending, pushing>>
    BY <1>7, BatchFrame, ServerFrame DEF pipeVars, vars
  <2> QED BY <1>0, <2>1 DEF PipeInv
<1>8. CASE Crash
  <2>1. updates' = << >> /\ pending' = {} /\ pushing' = None
    BY <1>8 DEF Crash
  <2> QED BY <2>1
<1> QED BY <1>1, <1>2, <1>3, <1>4, <1>5, <1>6, <1>7, <1>8, NextSplit DEF PipeNext, Pipeline

\* The batch.
LEMMA EmptyBatch ==
    ASSUME bl' = IdleBatch("done") \/ bl' = IdleBatch("none") \/ bl' = IdleBatch("poll")
    PROVE  /\ bl'.events = << >> /\ BatchEvents' = {} /\ bl'.cps = NoCps /\ bl'.cp = NoCps /\ bl'.stale = {} /\ bl'.hwm = << >>
           /\ bl'.pc \in {"done", "none", "poll"} /\ \A l \in Listeners: NoCps[l] = 0
BY IdleBatchType, EmptyRange DEF BatchEvents, NoCps

\* The ends of the batch loop by what is lost.
LEMMA Exits ==
    ASSUME TypeInv, PollStopped \/ WriteInterrupted \/ (GiveUp /\ setup.onError = "block")
    PROVE  /\ bl' = IdleBatch("done") /\ dropped \subseteq dropped' /\ (WriteInterrupted \/ BatchEvents \subseteq dropped')
           /\ WriteInterrupted => bl.pc = "hwm"
           /\ UNCHANGED <<wsVars, streamVars, listenerVars, connectorVars, pipeVars, bounds, batchNumber, skipped>>
BY DEF PollStopped, WriteInterrupted, GiveUp, Exit

LEMMA BatchPartsStep == ASSUME Invariant, [Next]_vars PROVE BatchInv'
<1>0. TypeInv /\ AdminOK /\ BatchInv /\ AckInv /\ StatusInv /\ Sound \subseteq Sound' /\ setup' = setup
      /\ bl \in BatchType /\ bl.events \in Seq(Events)
  BY Grows DEF Invariant, TypeInv, BatchTypes, BatchType
<1>s. SUFFICES /\ bl'.pc \in {"hwm", "done", "none"} => bl'.events = << >>
               /\ \A l \in Listeners: bl'.cps[l] # 0 => <<l, bl'.cps[l]>> \in Range(bl'.events)
               /\ bl'.pc = "gen" => Range(bl'.events) \subseteq Sound'
               /\ \A l \in bl'.stale: ~IsBlocks(l)
               /\ bl'.hwm # << >> => bl'.hwm[1] \in bl'.stale
               /\ setup.onError = "block" /\ setup.mode # "broadcast" => skipped' = {}
  BY <1>0 DEF BatchInv, IsBlocks, BatchEvents
<1>i. CASE (bl' = IdleBatch("done") \/ bl' = IdleBatch("none") \/ bl' = IdleBatch("poll")) /\ UNCHANGED skipped
  BY <1>0, <1>i, EmptyBatch DEF BatchInv, BatchEvents
<1>u. CASE UNCHANGED <<bl, skipped>>
  BY <1>0, <1>u DEF BatchInv, BatchEvents
<1>1. CASE \E a \in Admins: AdminNext(a)
  <2>1. UNCHANGED skipped
    BY <1>1, AdminFrame
  <2> QED BY <1>i, <1>u, <1>1, <2>1, AdminUpdates
<1>2. CASE PipeNext \/ ServerNext \/ UNCHANGED vars
  BY <1>2, <1>u, PipeFrame, ServerFrame DEF batchVars, vars
<1>3. CASE Crash
  BY <1>3, <1>i DEF Crash
<1>4. CASE PollEvent
  <2> DEFINE e == Head(batchChannel)
  <2>1. CASE ~Deliverable(e)
    BY <1>0, <1>4, <1>u, <2>1, PollEventStep DEF PollEvent
  <2>2. CASE Deliverable(e)
    <3>1. /\ e \in Events /\ bl'.events = Append(bl.events, e) /\ bl'.pc \in {"poll", "act"}
          /\ bl'.cps = [bl.cps EXCEPT ![e[1]] = e[2]] /\ UNCHANGED <<bl.stale, bl.hwm, skipped>>
      BY <1>0, <1>4, <2>2, PollEventStep DEF PollEvent
    <3> HIDE DEF e
    <3>2. Range(bl'.events) = Range(bl.events) \cup {e}
      BY <1>0, <3>1, AppendRange
    <3>3. e[1] \in Listeners /\ e = <<e[1], e[2]>> /\ bl.cps \in Positions
      BY <1>0, <3>1, EventParts DEF BatchType
    <3>4. ASSUME NEW l \in Listeners, bl'.cps[l] # 0 PROVE <<l, bl'.cps[l]>> \in Range(bl'.events)
      <4>1. CASE l = e[1]
        BY <3>1, <3>2, <3>3, <4>1 DEF Positions
      <4>2. CASE l # e[1]
        BY <1>0, <3>1, <3>2, <3>3, <3>4, <4>2 DEF Positions, BatchInv, BatchEvents
      <4> QED BY <4>1, <4>2
    <3> QED BY <1>0, <3>1, <3>4 DEF BatchInv
  <2> QED BY <2>1, <2>2
<1>5. CASE PollStopped \/ WriteInterrupted \/ (GiveUp /\ setup.onError = "block")
  BY <1>0, <1>5, <1>i, Exits
<1>6. CASE \/ PollTimeout \/ Post \/ Broadcast \/ WaitForAck \/ ActionInterrupted \/ RetryAction
           \/ (GiveUp /\ setup.onError = "skip") \/ \E c \in Conns: SendBatch(c)
  <2>1. /\ UNCHANGED <<bl.events, bl.cps, bl.stale, bl.hwm>> /\ bl'.pc \in {"act", "ack", "backoff", "gen"}
    BY <1>0, <1>6, ActStep
  <2>2. setup.onError = "block" /\ setup.mode # "broadcast" => UNCHANGED skipped
    BY <1>6 DEF PollTimeout, Post, Broadcast, WaitForAck, ActionInterrupted, RetryAction, SendBatch
  <2>3. ASSUME bl'.pc = "gen" PROVE Range(bl.events) \subseteq Sound'
    <3>1. CASE PollTimeout
      <4>1. bl.events = << >>
        BY <1>0, <2>3, <3>1 DEF PollTimeout, BatchType
      <4> QED BY <4>1, EmptyRange
    <3>2. CASE Post
      <4>1. received' = received \cup BatchEvents \/ Goto("backoff")
        BY <3>2 DEF Post
      <4> QED BY <1>0, <2>3, <4>1, GotoTypes DEF Sound, BatchEvents
    <3>3. CASE Broadcast \/ GiveUp
      <4>1. skipped' = skipped \cup BatchEvents \/ GiveUp
        BY <3>3 DEF Broadcast
      <4>2. CASE GiveUp
        <5>1. skipped' = skipped \cup BatchEvents \/ Exit(BatchEvents)
          BY <4>2 DEF GiveUp
        <5> QED BY <1>0, <2>3, <5>1, IdleBatchType DEF Exit, Sound, BatchEvents
      <4> QED BY <4>1, <4>2 DEF Sound, BatchEvents
    <3>4. CASE WaitForAck
      <4>0. bl.pc = "ack" /\ receiver # << >>
        BY <3>4 DEF WaitForAck
      <4>1. Head(receiver) = batchNumber
        BY <1>0, <2>3, <3>4, <4>0, GotoTypes DEF WaitForAck
      <4>2. Head(receiver) \in Range(receiver)
        BY <1>0, <4>0, TailRange DEF TypeInv, ServerTypes
      <4>3. bl.events # << >> => BatchEvents \subseteq received
        BY <1>0, <4>0, <4>1, <4>2 DEF AckInv
      <4> QED BY <1>0, <4>3, EmptyRange DEF BatchEvents, Sound
    <3>5. CASE ActionInterrupted \/ RetryAction \/ \E c \in Conns: SendBatch(c)
      <4>1. \E p \in {"act", "ack", "backoff"}: Goto(p)
        BY <3>5 DEF ActionInterrupted, RetryAction, SendBatch
      <4> QED BY <1>0, <2>3, <4>1, GotoTypes
    <3> QED BY <1>6, <3>1, <3>2, <3>3, <3>4, <3>5
  <2> QED BY <1>0, <2>1, <2>2, <2>3 DEF BatchInv, BatchEvents
<1>7. CASE GenerateCheckpoint
  BY <1>0, <1>7, GenerateStep, EmptyRange DEF BatchInv, NoCps
<1>8. ASSUME NEW k \in Listeners, QueryHWM(k) PROVE BatchInv'
  <2>1. /\ UNCHANGED <<bl.pc, bl.events, bl.cps, skipped>> /\ bl.pc = "hwm" /\ k \in bl.stale
        /\ \/ bl'.hwm = << >> /\ bl'.stale = bl.stale \ {k}
           \/ bl'.hwm = <<k, scan[k], IF setup.tracks THEN last[k] ELSE 0>> /\ UNCHANGED bl.stale
    BY <1>0, <1>8, QueryStep
  <2> QED BY <1>0, <2>1 DEF BatchInv, BatchEvents, IsBlocks
<1>9. CASE ApplyHWM
  <2>1. /\ UNCHANGED <<bl.pc, bl.events, bl.cps, skipped>> /\ bl.pc = "hwm" /\ bl'.hwm = << >> /\ bl'.stale \subseteq bl.stale
    BY <1>0, <1>9, ApplyStep
  <2> QED BY <1>0, <2>1 DEF BatchInv, BatchEvents
<1>10. CASE WriteCheckpoint
  BY <1>0, <1>10, <1>i DEF WriteCheckpoint
<1>11. CASE BatchLoop
  <2>1. CASE \E k \in Listeners: QueryHWM(k)
    BY <1>8, <2>1, <1>0 DEF BatchInv, BatchEvents, IsBlocks
  <2>2. GiveUp => setup.onError = "skip" \/ setup.onError = "block"
    BY DEF GiveUp
  <2> QED BY <1>4, <1>5, <1>6, <1>7, <1>9, <1>10, <1>11, <2>1, <2>2 DEF BatchLoop
<1> QED BY <1>1, <1>2, <1>3, <1>11, NextSplit

\* The steps of the server by what they move: a message to its client, an ack or an
\* error to the receiver channel.
Moved(c) ==
    /\ \A d \in Conns: d # c => conn'[d] = conn[d]
    /\ conn'[c].msg \in {NoMsg, conn[c].msg}
    /\ \/ conn'[c].inbox \subseteq conn[c].inbox
       \/ /\ conn'[c].inbox = conn[c].inbox \cup {conn[c].msg.n}
          /\ conn[c].msg.n # 0 /\ conn[c].msg.evs \subseteq received'
    /\ Range(receiver') \subseteq Range(receiver) \cup {Err} \cup conn[c].inbox
    /\ received' = received \/ received' = received \cup conn[c].msg.evs
    /\ UNCHANGED fan

LEMMA AnswerMoves ==
    ASSUME ServerTypes, NEW c \in Conns, NEW n \in conn[c].inbox \cup {Err}, NEW S, DispatchAckOrError(c, n, S),
           UNCHANGED <<fan, received>>
    PROVE  Moved(c)
<1>0. conn \in [Conns -> ConnType] /\ conn[c] \in ConnType /\ conn[c].inbox \subseteq Nat /\ receiver \in Seq(Nat) /\ n \in Nat
  BY DEF ServerTypes, ConnType, Err
<1>1. CASE Len(receiver) < ReceiverCap
  <2>1. receiver' = Append(receiver, n) /\ conn' = [conn EXCEPT ![c].inbox = @ \ S]
    BY <1>1 DEF DispatchAckOrError
  <2>2. Range(receiver') = Range(receiver) \cup {n}
    BY <1>0, <2>1, AppendRange
  <2>3. (\A d \in Conns: d # c => conn'[d] = conn[d]) /\ conn'[c].msg = conn[c].msg /\ conn'[c].inbox = conn[c].inbox \ S
    BY <1>0, <2>1 DEF ConnType
  <2> QED BY <2>2, <2>3 DEF Moved
<1>2. CASE ~(Len(receiver) < ReceiverCap)
  <2>1. /\ UNCHANGED receiver
        /\ conn' = [conn EXCEPT ![c] = [conn[c] EXCEPT !.reader = "done", !.closed = TRUE, !.alive = FALSE,
                                                 !.maps = {}, !.inbox = {}]]
    BY <1>2 DEF DispatchAckOrError
  <2>2. (\A d \in Conns: d # c => conn'[d] = conn[d]) /\ conn'[c].msg = conn[c].msg /\ conn'[c].inbox = {}
    BY <1>0, <2>1 DEF ConnType
  <2> QED BY <2>1, <2>2 DEF Moved
<1> QED BY <1>1, <1>2

LEMMA CloseMoves ==
    ASSUME ServerTypes, NEW c \in Conns, NEW g \in {"reader", "sender"}, Close(c, g)
    PROVE  Moved(c)
<1>0. conn \in [Conns -> ConnType] /\ conn[c] \in ConnType /\ receiver \in Seq(Nat) /\ Err \in Nat
  BY DEF ServerTypes, Err
<1>1. /\ conn' = [conn EXCEPT ![c] = [@ EXCEPT ![g] = "done", !.closed = TRUE, !.alive = FALSE,
                                             !.maps = {}, !.inbox = {}, !.msg = NoMsg]]
      /\ CycleTopic(conn[c].joined) /\ UNCHANGED <<fan, received>>
  BY DEF Close
<1>2. (\A d \in Conns: d # c => conn'[d] = conn[d]) /\ conn'[c].msg = NoMsg /\ conn'[c].inbox = {}
  BY <1>0, <1>1 DEF ConnType
<1>3. Range(receiver') \subseteq Range(receiver) \cup {Err}
  <2>1. receiver' = receiver \/ receiver' = Append(receiver, Err)
    BY <1>1 DEF CycleTopic
  <2>2. Range(Append(receiver, Err)) = Range(receiver) \cup {Err}
    BY <1>0, AppendRange
  <2> QED BY <2>1, <2>2
<1> QED BY <1>1, <1>2, <1>3 DEF Moved

LEMMA ConnMoves ==
    ASSUME ServerTypes, NEW c \in Conns, ConnStep(c) \/ ClientStep(c) \/ ListenReplies(c), ~\E f \in Fans: FanOut(f, c)
    PROVE  Moved(c)
<1>0. conn \in [Conns -> ConnType] /\ conn[c] \in ConnType /\ conn[c].msg \in MsgType
  BY DEF ServerTypes, ConnType
<1>1. CASE ReadFails(c) \/ SenderCloses(c)
  BY <1>1, CloseMoves DEF ReadFails, SenderCloses
<1>2. CASE TopicTold(c) \/ TopicNotTold(c) \/ Disconnect(c) \/ ListenTopic(c) \/ ListenReplies(c)
  <2>1. UNCHANGED <<receiver, fan, received>>
    BY <1>2 DEF TopicTold, TopicNotTold, Disconnect, ListenTopic, ListenReplies
  <2>2. (\A d \in Conns: d # c => conn'[d] = conn[d]) /\ conn'[c].msg = conn[c].msg /\ conn'[c].inbox = conn[c].inbox
    <3>1. CASE TopicTold(c)
      BY <1>0, <3>1 DEF TopicTold, ConnType
    <3>2. CASE TopicNotTold(c)
      BY <1>0, <3>2 DEF TopicNotTold, ConnType
    <3>3. CASE Disconnect(c)
      BY <1>0, <3>3 DEF Disconnect, ConnType
    <3>4. CASE ListenTopic(c)
      BY <1>0, <3>4 DEF ListenTopic, ConnType
    <3>5. CASE ListenReplies(c)
      BY <1>0, <3>5 DEF ListenReplies, ConnType
    <3> QED BY <1>2, <3>1, <3>2, <3>3, <3>4, <3>5
  <2> QED BY <2>1, <2>2 DEF Moved
<1>3. CASE SenderWrites(c)
  <2> DEFINE there == conn[c].alive /\ ~conn[c].closed
  <2>1. /\ conn' = [conn EXCEPT ![c].sender = "select", ![c].msg = NoMsg,
                                ![c].inbox = IF there /\ conn[c].msg.n # 0 THEN @ \cup {conn[c].msg.n} ELSE @]
        /\ received' = IF there THEN received \cup conn[c].msg.evs ELSE received
        /\ UNCHANGED <<receiver, fan>>
    BY <1>3 DEF SenderWrites
  <2> HIDE DEF there
  <2>2. /\ \A d \in Conns: d # c => conn'[d] = conn[d]
        /\ conn'[c].msg = NoMsg
        /\ conn'[c].inbox = IF there /\ conn[c].msg.n # 0 THEN conn[c].inbox \cup {conn[c].msg.n} ELSE conn[c].inbox
    BY <1>0, <2>1 DEF ConnType
  <2> QED BY <2>1, <2>2 DEF Moved
<1>4. CASE Connect(c)
  <2>1. conn' = [conn EXCEPT ![c] = NewConn] /\ NewConn.msg = NoMsg /\ NewConn.inbox = {} /\ UNCHANGED <<receiver, fan, received>>
    BY <1>4 DEF Connect, NewConn
  <2> QED BY <1>0, <2>1 DEF Moved
<1>5. CASE Ack(c)
  BY <1>5, AnswerMoves DEF Ack
<1>6. CASE ClientError(c)
  BY <1>6, AnswerMoves DEF ClientError
<1> QED BY <1>1, <1>2, <1>3, <1>4, <1>5, <1>6 DEF ConnStep, ClientStep

LEMMA FanMoves ==
    ASSUME ServerTypes, NEW c \in Conns, NEW f \in Fans, FanOut(f, c)
    PROVE  /\ \A d \in Conns: d # c => conn'[d] = conn[d]
           /\ conn'[c].msg \in {conn[c].msg, fan[f].msg} /\ conn'[c].inbox = conn[c].inbox
           /\ \A g \in Fans: g # f => fan'[g] = fan[g]
           /\ fan'[f].msg \in {NoMsg, fan[f].msg}
           /\ c \in fan[f].to /\ UNCHANGED <<receiver, received>>
<1>0. conn \in [Conns -> ConnType] /\ conn[c] \in ConnType /\ fan \in [Fans -> [to: SUBSET Conns, msg: MsgType]]
  BY DEF ServerTypes
<1>1. /\ \A d \in Conns: d # c => conn'[d] = conn[d]
      /\ conn'[c].msg \in {conn[c].msg, fan[f].msg} /\ conn'[c].inbox = conn[c].inbox
  <2>1. conn' = [conn EXCEPT ![c].sender = "write", ![c].msg = fan[f].msg] \/ UNCHANGED conn
    BY DEF FanOut, Taken
  <2> QED BY <1>0, <2>1 DEF ConnType
<1>2. (\A g \in Fans: g # f => fan'[g] = fan[g]) /\ fan'[f].msg \in {NoMsg, fan[f].msg}
  <2>1. fan' = [fan EXCEPT ![f] = IdleFan] \/ fan' = [fan EXCEPT ![f].to = @ \ {c}]
    BY DEF FanOut
  <2>2. IdleFan.msg = NoMsg
    BY DEF IdleFan
  <2> QED BY <1>0, <2>1, <2>2
<1> QED BY <1>1, <1>2 DEF FanOut

\* Acks.
LEMMA AckKept ==
    ASSUME AckInv, UNCHANGED <<setup, conn, fan, batchNumber>>, Range(receiver') \subseteq Range(receiver),
           received \subseteq received', bl'.pc = "ack" => setup.mode = "load_balance" \/ bl.pc = "ack",
           bl'.events = << >> \/ (bl'.events = bl.events /\ (bl'.pc = "poll" => bl.pc = "poll"))
    PROVE  AckInv'
<1>1. CASE bl'.events = << >>
  BY <1>1 DEF AckInv
<1>2. CASE bl'.events = bl.events /\ (bl'.pc = "poll" => bl.pc = "poll")
  <2>1. BatchEvents' = BatchEvents
    BY <1>2 DEF BatchEvents
  <2> QED BY <1>2, <2>1 DEF AckInv
<1> QED BY <1>1, <1>2

LEMMA AckStep == ASSUME Invariant, [Next]_vars PROVE AckInv'
<1>0. /\ TypeInv /\ ServerTypes /\ AdminOK /\ BatchInv /\ AckInv /\ Sound \subseteq Sound' /\ setup' = setup
      /\ bl \in BatchType /\ bl.events \in Seq(Events) /\ batchNumber \in Nat /\ received \subseteq received'
      /\ conn \in [Conns -> ConnType] /\ receiver \in Seq(Nat) /\ Range(receiver) \subseteq Nat
  BY Grows, SettledGrows, RangeSub DEF Invariant, TypeInv, ServerTypes, BatchTypes, BatchType
<1>1. CASE \E a \in Admins: AdminNext(a)
  <2>1. UNCHANGED <<conn, receiver, fan, batchNumber>>
    BY <1>1, AdminFrame DEF wsVars
  <2>2. bl' = bl \/ bl' = IdleBatch("poll") \/ bl' = IdleBatch("none")
    BY <1>1, AdminUpdates
  <2>3. CASE bl' = bl
    BY <1>0, <2>1, <2>3, AckKept
  <2>4. CASE bl' = IdleBatch("poll") \/ bl' = IdleBatch("none")
    BY <1>0, <2>1, <2>4, AckKept, EmptyBatch
  <2> QED BY <2>2, <2>3, <2>4
<1>2. CASE PipeNext \/ UNCHANGED vars
  BY <1>0, <1>2, AckKept, PipeFrame DEF wsVars, batchVars, vars
<1>3. CASE Crash
  <2>1. /\ conn' = [c \in Conns |-> GoneConn] /\ receiver' = << >> /\ fan' = [f \in Fans |-> IdleFan]
        /\ bl' = IdleBatch("done") /\ batchNumber' = 0
    BY <1>3 DEF Crash
  <2>2. GoneConn.msg.n = 0 /\ GoneConn.inbox = {}
    BY DEF GoneConn, NewConn, NoMsg
  <2>3. /\ bl'.events = << >> /\ bl'.pc \in {"done", "none", "poll"} /\ Range(receiver') = {}
        /\ \A c \in Conns: conn'[c] = GoneConn
        /\ \A f \in Fans: fan'[f] = IdleFan
    BY <2>1, EmptyBatch, EmptyRange
  <2> QED BY <2>1, <2>2, <2>3 DEF AckInv
<1>4. CASE PollEvent
  <2> DEFINE e == Head(batchChannel)
  <2>0. UNCHANGED <<conn, receiver, fan, received>> /\ bl.pc = "poll"
    BY <1>4 DEF PollEvent, wsVars
  <2>1. CASE ~Deliverable(e)
    BY <1>0, <1>4, <2>0, <2>1, AckKept, PollEventStep
  <2>2. CASE Deliverable(e)
    <3>1. /\ bl'.pc \in {"poll", "act"}
          /\ batchNumber' = IF bl.events = << >> THEN batchNumber + 1 ELSE batchNumber
      BY <1>0, <1>4, <2>2, PollEventStep
    <3>2. batchNumber' > 0 /\ batchNumber' >= batchNumber
      BY <1>0, <3>1 DEF AckInv
    <3>3. setup.mode # "broadcast" => \A k \in Fans: fan'[k] = IdleFan
      BY <1>0, <2>0 DEF AckInv
    <3>4. ASSUME setup.mode = "load_balance"
          PROVE  /\ \A c \in Conns: conn[c].msg.n <= batchNumber' /\ \A n \in conn[c].inbox: n <= batchNumber'
                 /\ \A n \in Range(receiver): n <= batchNumber'
      <4>1. \A c \in Conns: conn[c].msg.n \in Nat /\ conn[c].inbox \subseteq Nat
        BY <1>0 DEF ConnType, MsgType
      <4> QED BY <1>0, <3>2, <3>4, <3>1, <4>1 DEF AckInv
    <3>5. ASSUME setup.mode = "load_balance"
          PROVE  /\ \A c \in Conns: conn[c].msg.n # batchNumber' /\ batchNumber' \notin conn[c].inbox
                 /\ batchNumber' \notin Range(receiver)
      <4>1. CASE bl.events = << >>
        <5>1. \A c \in Conns: conn[c].msg.n <= batchNumber /\ \A n \in conn[c].inbox: n <= batchNumber
          BY <1>0, <3>5 DEF AckInv
        <5>2. \A n \in Range(receiver): n <= batchNumber
          BY <1>0, <3>5 DEF AckInv
        <5>3. batchNumber' = batchNumber + 1 /\ ~(batchNumber + 1 <= batchNumber)
          BY <1>0, <3>1, <4>1
        <5> QED BY <5>1, <5>2, <5>3
      <4>2. CASE bl.events # << >>
        BY <1>0, <2>0, <3>1, <3>5, <4>2 DEF AckInv
      <4> QED BY <4>1, <4>2
    <3> QED BY <1>0, <2>0, <3>1, <3>2, <3>3, <3>4, <3>5 DEF AckInv
  <2> QED BY <2>1, <2>2
<1>5. CASE PollStopped \/ WriteInterrupted \/ (GiveUp /\ setup.onError = "block")
  BY <1>0, <1>5, Exits, EmptyBatch, AckKept DEF wsVars
<1>6. CASE PollTimeout \/ Post \/ ActionInterrupted \/ RetryAction \/ (GiveUp /\ setup.onError = "skip")
  <2>1. /\ UNCHANGED <<bl.events, batchNumber>> /\ bl'.pc \in {"act", "ack", "backoff", "gen"}
    BY <1>0, <1>6, ActStep
  <2>2. UNCHANGED <<conn, receiver, fan>>
    BY <1>6 DEF PollTimeout, Post, ActionInterrupted, RetryAction, GiveUp, wsVars
  <2>3. bl'.pc # "ack"
    <3>1. CASE PollTimeout
      BY <1>0, <3>1 DEF PollTimeout, BatchType
    <3>2. CASE Post \/ ActionInterrupted \/ RetryAction \/ (GiveUp /\ setup.onError = "skip")
      <4>1. Goto("backoff") \/ Goto("gen") \/ Goto("act")
        BY <3>2 DEF Post, ActionInterrupted, RetryAction, GiveUp
      <4> QED BY <1>0, <4>1, GotoTypes
    <3> QED BY <1>6, <3>1, <3>2
  <2> QED BY <1>0, <2>1, <2>2, <2>3, AckKept
<1>7. CASE Broadcast
  <2>1. UNCHANGED <<bl.events, batchNumber>> /\ Goto("gen") /\ setup.mode = "broadcast"
    BY <1>0, <1>7, ActStep DEF Broadcast
  <2>2. bl'.pc = "gen"
    BY <1>0, <2>1, GotoTypes
  <2> QED BY <1>0, <2>1, <2>2 DEF AckInv
<1>8. CASE WaitForAck
  <2>1. /\ UNCHANGED <<bl.events, batchNumber>> /\ bl'.pc \in {"act", "ack", "backoff", "gen"} /\ bl.pc = "ack"
        /\ receiver # << >> /\ receiver' = Tail(receiver) /\ UNCHANGED <<conn, fan, received>>
    BY <1>0, <1>8, ActStep DEF WaitForAck
  <2>2. Range(receiver') \subseteq Range(receiver)
    BY <1>0, <2>1, TailRange
  <2> QED BY <1>0, <2>1, <2>2, AckKept
<1>9. ASSUME NEW c \in Conns, SendBatch(c) PROVE AckInv'
  <2>1. /\ UNCHANGED <<bl.events, batchNumber, receiver, fan, received>> /\ Goto("ack") /\ setup.mode = "load_balance"
        /\ conn' = [conn EXCEPT ![c].sender = "write", ![c].msg = Message]
    BY <1>0, <1>9, ActStep DEF SendBatch, Taken
  <2>2. bl'.pc = "ack" /\ BatchEvents' = BatchEvents
    BY <1>0, <2>1, GotoTypes DEF BatchEvents
  <2>3. /\ \A d \in Conns: d # c => conn'[d] = conn[d]
        /\ conn'[c].msg = Message /\ conn'[c].inbox = conn[c].inbox
    BY <1>0, <2>1 DEF ConnType
  <2>4. Message.n = batchNumber /\ Message.evs = BatchEvents
    BY DEF Message
  <2> HIDE DEF Message
  <2>5. bl.pc = "act"
    BY <1>9 DEF SendBatch
  <2>6. batchNumber <= batchNumber
    BY <1>0
  <2>7. /\ setup'.mode # "broadcast" => \A k \in Fans: fan'[k] = IdleFan
        /\ bl'.events # << >> => batchNumber' > 0
    BY <1>0, <2>1 DEF AckInv
  <2>8. /\ \A d \in Conns: conn'[d].msg.n <= batchNumber' /\ \A n \in conn'[d].inbox: n <= batchNumber'
        /\ \A n \in Range(receiver'): n <= batchNumber'
    BY <1>0, <2>1, <2>3, <2>4, <2>6 DEF AckInv
  <2>9. bl'.events # << >> =>
         /\ \A d \in Conns: conn'[d].msg.n = batchNumber' => bl'.pc # "poll" /\ conn'[d].msg.evs = BatchEvents'
         /\ \A d \in Conns: batchNumber' \in conn'[d].inbox => bl'.pc # "poll" /\ BatchEvents' \subseteq received'
         /\ batchNumber' \in Range(receiver') => bl'.pc # "poll" /\ BatchEvents' \subseteq received'
    BY <1>0, <2>1, <2>2, <2>3, <2>4 DEF AckInv
  <2> QED BY <1>0, <2>1, <2>2, <2>7, <2>8, <2>9 DEF AckInv
<1>10. CASE GenerateCheckpoint \/ ApplyHWM \/ \E k \in Listeners: QueryHWM(k)
  <2>1. /\ UNCHANGED <<conn, receiver, fan, batchNumber>> /\ bl'.pc = "hwm"
        /\ bl'.events = << >> \/ UNCHANGED bl.events
    BY <1>0, <1>10, GenerateStep, ApplyStep, QueryStep DEF wsVars
  <2> QED BY <1>0, <2>1, AckKept
<1>11. CASE WriteCheckpoint
  BY <1>0, <1>11, EmptyBatch, AckKept DEF WriteCheckpoint, wsVars
<1>12. CASE ServerNext
  <2>0. UNCHANGED <<bl, batchNumber>> /\ BatchEvents' = BatchEvents
    BY <1>12, ServerFrame DEF batchVars, BatchEvents
  <2>1. CASE setup.mode = "broadcast"
    BY <1>0, <2>0, <2>1 DEF AckInv
  <2>2. CASE setup.mode # "broadcast"
    <3>1. PICK c \in Conns: ConnStep(c) \/ ClientStep(c)
      BY <1>12, <2>2 DEF ServerNext, ServerStep, ReplyStep
    <3>2. ~\E f \in Fans: FanOut(f, c)
      BY <1>0, <2>2 DEF AckInv, FanOut, IdleFan
    <3>3. Moved(c)
      BY <1>0, <3>1, <3>2, ConnMoves
    <3>4. /\ \A d \in Conns: conn[d].msg.n \in Nat /\ conn[d].inbox \subseteq Nat
          /\ NoMsg.n = 0 /\ Err = 0
      BY <1>0 DEF ConnType, MsgType, NoMsg, Err
    <3>5. setup.mode # "broadcast" => \A k \in Fans: fan'[k] = IdleFan
      BY <1>0, <3>3 DEF AckInv, Moved
    <3>6. ASSUME setup.mode = "load_balance"
          PROVE  /\ \A d \in Conns: conn'[d].msg.n <= batchNumber /\ \A n \in conn'[d].inbox: n <= batchNumber
                 /\ \A n \in Range(receiver'): n <= batchNumber
      <4>1. /\ \A d \in Conns: conn[d].msg.n <= batchNumber /\ \A n \in conn[d].inbox: n <= batchNumber
            /\ \A n \in Range(receiver): n <= batchNumber
            /\ 0 <= batchNumber
        BY <1>0, <3>6 DEF AckInv
      <4>2. conn'[c].msg.n <= batchNumber
        BY <3>3, <3>4, <4>1 DEF Moved
      <4>3. \A n \in conn'[c].inbox: n <= batchNumber
        BY <3>3, <4>1 DEF Moved
      <4>4. \A n \in Range(receiver'): n <= batchNumber
        BY <3>3, <3>4, <4>1 DEF Moved
      <4>5. \A d \in Conns: d # c => conn'[d] = conn[d]
        BY <3>3 DEF Moved
      <4>6. ASSUME NEW d \in Conns PROVE conn'[d].msg.n <= batchNumber /\ \A n \in conn'[d].inbox: n <= batchNumber
        <5>1. CASE d = c
          BY <4>2, <4>3, <5>1
        <5>2. CASE d # c
          BY <4>1, <4>5, <5>2
        <5> QED BY <5>1, <5>2
      <4> QED BY <4>4, <4>6
    <3>7. ASSUME setup.mode = "load_balance", bl.events # << >>
          PROVE  /\ \A d \in Conns: conn'[d].msg.n = batchNumber => bl.pc # "poll" /\ conn'[d].msg.evs = BatchEvents
                 /\ \A d \in Conns: batchNumber \in conn'[d].inbox => bl.pc # "poll" /\ BatchEvents \subseteq received'
                 /\ batchNumber \in Range(receiver') => bl.pc # "poll" /\ BatchEvents \subseteq received'
      <4>1. /\ \A d \in Conns: conn[d].msg.n = batchNumber => bl.pc # "poll" /\ conn[d].msg.evs = BatchEvents
            /\ \A d \in Conns: batchNumber \in conn[d].inbox => bl.pc # "poll" /\ BatchEvents \subseteq received
            /\ batchNumber \in Range(receiver) => bl.pc # "poll" /\ BatchEvents \subseteq received
            /\ batchNumber # 0
        BY <1>0, <3>7 DEF AckInv
      <4>2. conn'[c].msg.n = batchNumber => bl.pc # "poll" /\ conn'[c].msg.evs = BatchEvents
        BY <3>3, <3>4, <4>1 DEF Moved
      <4>3. batchNumber \in conn'[c].inbox => bl.pc # "poll" /\ BatchEvents \subseteq received'
        BY <1>0, <3>3, <4>1 DEF Moved
      <4>4. batchNumber \in Range(receiver') => bl.pc # "poll" /\ BatchEvents \subseteq received'
        BY <1>0, <3>3, <3>4, <4>1 DEF Moved
      <4>5. \A d \in Conns: d # c => conn'[d] = conn[d]
        BY <3>3 DEF Moved
      <4>6. ASSUME NEW d \in Conns
            PROVE  /\ conn'[d].msg.n = batchNumber => bl.pc # "poll" /\ conn'[d].msg.evs = BatchEvents
                   /\ batchNumber \in conn'[d].inbox => bl.pc # "poll" /\ BatchEvents \subseteq received'
        <5>1. CASE d = c
          BY <4>2, <4>3, <5>1
        <5>2. CASE d # c
          BY <1>0, <4>1, <4>5, <5>2
        <5> QED BY <5>1, <5>2
      <4> QED BY <4>4, <4>6
    <3> QED BY <1>0, <2>0, <3>5, <3>6, <3>7 DEF AckInv
  <2> QED BY <2>1, <2>2
<1>13. CASE BatchLoop
  <2>1. GiveUp => setup.onError = "skip" \/ setup.onError = "block"
    BY DEF GiveUp
  <2> QED BY <1>4, <1>5, <1>6, <1>7, <1>8, <1>9, <1>10, <1>11, <1>13, <2>1 DEF BatchLoop
<1> QED BY <1>1, <1>2, <1>3, <1>12, <1>13, NextSplit

\* Order.
LEMMA OrderKept ==
    ASSUME OrderInv, Sound \subseteq Sound', \A l: Trusted(l)' => Trusted(l),
           UNCHANGED <<conn, fan, received>>, BatchEvents' = BatchEvents \/ BatchEvents' = {}
    PROVE  OrderInv'
<1>1. \A f \in received': Trusted(f[1])' => Prior(f) \subseteq Sound'
  BY DEF OrderInv
<1>2. \A c \in Conns: \A f \in conn'[c].msg.evs: Trusted(f[1])' => Prior(f) \subseteq Sound' \cup conn'[c].msg.evs
  BY DEF OrderInv
<1>3. \A k \in Fans: \A f \in fan'[k].msg.evs: Trusted(f[1])' => Prior(f) \subseteq Sound' \cup fan'[k].msg.evs
  BY DEF OrderInv
<1>4. \A f \in BatchEvents': Trusted(f[1])' => Prior(f) \subseteq Batched'
  BY DEF OrderInv, Batched
<1> QED BY <1>1, <1>2, <1>3, <1>4 DEF OrderInv, Prior

LEMMA OrderStep == ASSUME Invariant, [Next]_vars PROVE OrderInv'
<1>0. /\ TypeInv /\ ServerTypes /\ AdminOK /\ BatchInv /\ OrderInv /\ StatusInv /\ ChannelInv
      /\ Sound \subseteq Sound' /\ setup' = setup /\ \A l: Trusted(l)' => Trusted(l)
      /\ bl \in BatchType /\ bl.events \in Seq(Events) /\ received \subseteq received'
      /\ conn \in [Conns -> ConnType] /\ fan \in [Fans -> [to: SUBSET Conns, msg: MsgType]] /\ NoMsg.evs = {}
  BY Grows, SettledGrows DEF Invariant, TypeInv, ServerTypes, BatchTypes, BatchType, FlowInv, NoMsg
<1>1. CASE \E a \in Admins: AdminNext(a)
  <2>1. UNCHANGED <<conn, fan, received>>
    BY <1>1, AdminFrame DEF wsVars
  <2>2. bl' = bl \/ bl' = IdleBatch("poll") \/ bl' = IdleBatch("none")
    BY <1>1, AdminUpdates
  <2>3. BatchEvents' = BatchEvents \/ BatchEvents' = {}
    BY <2>2, EmptyBatch DEF BatchEvents
  <2> QED BY <1>0, <2>1, <2>3, OrderKept
<1>2. CASE PipeNext \/ UNCHANGED vars
  BY <1>0, <1>2, OrderKept, PipeFrame DEF wsVars, batchVars, vars, BatchEvents
<1>3. CASE Crash
  <2>1. /\ conn' = [c \in Conns |-> GoneConn] /\ fan' = [f \in Fans |-> IdleFan]
        /\ bl' = IdleBatch("done") /\ received' = received
    BY <1>3 DEF Crash
  <2>2. GoneConn.msg = NoMsg /\ IdleFan.msg = NoMsg
    BY DEF GoneConn, NewConn, IdleFan
  <2>3. BatchEvents' = {} /\ (\A c \in Conns: conn'[c].msg.evs = {}) /\ \A f \in Fans: fan'[f].msg.evs = {}
    BY <1>0, <2>1, <2>2, EmptyBatch
  <2>4. \A f \in received': Trusted(f[1])' => Prior(f) \subseteq Sound'
    BY <1>0, <2>1 DEF OrderInv
  <2> QED BY <2>3, <2>4 DEF OrderInv, Prior
<1>4. CASE PollEvent
  <2> DEFINE e == Head(batchChannel)
  <2>0. UNCHANGED <<conn, fan, received>> /\ bl.pc = "poll"
    BY <1>4 DEF PollEvent, wsVars
  <2>1. CASE ~Deliverable(e)
    <3>1. BatchEvents' = BatchEvents
      BY <1>0, <1>4, <2>1, PollEventStep DEF BatchEvents
    <3> QED BY <1>0, <2>0, <3>1, OrderKept
  <2>2. CASE Deliverable(e)
    <3>1. e \in Events /\ bl'.events = Append(bl.events, e)
      BY <1>0, <1>4, <2>2, PollEventStep
    <3>2. batchChannel # << >> /\ batchChannel' = Tail(batchChannel)
      BY <1>4 DEF PollEvent
    <3>3. e = batchChannel[1] /\ 1 \in 1..Len(batchChannel)
      BY <1>0, <3>2, ChannelTail
    <3>4. lst[e[1]].st = "in" /\ loop # "none"
      BY <1>0, <2>0, <2>2 DEF Deliverable, StatusInv
    <3> HIDE DEF e
    <3>5. BatchEvents' = BatchEvents \cup {e}
      BY <1>0, <3>1, AppendRange DEF BatchEvents
    <3>6. Trusted(e[1]) => Prior(e) \subseteq Batched
      <4>1. ASSUME Trusted(e[1]), NEW x \in Prior(e) PROVE x \in Batched
        <5>1. Live(batchChannel[1][1]) /\ x \in Prior(batchChannel[1])
          BY <3>3, <3>4, <4>1 DEF Live
        <5>2. x \in Batched \/ \E j \in 1..(1 - 1): batchChannel[j] = x
          BY <1>0, <3>3, <5>1 DEF ChannelInv
        <5> QED BY <5>2
      <4> QED BY <4>1
    <3>7. \A f \in BatchEvents': Trusted(f[1])' => Prior(f) \subseteq Batched'
      BY <1>0, <3>5, <3>6 DEF OrderInv, Batched
    <3> QED BY <1>0, <2>0, <3>7 DEF OrderInv
  <2> QED BY <2>1, <2>2
<1>5. CASE PollStopped \/ WriteInterrupted \/ (GiveUp /\ setup.onError = "block")
  BY <1>0, <1>5, Exits, EmptyBatch, OrderKept DEF wsVars
<1>6. CASE PollTimeout \/ ActionInterrupted \/ RetryAction \/ (GiveUp /\ setup.onError = "skip") \/ WaitForAck
  <2>1. BatchEvents' = BatchEvents
    BY <1>0, <1>6, ActStep DEF BatchEvents
  <2>2. UNCHANGED <<conn, fan, received>>
    BY <1>6 DEF PollTimeout, ActionInterrupted, RetryAction, GiveUp, WaitForAck, wsVars
  <2> QED BY <1>0, <2>1, <2>2, OrderKept
<1>7. CASE Post
  <2>1. BatchEvents' = BatchEvents
    BY <1>0, <1>7, ActStep DEF BatchEvents
  <2>2. UNCHANGED <<conn, fan>> /\ (received' = received \/ received' = received \cup BatchEvents)
    BY <1>7 DEF Post
  <2>3. CASE received' = received
    BY <1>0, <2>1, <2>2, <2>3, OrderKept
  <2>4. CASE received' = received \cup BatchEvents
    <3>1. Batched \subseteq Sound'
      BY <1>0, <2>4 DEF Batched, Sound
    <3>2. \A f \in received': Trusted(f[1])' => Prior(f) \subseteq Sound'
      BY <1>0, <2>4, <3>1 DEF OrderInv
    <3>3. \A f \in BatchEvents': Trusted(f[1])' => Prior(f) \subseteq Batched'
      BY <1>0, <2>1, <3>1 DEF OrderInv, Batched
    <3> QED BY <1>0, <2>2, <3>2, <3>3 DEF OrderInv
  <2> QED BY <2>2, <2>3, <2>4
<1>8. CASE Broadcast
  <2>1. BatchEvents' = BatchEvents
    BY <1>0, <1>8, ActStep DEF BatchEvents
  <2>2. /\ UNCHANGED <<conn, received>>
        /\ fan' = [fan EXCEPT !["topic"] = [to |-> Registered("topic"), msg |-> Message]]
    BY <1>8 DEF Broadcast, FanTakes
  <2>3. /\ fan'["topic"].msg.evs = BatchEvents /\ \A k \in Fans: k # "topic" => fan'[k] = fan[k]
    BY <1>0, <2>2 DEF Message, Fans
  <2>4. \A f \in BatchEvents': Trusted(f[1])' => Prior(f) \subseteq Batched'
    BY <1>0, <2>1 DEF OrderInv, Batched
  <2>5. \A k \in Fans: \A f \in fan'[k].msg.evs: Trusted(f[1])' => Prior(f) \subseteq Sound' \cup fan'[k].msg.evs
    <3>1. ASSUME NEW k \in Fans PROVE \A f \in fan'[k].msg.evs: Trusted(f[1])' => Prior(f) \subseteq Sound' \cup fan'[k].msg.evs
      <4>1. CASE k = "topic"
        BY <2>1, <2>3, <2>4, <4>1 DEF Batched
      <4>2. CASE k # "topic"
        BY <1>0, <2>3, <4>2 DEF OrderInv
      <4> QED BY <4>1, <4>2
    <3> QED BY <3>1
  <2> QED BY <1>0, <2>2, <2>4, <2>5 DEF OrderInv
<1>9. ASSUME NEW c \in Conns, SendBatch(c) PROVE OrderInv'
  <2>1. BatchEvents' = BatchEvents
    BY <1>0, <1>9, ActStep DEF BatchEvents
  <2>2. /\ UNCHANGED <<fan, received>>
        /\ conn' = [conn EXCEPT ![c].sender = "write", ![c].msg = Message]
    BY <1>9 DEF SendBatch, Taken
  <2>3. /\ conn'[c].msg.evs = BatchEvents /\ \A d \in Conns: d # c => conn'[d] = conn[d]
    BY <1>0, <2>2 DEF Message, ConnType
  <2>4. \A f \in BatchEvents': Trusted(f[1])' => Prior(f) \subseteq Batched'
    BY <1>0, <2>1 DEF OrderInv, Batched
  <2>5. \A d \in Conns: \A f \in conn'[d].msg.evs: Trusted(f[1])' => Prior(f) \subseteq Sound' \cup conn'[d].msg.evs
    <3>1. ASSUME NEW d \in Conns PROVE \A f \in conn'[d].msg.evs: Trusted(f[1])' => Prior(f) \subseteq Sound' \cup conn'[d].msg.evs
      <4>1. CASE d = c
        BY <2>1, <2>3, <2>4, <4>1 DEF Batched
      <4>2. CASE d # c
        BY <1>0, <2>3, <4>2 DEF OrderInv
      <4> QED BY <4>1, <4>2
    <3> QED BY <3>1
  <2> QED BY <1>0, <2>2, <2>4, <2>5 DEF OrderInv
<1>10. CASE GenerateCheckpoint \/ ApplyHWM \/ \E k \in Listeners: QueryHWM(k)
  <2>1. UNCHANGED <<conn, fan, received>> /\ (bl'.events = << >> \/ UNCHANGED bl.events)
    BY <1>0, <1>10, GenerateStep, ApplyStep, QueryStep DEF wsVars
  <2>2. BatchEvents' = BatchEvents \/ BatchEvents' = {}
    BY <2>1, EmptyRange DEF BatchEvents
  <2> QED BY <1>0, <2>1, <2>2, OrderKept
<1>11. CASE WriteCheckpoint
  BY <1>0, <1>11, EmptyBatch, OrderKept DEF WriteCheckpoint, wsVars
<1>12. CASE ServerNext
  <2>0. BatchEvents' = BatchEvents
    BY <1>12, ServerFrame DEF batchVars, BatchEvents
  <2>4. \A f \in BatchEvents': Trusted(f[1])' => Prior(f) \subseteq Batched'
    BY <1>0, <2>0 DEF OrderInv, Batched
  <2>1. ASSUME NEW c \in Conns, Moved(c) PROVE OrderInv'
    <3>1. /\ \A d \in Conns: d # c => conn'[d] = conn[d]
          /\ conn'[c].msg \in {NoMsg, conn[c].msg} /\ UNCHANGED fan
          /\ received' = received \/ received' = received \cup conn[c].msg.evs
      BY <2>1 DEF Moved
    <3>2. \A d \in Conns: \A f \in conn'[d].msg.evs: Trusted(f[1])' => Prior(f) \subseteq Sound' \cup conn'[d].msg.evs
      <4>1. ASSUME NEW d \in Conns PROVE \A f \in conn'[d].msg.evs: Trusted(f[1])' => Prior(f) \subseteq Sound' \cup conn'[d].msg.evs
        <5>1. conn'[d].msg = conn[d].msg \/ conn'[d].msg.evs = {}
          BY <1>0, <3>1
        <5> QED BY <1>0, <5>1 DEF OrderInv
      <4> QED BY <4>1
    <3>3. \A f \in received': Trusted(f[1])' => Prior(f) \subseteq Sound'
      <4>1. CASE received' = received
        BY <1>0, <4>1 DEF OrderInv
      <4>2. CASE received' = received \cup conn[c].msg.evs
        <5>1. Sound \cup conn[c].msg.evs \subseteq Sound'
          BY <1>0, <4>2 DEF Sound
        <5> QED BY <1>0, <4>2, <5>1 DEF OrderInv
      <4> QED BY <3>1, <4>1, <4>2
    <3> QED BY <1>0, <2>4, <3>1, <3>2, <3>3 DEF OrderInv
  <2>2. ASSUME NEW c \in Conns, NEW g \in Fans, FanOut(g, c) PROVE OrderInv'
    <3>1. /\ \A d \in Conns: d # c => conn'[d] = conn[d]
          /\ conn'[c].msg \in {conn[c].msg, fan[g].msg}
          /\ \A k \in Fans: k # g => fan'[k] = fan[k]
          /\ fan'[g].msg \in {NoMsg, fan[g].msg}
          /\ UNCHANGED received
      BY <1>0, <2>2, FanMoves
    <3>2. ASSUME NEW d \in Conns PROVE \A f \in conn'[d].msg.evs: Trusted(f[1])' => Prior(f) \subseteq Sound' \cup conn'[d].msg.evs
      <4>1. conn'[d].msg = conn[d].msg \/ conn'[d].msg = fan[g].msg
        BY <3>1
      <4> QED BY <1>0, <4>1 DEF OrderInv
    <3>3. ASSUME NEW k \in Fans PROVE \A f \in fan'[k].msg.evs: Trusted(f[1])' => Prior(f) \subseteq Sound' \cup fan'[k].msg.evs
      <4>1. fan'[k].msg = fan[k].msg \/ fan'[k].msg = NoMsg
        BY <3>1
      <4> QED BY <1>0, <4>1 DEF OrderInv
    <3>4. \A f \in received': Trusted(f[1])' => Prior(f) \subseteq Sound'
      BY <1>0, <3>1 DEF OrderInv
    <3> QED BY <2>4, <3>2, <3>3, <3>4 DEF OrderInv
  <2>3. ASSUME SendReply PROVE OrderInv'
    <3>1. UNCHANGED <<conn, received>> /\ fan' = [fan EXCEPT !["replies"] = [to |-> Registered("replies"), msg |-> NoMsg]]
      BY <2>3 DEF SendReply, FanTakes
    <3>2. ASSUME NEW k \in Fans PROVE \A f \in fan'[k].msg.evs: Trusted(f[1])' => Prior(f) \subseteq Sound' \cup fan'[k].msg.evs
      <4>1. fan'[k].msg = fan[k].msg \/ fan'[k].msg = NoMsg
        BY <1>0, <3>1
      <4> QED BY <1>0, <4>1 DEF OrderInv
    <3> QED BY <1>0, <2>4, <3>1, <3>2 DEF OrderInv
  <2>5. CASE SendReply
    BY <2>3, <2>5
  <2>6. ASSUME NEW c \in Conns, ConnStep(c) \/ ClientStep(c) \/ ListenReplies(c) PROVE OrderInv'
    BY <1>0, <2>1, <2>2, <2>6, ConnMoves
  <2> QED BY <1>12, <2>5, <2>6 DEF ServerNext, ServerStep, ReplyStep
<1>13. CASE BatchLoop
  <2>1. GiveUp => setup.onError = "skip" \/ setup.onError = "block"
    BY DEF GiveUp
  <2> QED BY <1>4, <1>5, <1>6, <1>7, <1>8, <1>9, <1>10, <1>11, <1>13, <2>1 DEF BatchLoop
<1> QED BY <1>1, <1>2, <1>3, <1>12, <1>13, NextSplit

\* What is on its way belongs to listeners that were there before.
LEMMA LoopBefore ==
    ASSUME Invariant, [Next]_vars, ~Crash PROVE loop' # "none" => loop # "none"
<1>1. CASE \E a \in Admins: AdminNext(a)
  BY <1>1, AdminUpdates DEF Invariant, StatusInv
<1>2. CASE PipeNext
  <2>1. CASE EventLoop \/ EventLoopExits \/ Push
    BY <2>1 DEF EventLoop, EventLoopExits, Push
  <2>2. ASSUME NEW l \in Listeners, Detect(l) \/ Confirm(l) PROVE UNCHANGED loop
    BY <2>2 DEF Detect, Confirm
  <2>3. ASSUME NEW e \in RealEvents, Reorganise(e) PROVE UNCHANGED loop
    BY <2>3 DEF Reorganise
  <2> QED BY <1>2, <2>1, <2>2, <2>3 DEF PipeNext, Pipeline
<1>3. CASE BatchLoop \/ ServerNext \/ UNCHANGED vars
  BY <1>3, BatchFrame, ServerFrame DEF pipeVars, vars
<1> QED BY <1>1, <1>2, <1>3, NextSplit

LEMMA LiveBefore ==
    ASSUME Invariant, [Next]_vars, ~Crash
    PROVE  \A l \in Listeners: lst[l].st # "new" /\ Live(l)' => Live(l)
<1>0. TypeInv /\ AdminOK /\ (loop' # "none" => loop # "none") /\ \A l: Trusted(l)' => Trusted(l)
  BY LoopBefore, Grows DEF Invariant
<1> QED BY <1>0, NewBefore DEF Live

LEMMA NoneNew ==
    ASSUME TypeInv, NewInv
    PROVE  /\ \A i \in 1..Len(batchChannel): batchChannel[i][1] \in Listeners /\ lst[batchChannel[i][1]].st # "new"
           /\ pushing # None => pushing[1] \in Listeners /\ lst[pushing[1]].st # "new"
           /\ \A f \in pending: f[1] \in Listeners /\ lst[f[1]].st # "new"
           /\ \A i \in 1..Len(updates): updates[i].ev \in Events /\ updates[i].ev[1] \in Listeners /\ lst[updates[i].ev[1]].st # "new"
           /\ \A l \in known: l \in Listeners /\ lst[l].st # "new"
<1>2. \A i \in 1..Len(batchChannel): batchChannel[i] \in Range(batchChannel) /\ batchChannel[i][1] \in Listeners
  BY RangeIn, SeqDomain, EventParts DEF TypeInv, PipeTypes
<1>3. \A i \in 1..Len(updates): updates[i].ev \in Events /\ updates[i].ev[1] \in Listeners
  <2> DEFINE U == [ev: Events, removed: BOOLEAN]
  <2>1. updates \in Seq(U)
    BY DEF TypeInv, PipeTypes
  <2>2. \A i \in 1..Len(updates): updates[i] \in U
    <3> HIDE DEF U
    <3> QED BY <2>1, SeqDomain
  <2> QED BY <2>2, EventParts
<1>4. (pushing # None => pushing[1] \in Listeners) /\ (\A f \in pending: f[1] \in Listeners) /\ known \subseteq Listeners
  BY EventParts DEF TypeInv, PipeTypes, ConnectorTypes
<1>5. \A i \in 1..Len(batchChannel): lst[batchChannel[i][1]].st # "new"
  BY <1>2 DEF NewInv
<1>6. pushing # None => lst[pushing[1]].st # "new"
  BY <1>4 DEF NewInv
<1>7. \A f \in pending: lst[f[1]].st # "new"
  BY <1>4 DEF NewInv
<1>8. \A i \in 1..Len(updates): lst[updates[i].ev[1]].st # "new"
  BY <1>3 DEF NewInv
<1>9. \A l \in known: lst[l].st # "new"
  BY <1>4 DEF NewInv
<1> QED BY <1>2, <1>3, <1>4, <1>5, <1>6, <1>7, <1>8, <1>9

\* The queues of the pipeline stay as they are.
LEMMA QueuesKept ==
    ASSUME Invariant, [Next]_vars, ~Crash, UNCHANGED <<pushing, pending, batchChannel>>, Batched \subseteq Batched'
    PROVE  /\ ChannelInv' /\ PushInv' /\ PendingInv'
           /\ Held \subseteq Held'
           /\ UNCHANGED updates => UpdatesInv' /\ \A e, n: InUpdates(e, n)' <=> InUpdates(e, n)
           /\ updates' = << >> => UpdatesInv'
<1>0. TypeInv /\ NewInv /\ ChannelInv /\ PushInv /\ PendingInv /\ UpdatesInv
  BY DEF Invariant, FlowInv
<1>1. Queued \subseteq Queued' /\ Held \subseteq Held'
  BY DEF Queued, Held
<1>2. ChannelInv'
  <2>1. ASSUME NEW i \in 1..Len(batchChannel), Live(batchChannel[i][1])', NEW e \in Prior(batchChannel[i])
        PROVE  e \in Batched' \/ \E j \in 1..(i - 1): batchChannel[j] = e
    <3>1. Live(batchChannel[i][1])
      BY <1>0, <2>1, LiveBefore, NoneNew
    <3> QED BY <1>0, <2>1, <3>1 DEF ChannelInv
  <2> QED BY <2>1 DEF ChannelInv
<1>3. PushInv'
  <2>1. ASSUME pushing # None, Live(pushing[1])' PROVE Prior(pushing) \subseteq Queued'
    <3>1. Live(pushing[1])
      BY <1>0, <2>1, LiveBefore, NoneNew
    <3> QED BY <1>0, <1>1, <2>1, <3>1 DEF PushInv
  <2> QED BY <2>1 DEF PushInv
<1>4. PendingInv'
  <2>1. ASSUME NEW f \in pending, Live(f[1])' PROVE Prior(f) \subseteq Held'
    <3>1. Live(f[1])
      BY <1>0, <2>1, LiveBefore, NoneNew
    <3> QED BY <1>0, <1>1, <2>1, <3>1 DEF PendingInv
  <2> QED BY <2>1 DEF PendingInv
<1>5. ASSUME UNCHANGED updates PROVE UpdatesInv' /\ \A e, n: InUpdates(e, n)' <=> InUpdates(e, n)
  <2>1. \A e, n: InUpdates(e, n)' <=> InUpdates(e, n)
    BY <1>5 DEF InUpdates
  <2>2. ASSUME NEW i \in 1..Len(updates), Live(updates[i].ev[1])', ~updates[i].removed, NEW e \in Prior(updates[i].ev)
        PROVE  e \in Held' \/ InUpdates(e, i - 1)
    <3>1. Live(updates[i].ev[1])
      BY <1>0, <1>5, <2>2, LiveBefore, NoneNew
    <3> QED BY <1>0, <1>1, <2>2, <3>1 DEF UpdatesInv
  <2> QED BY <1>5, <2>1, <2>2 DEF UpdatesInv
<1>6. ASSUME updates' = << >> PROVE UpdatesInv'
  BY <1>6 DEF UpdatesInv
<1> QED BY <1>1, <1>2, <1>3, <1>4, <1>5, <1>6

LEMMA FlowKept ==
    ASSUME Invariant, [Next]_vars, ~Crash, UNCHANGED <<pushing, pending, batchChannel, updates>>, Batched \subseteq Batched',
           \A l \in known': (l \in known /\ scan'[l] = scan[l]) \/ UpTo(l, scan'[l]) \subseteq Sound'
    PROVE  FlowInv'
<1>1. ScanInv'
  <2>1. ASSUME NEW l \in known', Live(l)', NEW e \in UpTo(l, scan'[l])
        PROVE  e \in Held' \/ InUpdates(e, Len(updates))
    <3>1. CASE l \in known /\ scan'[l] = scan[l]
      <4>1. Live(l)
        BY <2>1, <3>1, LiveBefore, NoneNew DEF Invariant
      <4> QED BY <2>1, <3>1, <4>1, QueuesKept DEF Invariant, FlowInv, ScanInv
    <3>2. CASE UpTo(l, scan'[l]) \subseteq Sound'
      BY <2>1, <3>2 DEF Held, Queued, Batched
    <3> QED BY <2>1, <3>1, <3>2
  <2> QED BY <2>1, QueuesKept DEF ScanInv
<1> QED BY <1>1, QueuesKept DEF FlowInv

LEMMA FlowAdmin == ASSUME Invariant, NEW a \in Admins, AdminNext(a), ~Crash PROVE FlowInv'
<1>0. /\ TypeInv /\ AdminOK /\ StatusInv /\ BatchInv /\ MarkInv /\ Sound \subseteq Sound' /\ [Next]_vars
      /\ UNCHANGED <<pushing, pending, batchChannel>>
      /\ \A l: (Reliable(l)' <=> Reliable(l)) /\ (Trusted(l)' => Trusted(l)) /\ (Quiet' => Quiet)
  <2>1. [Next]_vars
    BY DEF AdminNext, Next
  <2> QED BY <2>1, Grows, AdminFrame DEF Invariant
<1>1. CASE UNCHANGED <<updates, bl>> /\ ~(Start(a) /\ status = "stopped")
  <2>1. Batched \subseteq Batched' /\ UNCHANGED updates
    BY <1>0, <1>1 DEF Batched, BatchEvents
  <2>2. \A l \in known': (l \in known /\ scan'[l] = scan[l]) \/ UpTo(l, scan'[l]) \subseteq Sound'
    <3>1. CASE StartListener(a)
      <4>1. /\ admin[a].l \in Listeners /\ scan \in Positions
            /\ \/ UNCHANGED <<known, scan>>
               \/ \E s \in 0..MaxPos:
                    /\ known' = known \cup {admin[a].l} /\ scan' = [scan EXCEPT ![admin[a].l] = s]
                    /\ \A e \in Events: e[1] = admin[a].l /\ e[2] <= s => e \in passed'
        BY <1>0, <3>1, StartedNew DEF TypeInv, ConnectorTypes
      <4>3. ASSUME NEW s \in 0..MaxPos, known' = known \cup {admin[a].l}, scan' = [scan EXCEPT ![admin[a].l] = s],
                   \A e \in Events: e[1] = admin[a].l /\ e[2] <= s => e \in passed', NEW l \in known'
            PROVE  (l \in known /\ scan'[l] = scan[l]) \/ UpTo(l, scan'[l]) \subseteq Sound'
        <5>1. UpTo(admin[a].l, s) \subseteq Sound'
          BY <4>3, EventParts DEF UpTo, Sound
        <5> QED BY <4>1, <4>3, <5>1 DEF Positions
      <4> QED BY <4>1, <4>3
    <3>2. CASE ~StartListener(a)
      <4>1. known' \subseteq known /\ UNCHANGED scan
        BY <1>1, <3>2 DEF AdminNext, AdminStep, Begin, Start, RequestStop, NotifyStopped, FinishStop, Stopped, ResetCheckpoint,
                    DeleteStream, AddListener, RemoveListener, StopListener, connectorVars
      <4> QED BY <4>1
    <3> QED BY <3>1, <3>2
  <2> QED BY <1>0, <2>1, <2>2, FlowKept
<1>2. CASE Start(a) /\ status = "stopped"
  <2>1. PICK o \in StartOutcomes: StartOutcome(o)
    BY <1>2 DEF Start
  <2>2. bl.events = << >> /\ BatchEvents = {} /\ Batched \subseteq Batched'
    <3>1. bl.events = << >>
      BY <1>0, <1>2 DEF StatusInv, BatchInv
    <3> QED BY <1>0, <3>1, EmptyRange DEF BatchEvents, Batched
  <2>3. CASE o = "connector"
    BY <1>0, <2>1, <2>2, <2>3, FlowKept DEF StartOutcome
  <2>4. CASE o = "checkpoint"
    <3>1. updates' = << >> /\ loop' = "none"
      BY <2>1, <2>4 DEF StartOutcome
    <3>2. ScanInv'
      BY <3>1 DEF ScanInv, Live
    <3> QED BY <1>0, <2>2, <3>1, <3>2, QueuesKept DEF FlowInv
  <2>5. CASE o = "ok"
    <3>1. /\ updates' = << >> /\ known' = {l \in Listeners: lst[l].st = "in"}
          /\ scan' \in Positions
      BY <2>1, <2>5 DEF StartOutcome, Positions
    <3>2. ASSUME NEW l \in known', Live(l)', NEW e \in UpTo(l, scan'[l]) PROVE e \in Sound'
      <4>1. /\ l \in Listeners /\ scan'[l] \in 0..MaxPos /\ stored[l] \in 0..MaxPos
            /\ stored[l] # 0 => scan'[l] <= stored[l]
            /\ \A d \in Events: stored[l] = 0 /\ d[1] = l /\ d[2] <= scan'[l] => d \in passed'
        BY <1>0, <2>1, <2>5, <3>1, <3>2, StartedFrom
      <4>2. CASE stored[l] = 0
        BY <3>2, <4>1, <4>2, EventParts DEF UpTo, Sound
      <4>3. CASE stored[l] # 0
        <5>1. e \in UpTo(l, stored[l])
          BY <3>2, <4>1, <4>3, UpToFacts
        <5>2. ~Quiet
          BY <1>0, <1>2, <4>1, <4>3 DEF StatusInv, NoCps
        <5>3. Reliable(l)
          BY <1>0, <3>2, <5>2 DEF Live, Trusted
        <5> QED BY <1>0, <4>1, <5>1, <5>3 DEF MarkInv
      <4> QED BY <4>2, <4>3
    <3>3. ScanInv'
      BY <3>2 DEF ScanInv, Held, Queued, Batched
    <3> QED BY <1>0, <2>2, <3>1, <3>3, QueuesKept DEF FlowInv
  <2> QED BY <2>1, <2>3, <2>4, <2>5 DEF StartOutcomes
<1> QED BY <1>1, <1>2, AdminUpdates

LEMMA FlowServer == ASSUME Invariant, ServerNext \/ UNCHANGED vars, ~Crash PROVE FlowInv'
<1>1. [Next]_vars
  BY DEF ServerNext, Next
<1>2. UNCHANGED <<pushing, pending, batchChannel, updates, known, scan, bl>>
  BY ServerFrame DEF connectorVars, pipeVars, batchVars, vars
<1>3. Batched \subseteq Batched'
  BY <1>1, <1>2, Grows DEF Batched, BatchEvents, Invariant
<1> QED BY <1>1, <1>2, <1>3, FlowKept

LEMMA FlowCrash == ASSUME Crash PROVE FlowInv'
<1>1. known' = {} /\ updates' = << >> /\ pending' = {} /\ pushing' = None /\ batchChannel' = << >>
  BY DEF Crash
<1> QED BY <1>1 DEF FlowInv, ChannelInv, PushInv, PendingInv, UpdatesInv, ScanInv

\* What is known of the events on their way still holds of them after a step that
\* keeps the events of the live listeners in the pipeline.
LEMMA FlowSteps ==
    ASSUME Invariant, [Next]_vars, ~Crash, \A e \in RealEvents: Live(e[1])' /\ e \in Held => e \in Held'
    PROVE  /\ \A f \in pending: Live(f[1])' => Prior(f) \subseteq Held'
           /\ \A i \in 1..Len(updates), l \in Listeners:
                 l = updates[i].ev[1] /\ Live(l)' /\ ~updates[i].removed =>
                     \A e \in Prior(updates[i].ev): e \in Held' \/ InUpdates(e, i - 1)
           /\ \A l \in known: Live(l)' => \A e \in UpTo(l, scan[l]): e \in Held' \/ InUpdates(e, Len(updates))
<1>0. PendingInv /\ UpdatesInv /\ ScanInv /\ TypeInv /\ NewInv
  BY DEF Invariant, FlowInv
<1>1. ASSUME NEW f \in pending, Live(f[1])', NEW e \in Prior(f) PROVE e \in Held'
  <2>1. e \in RealEvents /\ e[1] = f[1] /\ Live(f[1])
    BY <1>0, <1>1, LiveBefore, NoneNew, PriorFacts
  <2>2. e \in Held
    BY <1>0, <1>1, <2>1 DEF PendingInv
  <2> QED BY <1>1, <2>1, <2>2
<1>2. ASSUME NEW i \in 1..Len(updates), NEW l \in Listeners, l = updates[i].ev[1], Live(l)', ~updates[i].removed,
             NEW e \in Prior(updates[i].ev)
      PROVE  e \in Held' \/ InUpdates(e, i - 1)
  <2>1. e \in RealEvents /\ e[1] = l /\ lst[l].st # "new"
    BY <1>0, <1>2, NoneNew, PriorFacts
  <2>2. Live(l)
    BY <1>2, <2>1, LiveBefore
  <2>3. e \in Held \/ InUpdates(e, i - 1)
    BY <1>0, <1>2, <2>2 DEF UpdatesInv
  <2> QED BY <1>2, <2>1, <2>3
<1>3. ASSUME NEW l \in known, Live(l)', NEW e \in UpTo(l, scan[l])
      PROVE  e \in Held' \/ InUpdates(e, Len(updates))
  <2>1. e \in RealEvents /\ e[1] = l /\ Live(l)
    BY <1>0, <1>3, LiveBefore, NoneNew DEF UpTo
  <2>2. e \in Held \/ InUpdates(e, Len(updates))
    BY <1>0, <1>3, <2>1 DEF ScanInv
  <2> QED BY <1>3, <2>1, <2>2
<1> QED BY <1>1, <1>2, <1>3

LEMMA PushKept ==
    ASSUME Invariant, [Next]_vars, ~Crash, pushing' = pushing,
           \A e \in RealEvents: Live(e[1])' /\ e \in Queued => e \in Queued'
    PROVE  PushInv'
<1>1. ASSUME pushing # None, Live(pushing[1])', NEW e \in Prior(pushing) PROVE e \in Queued'
  <2>1. e \in RealEvents /\ e[1] = pushing[1] /\ Live(pushing[1])
    BY <1>1, LiveBefore, NoneNew, PriorFacts DEF Invariant
  <2>2. e \in Queued
    BY <1>1, <2>1 DEF Invariant, FlowInv, PushInv
  <2>3. Live(e[1])'
    BY <1>1, <2>1
  <2> QED BY <2>1, <2>2, <2>3
<1> QED BY <1>1 DEF PushInv

LEMMA ChannelKept ==
    ASSUME Invariant, [Next]_vars, ~Crash, Batched \subseteq Batched'
    PROVE  \A i \in 1..Len(batchChannel), l \in Listeners:
               l = batchChannel[i][1] /\ Live(l)' =>
                   \A e \in Prior(batchChannel[i]): e \in Batched' \/ \E j \in 1..(i - 1): batchChannel[j] = e
<1>1. ASSUME NEW i \in 1..Len(batchChannel), NEW l \in Listeners, l = batchChannel[i][1], Live(l)',
             NEW e \in Prior(batchChannel[i])
      PROVE  e \in Batched' \/ \E j \in 1..(i - 1): batchChannel[j] = e
  <2>1. lst[l].st # "new"
    BY <1>1, NoneNew DEF Invariant
  <2>2. Live(l)
    BY <1>1, <2>1, LiveBefore
  <2> QED BY <1>1, <2>2 DEF Invariant, FlowInv, ChannelInv
<1> QED BY <1>1

LEMMA InChannel ==
    ASSUME TypeInv PROVE \A e \in Range(batchChannel): \E j \in 1..Len(batchChannel): batchChannel[j] = e
<1>1. batchChannel \in Seq(Events)
  BY DEF TypeInv, PipeTypes
<1> QED BY <1>1, RangeOut

LEMMA FlowDetect == ASSUME Invariant, NEW l \in Listeners, Detect(l) PROVE FlowInv'
<1> DEFINE p == scan[l] + 1
           x == <<l, p>>
<1>0. /\ [Next]_vars /\ ~Crash /\ TypeInv /\ NewInv /\ PipeInv /\ setup' = setup
      /\ l \in known /\ scan[l] \in 0..MaxPos /\ p \in 0..MaxPos /\ scan \in Positions /\ known \subseteq Listeners
      /\ scan' = [scan EXCEPT ![l] = p]
      /\ UNCHANGED <<wsVars, streamVars, listenerVars, known, gone, passed, loop, pending, pushing, batchVars, bounds>>
      /\ Sound' = Sound /\ Batched' = Batched
  <2>1. [Next]_vars /\ TypeInv /\ NewInv /\ PipeInv
    BY DEF Next, Pipeline, Invariant
  <2>2. ~Crash
    BY <2>1, BoundsType DEF Detect, Crash, TypeInv, ServerTypes
  <2>3. UNCHANGED <<wsVars, streamVars, listenerVars, known, gone, passed, loop, pending, pushing, batchVars, bounds>>
    BY DEF Detect
  <2> QED BY <2>1, <2>2, <2>3, Detected DEF Sound, Batched, BatchEvents, TypeInv, ConnectorTypes, wsVars, streamVars, batchVars
<1>1. /\ x[1] = l /\ x[2] = p /\ Prior(x) = UpTo(l, scan[l])
      /\ \A e \in UpTo(l, p): e \in UpTo(l, scan[l]) \/ e = x
  BY <1>0, UpToFacts
<1>5. \/ (x \notin RealEvents \/ x \in gone) /\ UNCHANGED <<updates, batchChannel, last>>
      \/ x \in Events /\ updates' = Append(updates, [ev |-> x, removed |-> FALSE]) /\ UNCHANGED batchChannel
      \/ IsBlocks(l) /\ x \in Events /\ batchChannel' = Append(batchChannel, x) /\ UNCHANGED updates
  <2>1. TypeInv
    BY <1>0
  <2> QED BY <2>1, Detected
<1> HIDE DEF x, p
<1>2. CASE (x \notin RealEvents \/ x \in gone) /\ UNCHANGED <<updates, batchChannel, last>>
  <2>0. Held' = Held
    BY <1>0, <1>2 DEF Held, Queued
  <2>1. ScanInv'
    <3>1. ASSUME NEW k \in known, Live(k)', NEW e \in UpTo(k, scan'[k]) PROVE e \in Held' \/ InUpdates(e, Len(updates))
      <4>1. \A d \in UpTo(k, scan[k]): d \in Held' \/ InUpdates(d, Len(updates))
        BY <1>0, <2>0, <3>1, FlowSteps
      <4>2. CASE k # l
        BY <1>0, <3>1, <4>1, <4>2 DEF Positions
      <4>3. CASE k = l
        <5>1. e \in UpTo(l, p) /\ e \in RealEvents
          BY <1>0, <3>1, <4>3 DEF Positions, UpTo
        <5>2. CASE e = x
          BY <1>2, <2>0, <5>1, <5>2 DEF Held, Queued, Batched, Sound
        <5>3. CASE e \in UpTo(l, scan[l])
          BY <4>1, <4>3, <5>3
        <5> QED BY <1>1, <5>1, <5>2, <5>3
      <4> QED BY <4>2, <4>3
    <3> QED BY <1>0, <1>2, <3>1 DEF ScanInv, InUpdates
  <2> QED BY <1>0, <1>2, <2>1, QueuesKept DEF FlowInv
<1>3. CASE x \in Events /\ updates' = Append(updates, [ev |-> x, removed |-> FALSE]) /\ UNCHANGED batchChannel
  <2>0. Held' = Held
    BY <1>0, <1>3 DEF Held, Queued
  <2>1. /\ Len(updates) \in Nat /\ Len(updates') = Len(updates) + 1
        /\ \A i \in 1..Len(updates): updates'[i] = updates[i]
        /\ updates'[Len(updates) + 1].ev = x
    <3>1. [ev |-> x, removed |-> FALSE] \in [ev: Events, removed: BOOLEAN]
      BY <1>3
    <3> QED BY <1>0, <1>3, <3>1, UpdatesAppended
  <2>2. \A e, n: n \in 0..Len(updates) /\ InUpdates(e, n) => \E j \in 1..n: updates'[j].ev = e
    BY <2>1 DEF InUpdates
  <2>3. UpdatesInv'
    <3>1. ASSUME NEW i \in 1..Len(updates'), Live(updates[i].ev[1])', ~updates'[i].removed, NEW e \in Prior(updates'[i].ev)
          PROVE  e \in Held' \/ \E j \in 1..(i - 1): updates'[j].ev = e
      <4>1. CASE i \in 1..Len(updates)
        <5>1. updates'[i] = updates[i] /\ updates[i].ev[1] \in Listeners /\ i - 1 \in 0..Len(updates)
          BY <1>0, <2>1, <4>1, NoneNew
        <5>2. e \in Held' \/ InUpdates(e, i - 1)
          BY <1>0, <2>0, <3>1, <4>1, <5>1, FlowSteps
        <5> QED BY <2>2, <5>1, <5>2
      <4>2. CASE i = Len(updates) + 1
        <5>1. updates'[i].ev = x /\ i - 1 = Len(updates) /\ Len(updates) \in 0..Len(updates)
          BY <2>1, <4>2
        <5>2. Live(l)' /\ e \in UpTo(l, scan[l])
          BY <1>1, <3>1, <5>1
        <5>3. e \in Held' \/ InUpdates(e, Len(updates))
          BY <1>0, <2>0, <5>2, FlowSteps
        <5> QED BY <2>2, <5>1, <5>3
      <4> QED BY <2>1, <3>1, <4>1, <4>2
    <3> QED BY <3>1 DEF UpdatesInv, InUpdates, Prior
  <2>4. ScanInv'
    <3>1. ASSUME NEW k \in known, Live(k)', NEW e \in UpTo(k, scan'[k])
          PROVE  e \in Held' \/ \E j \in 1..Len(updates'): updates'[j].ev = e
      <4>1. \A d \in UpTo(k, scan[k]): d \in Held' \/ InUpdates(d, Len(updates))
        BY <1>0, <2>0, <3>1, FlowSteps
      <4>2. \A d: InUpdates(d, Len(updates)) => \E j \in 1..Len(updates'): updates'[j].ev = d
        BY <2>1 DEF InUpdates
      <4>3. e \in UpTo(k, scan[k]) \/ e = x
        BY <1>0, <1>1, <3>1 DEF Positions
      <4>4. CASE e = x
        BY <2>1, <4>4
      <4> QED BY <4>1, <4>2, <4>3, <4>4
    <3> QED BY <1>0, <3>1 DEF ScanInv, InUpdates, UpTo
  <2> QED BY <1>0, <1>3, <2>3, <2>4, QueuesKept DEF FlowInv
<1>4. CASE IsBlocks(l) /\ x \in Events /\ batchChannel' = Append(batchChannel, x) /\ UNCHANGED updates
  <2>1. /\ Len(batchChannel) \in Nat /\ Len(batchChannel') = Len(batchChannel) + 1
        /\ \A i \in 1..Len(batchChannel): batchChannel'[i] = batchChannel[i]
        /\ batchChannel'[Len(batchChannel) + 1] = x
        /\ Range(batchChannel') = Range(batchChannel) \cup {x}
    BY <1>0, <1>4, ChannelAppended
  <2>2. Queued \subseteq Queued' /\ Held \subseteq Held' /\ x \in Held'
    BY <1>0, <2>1 DEF Held, Queued
  <2>3. \A e: InUpdates(e, Len(updates)) => e[1] # l
    BY <1>0, <1>4 DEF PipeInv, InUpdates
  <2>4. ChannelInv'
    <3>1. ASSUME NEW i \in 1..Len(batchChannel'), Live(batchChannel[i][1])', NEW e \in Prior(batchChannel'[i])
          PROVE  e \in Batched' \/ \E j \in 1..(i - 1): batchChannel'[j] = e
      <4>1. CASE i \in 1..Len(batchChannel)
        <5>1. batchChannel'[i] = batchChannel[i] /\ batchChannel[i][1] \in Listeners
              /\ \A j \in 1..(i - 1): batchChannel'[j] = batchChannel[j]
          BY <1>0, <2>1, <4>1, NoneNew
        <5>2. e \in Batched' \/ \E j \in 1..(i - 1): batchChannel[j] = e
          BY <1>0, <3>1, <4>1, <5>1, ChannelKept
        <5> QED BY <5>1, <5>2
      <4>2. CASE i = Len(batchChannel) + 1
        <5>1. batchChannel'[i] = x /\ i - 1 = Len(batchChannel)
          BY <2>1, <4>2
        <5>2. Live(l)' /\ e \in UpTo(l, scan[l]) /\ e[1] = l /\ e \in RealEvents /\ e # None
          BY <1>1, <3>1, <5>1, PriorFacts
        <5>3. Live(l)
          BY <1>0, <5>2, LiveBefore, NoneNew
        <5>4. e \in Held \/ InUpdates(e, Len(updates))
          BY <1>0, <5>2, <5>3 DEF Invariant, FlowInv, ScanInv
        <5>5. e \in Queued
          BY <1>0, <1>4, <2>3, <5>2, <5>4 DEF Held, PipeInv
        <5>6. e \in Batched' \/ \E j \in 1..Len(batchChannel): batchChannel[j] = e
          BY <1>0, <5>5, InChannel DEF Queued
        <5> QED BY <2>1, <5>1, <5>6
      <4> QED BY <2>1, <3>1, <4>1, <4>2
    <3> QED BY <3>1 DEF ChannelInv, Prior
  <2>5. PendingInv'
    BY <1>0, <2>2, FlowSteps DEF PendingInv, Prior
  <2>6. PushInv'
    BY <1>0, <2>2, PushKept
  <2>7. UpdatesInv'
    <3>1. ASSUME NEW i \in 1..Len(updates), Live(updates[i].ev[1])', ~updates[i].removed, NEW e \in Prior(updates[i].ev)
          PROVE  e \in Held' \/ InUpdates(e, i - 1)
      <4>1. updates[i].ev[1] \in Listeners /\ updates' = updates
        BY <1>0, <1>4, NoneNew
      <4> QED BY <1>0, <2>2, <3>1, <4>1, FlowSteps
    <3> QED BY <1>4, <3>1 DEF UpdatesInv, InUpdates, Prior
  <2>8. ScanInv'
    <3>1. ASSUME NEW k \in known, Live(k)', NEW e \in UpTo(k, scan'[k])
          PROVE  e \in Held' \/ InUpdates(e, Len(updates))
      <4>1. \A d \in UpTo(k, scan[k]): d \in Held' \/ InUpdates(d, Len(updates))
        BY <1>0, <2>2, <3>1, FlowSteps
      <4>2. e \in UpTo(k, scan[k]) \/ e = x
        BY <1>0, <1>1, <3>1 DEF Positions
      <4> QED BY <2>2, <4>1, <4>2
    <3> QED BY <1>0, <1>4, <3>1 DEF ScanInv, InUpdates, UpTo
  <2> QED BY <2>4, <2>5, <2>6, <2>7, <2>8 DEF FlowInv
<1> QED BY <1>2, <1>3, <1>4, <1>5

LEMMA FlowPush == ASSUME Invariant, Push, [Next]_vars, ~Crash PROVE FlowInv'
<1>0. /\ TypeInv /\ NewInv /\ known \subseteq Listeners
      /\ pushing # None /\ pushing \in Events /\ pushing' = None
      /\ Len(batchChannel) \in Nat /\ Len(batchChannel') = Len(batchChannel) + 1
      /\ \A i \in 1..Len(batchChannel): batchChannel'[i] = batchChannel[i]
      /\ batchChannel'[Len(batchChannel) + 1] = pushing
      /\ Range(batchChannel') = Range(batchChannel) \cup {pushing}
      /\ UNCHANGED <<wsVars, connectorVars, updates, loop, pending, batchVars>>
  BY Pushed DEF Invariant, TypeInv, ConnectorTypes
<1>1. Batched' = Batched /\ Queued \subseteq Queued' /\ \A e \in RealEvents: e \in Held => e \in Held'
  <2>1. Batched' = Batched
    BY <1>0 DEF Batched, Sound, BatchEvents, wsVars, connectorVars, batchVars
  <2> QED BY <1>0, <2>1, EventParts DEF Held, Queued
<1>2. ChannelInv'
  <2>1. ASSUME NEW i \in 1..Len(batchChannel'), Live(batchChannel[i][1])', NEW e \in Prior(batchChannel'[i])
        PROVE  e \in Batched' \/ \E j \in 1..(i - 1): batchChannel'[j] = e
    <3>1. CASE i \in 1..Len(batchChannel)
      <4>1. batchChannel'[i] = batchChannel[i] /\ batchChannel[i][1] \in Listeners
            /\ \A j \in 1..(i - 1): batchChannel'[j] = batchChannel[j]
        BY <1>0, <3>1, NoneNew
      <4>2. e \in Batched' \/ \E j \in 1..(i - 1): batchChannel[j] = e
        BY <1>1, <2>1, <3>1, <4>1, ChannelKept
      <4> QED BY <4>1, <4>2
    <3>2. CASE i = Len(batchChannel) + 1
      <4>1. batchChannel'[i] = pushing /\ i - 1 = Len(batchChannel)
        BY <1>0, <3>2
      <4>2. pushing[1] \in Listeners /\ lst[pushing[1]].st # "new"
        BY <1>0, NoneNew
      <4>3. Live(pushing[1])
        <5>1. ASSUME NEW l \in Listeners, l = pushing[1] PROVE Live(l)
          BY <2>1, <4>1, <4>2, <5>1, LiveBefore
        <5> QED BY <4>2, <5>1
      <4>4. e \in Queued
        BY <1>0, <2>1, <4>1, <4>3 DEF Invariant, FlowInv, PushInv
      <4>5. e \in Batched' \/ \E j \in 1..Len(batchChannel): batchChannel[j] = e
        BY <1>0, <1>1, <4>4, InChannel DEF Queued
      <4> QED BY <1>0, <4>1, <4>5
    <3> QED BY <1>0, <2>1, <3>1, <3>2
  <2> QED BY <2>1 DEF ChannelInv, Prior
<1>3. PushInv'
  BY <1>0 DEF PushInv
<1>4. PendingInv'
  BY <1>0, <1>1, FlowSteps DEF PendingInv, Prior
<1>5. UpdatesInv'
  <2>1. ASSUME NEW i \in 1..Len(updates), Live(updates[i].ev[1])', ~updates[i].removed, NEW e \in Prior(updates[i].ev)
        PROVE  e \in Held' \/ InUpdates(e, i - 1)
    <3>1. updates[i].ev[1] \in Listeners /\ updates' = updates
      BY <1>0, NoneNew
    <3> QED BY <1>1, <2>1, <3>1, FlowSteps
  <2> QED BY <1>0, <2>1 DEF UpdatesInv, InUpdates, Prior
<1>6. ScanInv'
  <2>1. ASSUME NEW k \in known, Live(k)', NEW e \in UpTo(k, scan[k]) PROVE e \in Held' \/ InUpdates(e, Len(updates))
    BY <1>1, <2>1, FlowSteps
  <2> QED BY <1>0, <2>1 DEF ScanInv, InUpdates, UpTo, connectorVars
<1> QED BY <1>2, <1>3, <1>4, <1>5, <1>6 DEF FlowInv

LEMMA FlowConfirm == ASSUME Invariant, NEW l \in Listeners, Confirm(l), [Next]_vars, ~Crash PROVE FlowInv'
<1>0. PICK first \in pending:
        /\ first[1] = l /\ \A e \in pending: e[1] = l => first[2] <= e[2]
        /\ pushing = None /\ pending' = pending \ {first} /\ pushing' = first
        /\ UNCHANGED <<wsVars, connectorVars, updates, loop, batchChannel, batchVars>>
  BY DEF Confirm
<1>1. /\ TypeInv /\ NewInv /\ ChannelInv /\ PendingInv /\ pending \subseteq Events /\ lst[l].st # "new"
      /\ Batched' = Batched /\ Queued' = Queued /\ \A e \in RealEvents: e \in Held => e \in Held'
  <2>1. TypeInv /\ NewInv /\ ChannelInv /\ PendingInv /\ pending \subseteq Events
    BY DEF Invariant, FlowInv, TypeInv, PipeTypes
  <2>2. lst[l].st # "new"
    BY <1>0, <2>1, NoneNew
  <2>3. Batched' = Batched /\ Queued' = Queued
    BY <1>0 DEF Queued, Batched, Sound, BatchEvents, wsVars, connectorVars, batchVars
  <2> QED BY <1>0, <2>1, <2>2, <2>3, EventParts DEF Held
<1>2. ChannelInv'
  <2>1. ASSUME NEW i \in 1..Len(batchChannel), Live(batchChannel[i][1])', NEW e \in Prior(batchChannel[i])
        PROVE  e \in Batched' \/ \E j \in 1..(i - 1): batchChannel[j] = e
    <3>1. batchChannel[i][1] \in Listeners /\ batchChannel' = batchChannel
      BY <1>0, <1>1, NoneNew
    <3> QED BY <1>1, <2>1, <3>1, ChannelKept
  <2> QED BY <1>0, <2>1 DEF ChannelInv, Prior
<1>3. PushInv'
  <2>1. ASSUME Live(l)', NEW e \in Prior(first) PROVE e \in Queued'
    <3>1. Live(first[1])
      BY <1>0, <1>1, <2>1, LiveBefore
    <3>2. e \in Held /\ e \in Events /\ e # None /\ e[1] = l /\ e[2] < first[2]
      BY <1>0, <1>1, <2>1, <3>1, PriorFacts DEF PendingInv
    <3>3. e \notin pending
      <4>1. e[2] \in Nat /\ first[2] \in Nat
        BY <1>0, <1>1, <3>2, EventParts, MaxPosAssumption
      <4> QED BY <1>0, <3>2, <4>1
    <3> QED BY <1>0, <1>1, <3>2, <3>3 DEF Held
  <2> QED BY <1>0, <2>1 DEF PushInv, Prior
<1>4. PendingInv'
  BY <1>0, <1>1, FlowSteps DEF PendingInv, Prior
<1>5. UpdatesInv'
  <2>1. ASSUME NEW i \in 1..Len(updates), Live(updates[i].ev[1])', ~updates[i].removed, NEW e \in Prior(updates[i].ev)
        PROVE  e \in Held' \/ InUpdates(e, i - 1)
    <3>1. updates[i].ev[1] \in Listeners /\ updates' = updates
      BY <1>0, <1>1, NoneNew
    <3> QED BY <1>1, <2>1, <3>1, FlowSteps
  <2> QED BY <1>0, <2>1 DEF UpdatesInv, InUpdates, Prior
<1>6. ScanInv'
  <2>1. ASSUME NEW k \in known, Live(k)', NEW e \in UpTo(k, scan[k]) PROVE e \in Held' \/ InUpdates(e, Len(updates))
    BY <1>1, <2>1, FlowSteps
  <2> QED BY <1>0, <2>1 DEF ScanInv, InUpdates, UpTo, connectorVars
<1> QED BY <1>2, <1>3, <1>4, <1>5, <1>6 DEF FlowInv

LEMMA FlowReorganise == ASSUME Invariant, NEW x \in RealEvents, Reorganise(x), [Next]_vars, ~Crash PROVE FlowInv'
<1>0. /\ TypeInv /\ NewInv /\ Len(updates) \in Nat /\ Len(updates') = Len(updates) + 1
      /\ \A i \in 1..Len(updates): updates'[i] = updates[i]
      /\ updates'[Len(updates) + 1].removed
      /\ UNCHANGED <<known, scan, loop, pending, pushing, batchChannel, batchVars>>
  <2>1. TypeInv /\ NewInv
    BY DEF Invariant
  <2>2. /\ Len(updates) \in Nat /\ Len(updates') = Len(updates) + 1
        /\ \A i \in 1..Len(updates): updates'[i] = updates[i]
        /\ updates'[Len(updates) + 1] = [ev |-> x, removed |-> TRUE]
        /\ UNCHANGED <<known, scan, loop, pending, pushing, batchChannel, batchVars>>
    BY <2>1, Reorganised
  <2> QED BY <2>1, <2>2
<1>1. Batched \subseteq Batched' /\ Held \subseteq Held'
  <2>1. Batched \subseteq Batched'
    BY <1>0, Grows DEF Invariant, Batched, BatchEvents, batchVars
  <2> QED BY <1>0, <2>1 DEF Held, Queued
<1>2. \A e, n: n \in 0..Len(updates) /\ InUpdates(e, n) => \E j \in 1..n: updates'[j].ev = e
  BY <1>0 DEF InUpdates
<1>3. UpdatesInv'
  <2>1. ASSUME NEW i \in 1..Len(updates'), Live(updates[i].ev[1])', ~updates'[i].removed, NEW e \in Prior(updates'[i].ev)
        PROVE  e \in Held' \/ \E j \in 1..(i - 1): updates'[j].ev = e
    <3>1. i \in 1..Len(updates)
      BY <1>0, <2>1
    <3>2. updates'[i] = updates[i] /\ updates[i].ev[1] \in Listeners /\ i - 1 \in 0..Len(updates)
      BY <1>0, <3>1, NoneNew
    <3>3. e \in Held' \/ InUpdates(e, i - 1)
      BY <1>1, <2>1, <3>1, <3>2, FlowSteps
    <3> QED BY <1>2, <3>2, <3>3
  <2> QED BY <2>1 DEF UpdatesInv, InUpdates, Prior
<1>4. ScanInv'
  <2>1. ASSUME NEW k \in known, Live(k)', NEW e \in UpTo(k, scan[k])
        PROVE  e \in Held' \/ \E j \in 1..Len(updates'): updates'[j].ev = e
    <3>1. e \in Held' \/ InUpdates(e, Len(updates))
      BY <1>1, <2>1, FlowSteps
    <3> QED BY <1>0, <3>1 DEF InUpdates
  <2> QED BY <1>0, <2>1 DEF ScanInv, InUpdates, UpTo
<1> QED BY <1>0, <1>1, <1>3, <1>4, QueuesKept DEF FlowInv

LEMMA FlowLoop == ASSUME Invariant, EventLoop, [Next]_vars, ~Crash PROVE FlowInv'
<1> DEFINE u == updates[1]
           x == updates[1].ev
<1>0. /\ TypeInv /\ NewInv /\ PipeInv /\ UpdatesInv /\ PushInv
      /\ Len(updates) \in Nat \ {0} /\ 1 \in 1..Len(updates) /\ x \in Events /\ u.removed \in BOOLEAN
      /\ Len(updates') = Len(updates) - 1
      /\ \A i \in 1..Len(updates'): updates'[i] = updates[i + 1] /\ i + 1 \in 1..Len(updates)
      /\ UNCHANGED <<wsVars, streamVars, listenerVars, connectorVars, loop, batchChannel, bl, batchNumber, skipped>>
      /\ Batched \subseteq Batched' /\ Queued \subseteq Queued'
  <2>1. TypeInv /\ NewInv /\ PipeInv /\ UpdatesInv /\ PushInv /\ StatusInv
    BY DEF Invariant, FlowInv
  <2>2. UNCHANGED <<bl, batchChannel>>
    BY <2>1, Looped
  <2>3. Batched \subseteq Batched'
    BY <2>1, <2>2, Grows DEF Batched, BatchEvents
  <2>4. Len(updates) \in Nat \ {0} => 1 \in 1..Len(updates)
    OBVIOUS
  <2> QED BY <2>1, <2>2, <2>3, <2>4, Looped DEF Queued
<1>1. \/ u.removed /\ pending' = pending \ {x} /\ UNCHANGED <<pushing, dropped>>
      \/ ~u.removed /\ lst[x[1]].st # "in" /\ UNCHANGED <<pending, pushing, dropped>>
      \/ /\ ~u.removed /\ lst[x[1]].st = "in" /\ ~setup.confirms
         /\ pushing = None /\ pushing' = x /\ UNCHANGED <<pending, dropped>>
      \/ /\ ~u.removed /\ lst[x[1]].st = "in" /\ setup.confirms
         /\ pending' = pending \cup {x} /\ UNCHANGED <<pushing, dropped>>
      \/ ~u.removed /\ dropped' = dropped \cup {x} /\ UNCHANGED <<pending, pushing>>
  BY <1>0, Looped
<1> HIDE DEF u, x
<1>2. (u.removed => x \in gone) /\ gone' = gone /\ (~setup.confirms => pending = {}) /\ x # None /\ x = u.ev /\ u = updates[1]
  BY <1>0, EventParts DEF PipeInv, u, x, connectorVars
<1>3. \A e \in RealEvents: e \in Held => e \in Held'
  <2>1. u.removed => x \in Queued'
    BY <1>2 DEF Queued, Batched, Sound
  <2>2. None \notin RealEvents
    BY EventParts
  <2>3. ASSUME NEW e \in RealEvents, e \in pending PROVE e \in pending' \cup Queued'
    BY <1>1, <2>1, <2>3
  <2>4. ASSUME NEW e \in RealEvents, e = pushing PROVE e = pushing'
    BY <1>1, <2>2, <2>4
  <2> QED BY <1>0, <2>3, <2>4 DEF Held
<1>4. \A l \in Listeners: l = x[1] /\ Live(l)' => x \in Held'
  <2>1. x \in dropped' => x \in Held'
    BY DEF Held, Queued, Batched, Sound
  <2>2. u.removed => x \in Held'
    BY <1>2 DEF Held, Queued, Batched, Sound
  <2>3. x \in pending' \/ x = pushing' => x \in Held'
    BY DEF Held
  <2>4. \A l \in Listeners: l = x[1] /\ Live(l)' => lst[x[1]].st = "in"
    BY <1>0 DEF Live, listenerVars
  <2> QED BY <1>1, <2>1, <2>2, <2>3, <2>4
<1>5. ASSUME ~u.removed, NEW l \in Listeners, l = x[1], Live(l)', NEW e \in Prior(x) PROVE e \in Held'
  <2>1. e \in Held' \/ InUpdates(e, 0)
    <3>1. \A i \in 1..Len(updates): i = 1 => i - 1 = 0
      OBVIOUS
    <3> QED BY <1>0, <1>2, <1>3, <1>5, <3>1, FlowSteps
  <2> QED BY <2>1 DEF InUpdates
<1>6. UpdatesInv'
  <2>1. ASSUME NEW i \in 1..Len(updates'), Live(updates[i].ev[1])', ~updates'[i].removed, NEW e \in Prior(updates'[i].ev)
        PROVE  e \in Held' \/ \E j \in 1..(i - 1): updates'[j].ev = e
    <3>1. /\ updates'[i] = updates[i + 1] /\ i + 1 \in 1..Len(updates) /\ (i + 1) - 1 = i
          /\ updates[i + 1].ev[1] \in Listeners
      BY <1>0, NoneNew
    <3>2. e \in Held' \/ InUpdates(e, i)
      BY <1>3, <2>1, <3>1, FlowSteps
    <3>3. ASSUME NEW j \in 1..i, updates[j].ev = e PROVE e \in Held' \/ \E k \in 1..(i - 1): updates'[k].ev = e
      <4>1. CASE j = 1
        <5>1. e = x /\ e[1] = updates[i + 1].ev[1]
          BY <1>2, <2>1, <3>1, <3>3, <4>1, PriorFacts
        <5> QED BY <1>4, <2>1, <3>1, <5>1
      <4>2. CASE j # 1
        <5>1. j - 1 \in 1..(i - 1) /\ j - 1 \in 1..Len(updates') /\ (j - 1) + 1 = j
          BY <1>0, <3>3, <4>2
        <5>2. updates'[j - 1] = updates[j]
          BY <1>0, <5>1
        <5> QED BY <3>3, <5>1, <5>2
      <4> QED BY <4>1, <4>2
    <3> QED BY <3>2, <3>3 DEF InUpdates
  <2> QED BY <2>1 DEF UpdatesInv, InUpdates, Prior
<1>7. ScanInv'
  <2>1. ASSUME NEW k \in known, Live(k)', NEW e \in UpTo(k, scan[k])
        PROVE  e \in Held' \/ \E j \in 1..Len(updates'): updates'[j].ev = e
    <3>1. e \in Held' \/ InUpdates(e, Len(updates))
      BY <1>3, <2>1, FlowSteps
    <3>2. e[1] = k /\ k \in Listeners
      BY <1>0, <2>1, NoneNew DEF UpTo
    <3>3. ASSUME NEW j \in 1..Len(updates), updates[j].ev = e PROVE e \in Held' \/ \E i \in 1..Len(updates'): updates'[i].ev = e
      <4>1. CASE j = 1
        BY <1>2, <1>4, <2>1, <3>2, <3>3, <4>1
      <4>2. CASE j # 1
        <5>1. j - 1 \in 1..Len(updates') /\ (j - 1) + 1 = j
          BY <1>0, <3>3, <4>2
        <5>2. updates'[j - 1] = updates[j]
          BY <1>0, <5>1
        <5> QED BY <3>3, <5>1, <5>2
      <4> QED BY <4>1, <4>2
    <3> QED BY <3>1, <3>3 DEF InUpdates
  <2> QED BY <1>0, <2>1 DEF ScanInv, InUpdates, UpTo, connectorVars
<1>8. ChannelInv'
  <2>1. ASSUME NEW i \in 1..Len(batchChannel), Live(batchChannel[i][1])', NEW e \in Prior(batchChannel[i])
        PROVE  e \in Batched' \/ \E j \in 1..(i - 1): batchChannel[j] = e
    <3>1. batchChannel[i][1] \in Listeners /\ batchChannel' = batchChannel
      BY <1>0, NoneNew
    <3> QED BY <1>0, <2>1, <3>1, ChannelKept
  <2> QED BY <1>0, <2>1 DEF ChannelInv, Prior
<1>9. PushInv'
  <2>1. CASE UNCHANGED pushing
    BY <1>0, <2>1, PushKept
  <2>2. CASE ~u.removed /\ ~setup.confirms /\ pushing = None /\ pushing' = x /\ UNCHANGED pending
    <3>1. ASSUME Live(pushing[1])', NEW e \in Prior(x) PROVE e \in Queued'
      <4>1. x[1] \in Listeners /\ e # None /\ e[1] = x[1] /\ e \in RealEvents
        BY <1>0, <3>1, EventParts, PriorFacts
      <4>2. e \in Held'
        BY <1>5, <2>2, <3>1, <4>1
      <4>3. e # x
        BY <3>1, PriorFacts, <1>0, EventParts, MaxPosAssumption
      <4> QED BY <1>2, <2>2, <4>2, <4>3 DEF Held
    <3> QED BY <2>2, <3>1 DEF PushInv, Prior
  <2> QED BY <1>1, <2>1, <2>2
<1>10. PendingInv'
  <2>1. ASSUME NEW f \in pending', Live(f[1])', NEW e \in Prior(f) PROVE e \in Held'
    <3>1. CASE f \in pending
      BY <1>3, <2>1, <3>1, FlowSteps
    <3>2. CASE f = x /\ ~u.removed
      <4>1. x[1] \in Listeners
        BY <1>0, EventParts
      <4> QED BY <1>5, <2>1, <3>2, <4>1
    <3> QED BY <1>1, <2>1, <3>1, <3>2
  <2> QED BY <2>1 DEF PendingInv, Prior
<1> QED BY <1>6, <1>7, <1>8, <1>9, <1>10 DEF FlowInv

LEMMA FlowPoll == ASSUME Invariant, PollEvent, [Next]_vars, ~Crash PROVE FlowInv'
<1> DEFINE x == batchChannel[1]
<1>0. /\ TypeInv /\ NewInv /\ MarkInv /\ BatchTypes /\ x \in Events /\ known \subseteq Listeners
      /\ Len(batchChannel) \in Nat \ {0} /\ Len(batchChannel') = Len(batchChannel) - 1
      /\ \A i \in 1..Len(batchChannel'): batchChannel'[i] = batchChannel[i + 1] /\ i + 1 \in 1..Len(batchChannel)
      /\ Range(batchChannel) = {x} \cup Range(batchChannel')
      /\ UNCHANGED <<wsVars, streamVars, listenerVars, connectorVars, updates, loop, pending, pushing, dropped, skipped>>
  <2>1. TypeInv /\ NewInv /\ MarkInv /\ BatchTypes /\ known \subseteq Listeners
    BY DEF Invariant, TypeInv, ConnectorTypes
  <2> QED BY <2>1, ChannelTail DEF PollEvent
<1>1. \/ Deliverable(x) /\ bl'.events = Append(bl.events, x)
      \/ ~Deliverable(x) /\ bl' = bl
  <2>1. x = Head(batchChannel)
    BY <1>0, ChannelTail DEF PollEvent
  <2>2. CASE Deliverable(x)
    <3>1. bl'.events = Append(bl.events, Head(batchChannel))
      BY <1>0, <2>1, <2>2, PollEventStep
    <3> QED BY <2>1, <2>2, <3>1
  <2>3. CASE ~Deliverable(x)
    BY <1>0, <2>1, <2>3, PollEventStep
  <2> QED BY <2>2, <2>3
<1> HIDE DEF x
<1>2. x = batchChannel[1] /\ x[1] \in Listeners /\ Sound' = Sound
  BY <1>0, EventParts DEF x, Sound, wsVars, connectorVars
<1>3. Batched \subseteq Batched' /\ (x \in RealEvents => \A l \in Listeners: l = x[1] /\ Live(l)' => x \in Batched')
  <2>1. CASE Deliverable(x) /\ bl'.events = Append(bl.events, x)
    <3>1. BatchEvents' = BatchEvents \cup {x}
      BY <1>0, <2>1, AppendRange DEF BatchTypes, BatchType, BatchEvents
    <3> QED BY <1>2, <3>1 DEF Batched
  <2>2. CASE ~Deliverable(x) /\ bl' = bl
    <3>1. ASSUME x \in RealEvents, NEW l \in Listeners, l = x[1], Live(l)' PROVE x \in Sound
      <4>1. lst[l].st = "in" /\ (Reliable(l) \/ Quiet)
        BY <1>0, <3>1, Grows DEF Live, Trusted, Invariant, listenerVars
      <4>2. lst[l].cp >= x[2] /\ lst[l].src = "event"
        BY <2>2, <3>1, <4>1 DEF Deliverable
      <4>3. UpTo(l, lst[l].cp) \subseteq Sound
        BY <1>0, <4>1, <4>2 DEF MarkInv
      <4>4. lst[l].cp \in Nat /\ x[2] \in Nat
        BY <1>0, EventParts, MaxPosAssumption DEF TypeInv, ListenerTypes, ListenerType
      <4>5. x \in UpTo(l, lst[l].cp)
        BY <3>1, <4>2, <4>4 DEF UpTo
      <4> QED BY <4>3, <4>5
    <3>2. Batched' = Batched
      BY <1>2, <2>2 DEF Batched, BatchEvents
    <3> QED BY <1>2, <3>1, <3>2 DEF Batched
  <2> QED BY <1>1, <2>1, <2>2
<1>4. /\ \A e \in RealEvents: Live(e[1])' /\ e \in Queued => e \in Queued'
      /\ \A e \in RealEvents: Live(e[1])' /\ e \in Held => e \in Held'
  <2>1. \A e \in RealEvents: Live(e[1])' /\ e \in Queued => e \in Queued'
    BY <1>0, <1>2, <1>3 DEF Queued
  <2> QED BY <1>0, <2>1 DEF Held
<1>5. ChannelInv'
  <2>1. ASSUME NEW i \in 1..Len(batchChannel'), Live(batchChannel[i][1])', NEW e \in Prior(batchChannel'[i])
        PROVE  e \in Batched' \/ \E j \in 1..(i - 1): batchChannel'[j] = e
    <3>1. /\ batchChannel'[i] = batchChannel[i + 1] /\ i + 1 \in 1..Len(batchChannel) /\ (i + 1) - 1 = i
          /\ batchChannel[i + 1][1] \in Listeners
      BY <1>0, NoneNew
    <3>2. e \in Batched' \/ \E j \in 1..i: batchChannel[j] = e
      BY <1>3, <2>1, <3>1, ChannelKept
    <3>3. ASSUME NEW j \in 1..i, batchChannel[j] = e PROVE e \in Batched' \/ \E k \in 1..(i - 1): batchChannel'[k] = e
      <4>1. CASE j = 1
        <5>1. e = x /\ e[1] = batchChannel[i + 1][1] /\ e \in RealEvents
          BY <1>2, <2>1, <3>1, <3>3, <4>1, PriorFacts
        <5> QED BY <1>2, <1>3, <2>1, <3>1, <5>1
      <4>2. CASE j # 1
        <5>1. j - 1 \in 1..(i - 1) /\ j - 1 \in 1..Len(batchChannel') /\ (j - 1) + 1 = j
          BY <1>0, <3>3, <4>2
        <5>2. batchChannel'[j - 1] = batchChannel[j]
          BY <1>0, <5>1
        <5> QED BY <3>3, <5>1, <5>2
      <4> QED BY <4>1, <4>2
    <3> QED BY <3>2, <3>3
  <2> QED BY <2>1 DEF ChannelInv, Prior
<1>6. PushInv'
  BY <1>0, <1>4, PushKept
<1>7. PendingInv'
  BY <1>0, <1>4, FlowSteps DEF PendingInv, Prior
<1>8. UpdatesInv'
  <2>1. ASSUME NEW i \in 1..Len(updates), Live(updates[i].ev[1])', ~updates[i].removed, NEW e \in Prior(updates[i].ev)
        PROVE  e \in Held' \/ InUpdates(e, i - 1)
    <3>1. updates[i].ev[1] \in Listeners /\ updates' = updates
      BY <1>0, NoneNew
    <3> QED BY <1>4, <2>1, <3>1, FlowSteps
  <2> QED BY <1>0, <2>1 DEF UpdatesInv, InUpdates, Prior
<1>9. ScanInv'
  <2>1. ASSUME NEW k \in known, Live(k)', NEW e \in UpTo(k, scan[k]) PROVE e \in Held' \/ InUpdates(e, Len(updates))
    BY <1>4, <2>1, FlowSteps
  <2> QED BY <1>0, <2>1 DEF ScanInv, InUpdates, UpTo, connectorVars
<1> QED BY <1>5, <1>6, <1>7, <1>8, <1>9 DEF FlowInv

\* The other steps of the batch loop leave the channel alone, and let go of a batch
\* only when it is settled.
LEMMA BatchKept ==
    ASSUME Invariant, BatchLoop, ~PollEvent, [Next]_vars
    PROVE  batchChannel' = batchChannel /\ Batched \subseteq Batched'
<1>0. Sound \subseteq Sound' /\ BatchInv /\ TypeInv /\ bl \in BatchType
  BY Grows DEF Invariant, TypeInv, BatchTypes
<1>1. CASE PollTimeout
  BY <1>0, <1>1 DEF PollTimeout, pipeVars, BatchType, Batched, BatchEvents
<1>2. CASE Post \/ WaitForAck \/ ActionInterrupted \/ RetryAction \/ Broadcast \/ \E c \in Conns: SendBatch(c)
  <2>1. batchChannel' = batchChannel
    BY <1>2 DEF Post, WaitForAck, ActionInterrupted, RetryAction, Broadcast, SendBatch, pipeVars
  <2>2. bl'.events = bl.events
    BY <1>0, <1>2, ActStep
  <2> QED BY <1>0, <2>1, <2>2 DEF Batched, BatchEvents
<1>3. CASE PollStopped \/ GiveUp
  <2>1. batchChannel' = batchChannel
    BY <1>3 DEF PollStopped, GiveUp, pipeVars
  <2>2. bl'.events = bl.events \/ BatchEvents \subseteq dropped'
    BY <1>0, <1>3 DEF PollStopped, GiveUp, Exit, Goto, BatchType
  <2> QED BY <1>0, <2>1, <2>2 DEF Batched, BatchEvents, Sound
<1>4. CASE WriteInterrupted \/ WriteCheckpoint \/ ApplyHWM \/ \E l \in Listeners: QueryHWM(l)
  <2>1. batchChannel' = batchChannel /\ bl.events = << >>
    BY <1>0, <1>4 DEF WriteInterrupted, WriteCheckpoint, ApplyHWM, QueryHWM, BatchInv, pipeVars
  <2> QED BY <1>0, <2>1, EmptyRange DEF Batched, BatchEvents
<1>5. CASE GenerateCheckpoint
  <2>1. batchChannel' = batchChannel /\ BatchEvents \subseteq Sound
    BY <1>0, <1>5 DEF GenerateCheckpoint, BatchInv, pipeVars
  <2> QED BY <1>0, <2>1 DEF Batched
<1> QED BY <1>1, <1>2, <1>3, <1>4, <1>5 DEF BatchLoop

LEMMA FlowStep == ASSUME Invariant, [Next]_vars PROVE FlowInv'
<1>1. CASE Crash
  BY <1>1, FlowCrash
<1>2. CASE ~Crash /\ \E a \in Admins: AdminNext(a)
  BY <1>2, FlowAdmin
<1>3. CASE ~Crash /\ (ServerNext \/ UNCHANGED vars)
  BY <1>3, FlowServer
<1>4. CASE ~Crash /\ PipeNext
  <2>1. CASE EventLoopExits
    <3>1. UNCHANGED <<pushing, pending, batchChannel, updates, bl, known, scan>>
      BY <2>1 DEF EventLoopExits, connectorVars, batchVars
    <3>2. Batched \subseteq Batched'
      BY <3>1, Grows DEF Batched, BatchEvents, Invariant
    <3> QED BY <1>4, <3>1, <3>2, FlowKept
  <2> QED BY <1>4, <2>1, FlowDetect, FlowPush, FlowConfirm, FlowReorganise, FlowLoop DEF PipeNext, Pipeline
<1>5. CASE ~Crash /\ BatchLoop
  <2>1. CASE PollEvent
    BY <1>5, <2>1, FlowPoll
  <2>2. CASE ~PollEvent
    <3>1. batchChannel' = batchChannel /\ Batched \subseteq Batched'
      BY <1>5, <2>2, BatchKept
    <3>2. UNCHANGED <<pushing, pending, updates, known, scan>>
      BY <1>5, BatchFrame DEF connectorVars
    <3> QED BY <1>5, <3>1, <3>2, FlowKept
  <2> QED BY <2>1, <2>2
<1> QED BY <1>1, <1>2, <1>3, <1>4, <1>5, NextSplit

\* What is marked as done: a step moves a checkpoint or a scan position only to where
\* everything before it is settled.
LEMMA MarkParts ==
    ASSUME Invariant, [Next]_vars,
           \A l \in Listeners: \/ lst'[l].cp = 0 \/ (lst'[l].cp = lst[l].cp /\ lst'[l].src = lst[l].src)
                               \/ (Reliable(l) \/ (Quiet' /\ lst'[l].src = "event") => UpTo(l, lst'[l].cp) \subseteq Sound'),
           \A l \in Listeners: \/ stored'[l] = 0 \/ stored'[l] = stored[l] \/ stored'[l] = bl.cp[l],
           \A l \in Listeners: \/ bl'.cp[l] = 0 \/ bl'.cp[l] = bl.cp[l]
                               \/ (Reliable(l) => UpTo(l, bl'.cp[l]) \subseteq Sound'),
           \A l \in known': \/ l \in known /\ scan'[l] = scan[l] /\ last'[l] = last[l]
                            \/ (setup.tracks => IsBlocks(l) \/ UpTo(l, scan'[l]) \subseteq Sound' \cup UpTo(l, last'[l])),
           \/ bl'.hwm = bl.hwm \/ bl'.hwm = << >>
           \/ (setup.tracks => UpTo(bl'.hwm[1], bl'.hwm[2]) \subseteq Sound' \cup UpTo(bl'.hwm[1], bl'.hwm[3]))
    PROVE  MarkInv'
<1>0. /\ MarkInv /\ Sound \subseteq Sound' /\ setup' = setup /\ (Quiet' => Quiet)
      /\ \A l: (IsBlocks(l)' <=> IsBlocks(l)) /\ (Reliable(l)' <=> Reliable(l))
      /\ \A l \in Listeners: UpTo(l, 0) = {}
  BY Grows, UpToFacts DEF Invariant
<1>1. ASSUME NEW l \in Listeners, Reliable(l) \/ (Quiet' /\ lst'[l].src = "event") PROVE UpTo(l, lst'[l].cp) \subseteq Sound'
  <2>1. CASE lst'[l].cp = 0
    BY <1>0, <2>1
  <2>2. CASE lst'[l].cp = lst[l].cp /\ lst'[l].src = lst[l].src
    BY <1>0, <1>1, <2>2 DEF MarkInv
  <2> QED BY <1>1, <2>1, <2>2
<1>2. ASSUME NEW l \in Listeners, Reliable(l) PROVE UpTo(l, stored'[l]) \subseteq Sound' /\ UpTo(l, bl'.cp[l]) \subseteq Sound'
  <2>1. UpTo(l, stored[l]) \subseteq Sound' /\ UpTo(l, bl.cp[l]) \subseteq Sound' /\ UpTo(l, 0) \subseteq Sound'
    BY <1>0, <1>2 DEF MarkInv
  <2> QED BY <1>2, <2>1
<1>3. ASSUME setup.tracks, NEW l \in known' PROVE IsBlocks(l) \/ UpTo(l, scan'[l]) \subseteq Sound' \cup UpTo(l, last'[l])
  BY <1>0, <1>3 DEF MarkInv
<1>4. ASSUME setup.tracks, bl'.hwm # << >> PROVE UpTo(bl'.hwm[1], bl'.hwm[2]) \subseteq Sound' \cup UpTo(bl'.hwm[1], bl'.hwm[3])
  BY <1>0, <1>4 DEF MarkInv
<1> QED BY <1>0, <1>1, <1>2, <1>3, <1>4 DEF MarkInv, UpTo

\* The checkpoint of the batch is one of its events: all before it is settled too.
LEMMA BatchMark ==
    ASSUME Invariant, bl.pc = "gen", NEW l \in Listeners, bl.cps[l] # 0, Trusted(l)
    PROVE  UpTo(l, bl.cps[l]) \subseteq Sound
<1> DEFINE f == <<l, bl.cps[l]>>
<1>1. f \in BatchEvents /\ BatchEvents \subseteq Sound /\ f[1] = l /\ bl.cps[l] \in 0..MaxPos
  BY DEF Invariant, BatchInv, TypeInv, BatchTypes, BatchType, Positions
<1>2. Prior(f) \subseteq Sound
  BY <1>1 DEF Invariant, OrderInv, Batched
<1> QED BY <1>1, <1>2, UpToFacts

LEMMA MarkAdmin == ASSUME Invariant, NEW a \in Admins, AdminNext(a) PROVE MarkInv'
<1>0. /\ [Next]_vars /\ TypeInv /\ AdminOK /\ MarkInv /\ Sound \subseteq Sound'
      /\ lst \in [Listeners -> ListenerType] /\ stored \in Positions /\ bl \in BatchType
      /\ \A l \in Listeners: UpTo(l, 0) = {} /\ NoCps[l] = 0
  <2>1. [Next]_vars
    BY DEF AdminNext, Next
  <2> QED BY <2>1, Grows, UpToFacts DEF Invariant, TypeInv, ListenerTypes, BatchTypes, NoCps
<1>1. \/ UNCHANGED bl
      \/ bl'.hwm = << >> /\ \A l \in Listeners: bl'.cp[l] = 0
  <2>1. UNCHANGED bl \/ bl' = IdleBatch("poll") \/ bl' = IdleBatch("none")
    BY AdminUpdates
  <2> QED BY <1>0, <2>1, EmptyBatch
<1>2. CASE \/ Begin(a) \/ RequestStop(a) \/ NotifyStopped(a) \/ FinishStop(a) \/ Stopped(a) \/ AddListener(a)
           \/ RemoveListener(a) \/ StopListener(a)
  <2>1. /\ stored' = stored /\ scan' = scan /\ last' = last /\ known' \subseteq known
        /\ \A l \in Listeners: lst'[l].cp = lst[l].cp /\ lst'[l].src = lst[l].src
    <3>1. CASE Begin(a) \/ RequestStop(a) \/ NotifyStopped(a) \/ Stopped(a)
      BY <3>1 DEF Begin, RequestStop, NotifyStopped, Stopped, listenerVars, connectorVars
    <3>2. CASE FinishStop(a)
      BY <1>0, <3>2 DEF FinishStop, ListenerType, connectorVars
    <3>3. CASE AddListener(a)
      <4>1. lst' = [lst EXCEPT ![admin[a].l].st = "in"]
        BY <3>3 DEF AddListener
      <4> QED BY <1>0, <3>3, <4>1 DEF AddListener, ListenerType, connectorVars
    <3>4. CASE RemoveListener(a)
      <4>1. lst' = [lst EXCEPT ![admin[a].l].st = "removed"]
        BY <3>4 DEF RemoveListener
      <4> QED BY <1>0, <3>4, <4>1 DEF RemoveListener, ListenerType, connectorVars
    <3>5. CASE StopListener(a)
      <4>1. lst' = [lst EXCEPT ![admin[a].l].started = FALSE]
        BY <3>5 DEF StopListener
      <4> QED BY <1>0, <3>5, <4>1 DEF StopListener, ListenerType, connectorVars
    <3> QED BY <1>2, <3>1, <3>2, <3>3, <3>4, <3>5
  <2> QED BY <1>0, <1>1, <2>1, MarkParts
<1>3. CASE ResetCheckpoint(a)
  <2>1. /\ admin[a].l \in Listeners /\ lst' = [lst EXCEPT ![admin[a].l].cp = 0, ![admin[a].l].src = "event"]
        /\ stored' = stored \/ stored' = [stored EXCEPT ![admin[a].l] = 0]
        /\ UNCHANGED <<known, scan, last>>
    BY <1>0, <1>3 DEF ResetCheckpoint, TypeInv, StreamTypes, connectorVars
  <2>2. \A l \in Listeners: lst'[l].cp = 0 \/ (lst'[l].cp = lst[l].cp /\ lst'[l].src = lst[l].src)
    BY <1>0, <2>1 DEF ListenerType
  <2>3. \A l \in Listeners: stored'[l] = 0 \/ stored'[l] = stored[l]
    BY <1>0, <2>1 DEF Positions
  <2> QED BY <1>0, <1>1, <2>1, <2>2, <2>3, MarkParts
<1>4. CASE DeleteStream(a)
  <2>1. UNCHANGED <<known, scan, last, lst>> /\ (stored' = stored \/ stored' = NoCps)
    BY <1>4 DEF DeleteStream, connectorVars
  <2> QED BY <1>0, <1>1, <2>1, MarkParts
<1>5. CASE StartListener(a)
  <2>1. /\ admin[a].l \in Listeners /\ UNCHANGED <<stored, last>> /\ scan \in Positions
        /\ \/ UNCHANGED <<known, scan, lst>>
           \/ \E s \in 0..MaxPos:
                /\ known' = known \cup {admin[a].l} /\ scan' = [scan EXCEPT ![admin[a].l] = s]
                /\ lst' = [lst EXCEPT ![admin[a].l].started = TRUE]
                /\ \A e \in Events: e[1] = admin[a].l /\ e[2] <= s => e \in passed'
    BY <1>0, <1>5, StartedNew DEF StartListener, TypeInv, ConnectorTypes
  <2>2. \A l \in Listeners: lst'[l].cp = lst[l].cp /\ lst'[l].src = lst[l].src
    BY <1>0, <2>1 DEF ListenerType
  <2>3. \A l \in known': \/ l \in known /\ scan'[l] = scan[l] /\ last'[l] = last[l]
                         \/ UpTo(l, scan'[l]) \subseteq Sound' \cup UpTo(l, last'[l])
    <3>1. CASE UNCHANGED <<known, scan, lst>>
      BY <2>1, <3>1
    <3>2. ASSUME NEW s \in 0..MaxPos, known' = known \cup {admin[a].l}, scan' = [scan EXCEPT ![admin[a].l] = s],
                 \A e \in Events: e[1] = admin[a].l /\ e[2] <= s => e \in passed'
          PROVE  \A l \in known': \/ l \in known /\ scan'[l] = scan[l] /\ last'[l] = last[l]
                                  \/ UpTo(l, scan'[l]) \subseteq Sound' \cup UpTo(l, last'[l])
      <4>1. scan'[admin[a].l] = s /\ UpTo(admin[a].l, s) \subseteq Sound'
        BY <1>0, <2>1, <3>2, EventParts DEF Positions, UpTo, Sound
      <4>2. \A l \in known: l # admin[a].l => scan'[l] = scan[l]
        BY <1>0, <2>1, <3>2 DEF Positions, TypeInv, ConnectorTypes
      <4> QED BY <2>1, <3>2, <4>1, <4>2
    <3> QED BY <2>1, <3>1, <3>2
  <2> QED BY <1>0, <1>1, <2>1, <2>2, <2>3, MarkParts
<1>6. CASE Start(a)
  <2>1. CASE status # "stopped"
    BY <1>0, <1>1, <1>6, <2>1, MarkParts DEF Start
  <2>2. CASE status = "stopped"
    <3>1. PICK o \in StartOutcomes: StartOutcome(o)
      BY <1>6, <2>2 DEF Start
    <3>2. stored' = stored
      BY <1>6 DEF Start
    <3>3. CASE o = "connector" \/ o = "checkpoint"
      <4>1. UNCHANGED <<known, scan, last, lst>>
        BY <3>1, <3>3 DEF StartOutcome
      <4> QED BY <1>0, <1>1, <3>2, <4>1, MarkParts
    <3>4. CASE o = "ok"
      <4>1. /\ known' = {l \in Listeners: lst[l].st = "in"} /\ scan' \in Positions
            /\ lst' = [l \in Listeners |-> [lst[l] EXCEPT !.started = lst[l].st = "in"]]
        BY <3>1, <3>4 DEF StartOutcome, Positions
      <4>2. \A l \in Listeners: lst'[l].cp = lst[l].cp /\ lst'[l].src = lst[l].src
        BY <1>0, <4>1 DEF ListenerType
      <4>3. ASSUME setup.tracks, NEW l \in known' PROVE UpTo(l, scan'[l]) \subseteq Sound'
        <5>1. /\ l \in Listeners /\ scan'[l] \in 0..MaxPos /\ stored[l] \in 0..MaxPos
              /\ stored[l] # 0 => scan'[l] <= stored[l]
              /\ \A e \in Events: stored[l] = 0 /\ e[1] = l /\ e[2] <= scan'[l] => e \in passed'
          BY <1>0, <3>1, <3>4, <4>1, <4>3, StartedFrom
        <5>2. CASE stored[l] = 0
          BY <5>1, <5>2, EventParts DEF UpTo, Sound
        <5>3. UpTo(l, stored[l]) \subseteq Sound
          BY <1>0, <4>3, <5>1 DEF MarkInv, Reliable
        <5>4. CASE stored[l] # 0
          BY <1>0, <5>1, <5>3, <5>4, UpToFacts
        <5> QED BY <5>2, <5>4
      <4> QED BY <1>0, <1>1, <3>2, <4>2, <4>3, MarkParts
    <3> QED BY <3>1, <3>3, <3>4 DEF StartOutcomes
  <2> QED BY <2>1, <2>2
<1> QED BY <1>2, <1>3, <1>4, <1>5, <1>6 DEF AdminNext, AdminStep

LEMMA MarkPipe == ASSUME Invariant, PipeNext PROVE MarkInv'
<1>0. [Next]_vars /\ TypeInv /\ MarkInv /\ UNCHANGED <<lst, stored, known, bl>> /\ Sound \subseteq Sound'
  <2>1. [Next]_vars
    BY DEF PipeNext, Next
  <2> QED BY <2>1, PipeFrame, Grows DEF Invariant, listenerVars
<1>1. CASE EventLoop \/ EventLoopExits \/ Push \/ (\E l \in Listeners: Confirm(l)) \/ \E e \in RealEvents: Reorganise(e)
  <2>1. UNCHANGED <<scan, last>>
    BY <1>1 DEF EventLoop, EventLoopExits, Push, Confirm, Reorganise, connectorVars
  <2> QED BY <1>0, <2>1, MarkParts
<1>2. ASSUME NEW l \in Listeners, Detect(l) PROVE MarkInv'
  <2> DEFINE p == scan[l] + 1
             x == <<l, p>>
  <2>1. /\ l \in known /\ scan[l] \in 0..MaxPos /\ p \in 0..MaxPos /\ scan' = [scan EXCEPT ![l] = p]
        /\ scan \in Positions /\ last \in Positions /\ known \subseteq Listeners
        /\ \/ (x \notin RealEvents \/ x \in gone) /\ UNCHANGED last
           \/ last' = [last EXCEPT ![l] = p]
           \/ IsBlocks(l) /\ UNCHANGED last
    BY <1>0, <1>2, Detected DEF TypeInv, ConnectorTypes
  <2>2. \A e \in UpTo(l, p): e \in RealEvents /\ (e \in UpTo(l, scan[l]) \/ e = x)
    BY <2>1, UpToFacts DEF UpTo
  <2> HIDE DEF p, x
  <2>3. scan'[l] = p
    BY <2>1 DEF Positions
  <2>4. \A k \in known: k # l => scan'[k] = scan[k] /\ last'[k] = last[k]
    BY <2>1 DEF Positions
  <2>5. ASSUME setup.tracks, ~IsBlocks(l) PROVE UpTo(l, scan'[l]) \subseteq Sound' \cup UpTo(l, last'[l])
    <3>1. CASE last' = [last EXCEPT ![l] = p]
      <4>1. last'[l] = p
        BY <2>1, <3>1 DEF Positions
      <4> QED BY <2>3, <4>1
    <3>2. CASE (x \notin RealEvents \/ x \in gone) /\ UNCHANGED last
      <4>1. UpTo(l, scan[l]) \subseteq Sound \cup UpTo(l, last[l])
        BY <1>0, <2>1, <2>5 DEF MarkInv
      <4>2. x \in RealEvents => x \in Sound
        BY <3>2 DEF Sound
      <4> QED BY <1>0, <2>2, <2>3, <3>2, <4>1, <4>2
    <3> QED BY <2>1, <2>5, <3>1, <3>2
  <2>6. \A k \in known': \/ k \in known /\ scan'[k] = scan[k] /\ last'[k] = last[k]
                         \/ (setup.tracks => IsBlocks(k) \/ UpTo(k, scan'[k]) \subseteq Sound' \cup UpTo(k, last'[k]))
    BY <1>0, <2>4, <2>5
  <2> QED BY <1>0, <2>6, MarkParts
<1> QED BY <1>1, <1>2 DEF PipeNext, Pipeline

LEMMA MarkBatch == ASSUME Invariant, BatchLoop PROVE MarkInv'
<1>0. /\ [Next]_vars /\ TypeInv /\ MarkInv /\ BatchInv /\ Sound \subseteq Sound' /\ (\A l: Trusted(l)' => Trusted(l)) /\ setup' = setup
      /\ UNCHANGED <<known, scan, last>> /\ (Quiet' => Quiet)
      /\ \A l \in Listeners: UpTo(l, 0) = {} /\ NoCps[l] = 0
      /\ bl \in BatchType /\ lst \in [Listeners -> ListenerType]
  <2>1. [Next]_vars
    BY DEF Next
  <2> QED BY <2>1, Grows, UpToFacts, BatchFrame DEF Invariant, NoCps, TypeInv, BatchTypes, ListenerTypes, connectorVars
<1>1. CASE PollEvent
  <2>1. UNCHANGED <<lst, stored>> /\ UNCHANGED <<bl.cp, bl.hwm>>
    BY <1>0, <1>1, PollEventStep DEF PollEvent, listenerVars
  <2> QED BY <1>0, <2>1, MarkParts
<1>2. CASE PollStopped \/ WriteInterrupted \/ (GiveUp /\ setup.onError = "block")
  <2>1. UNCHANGED <<lst, stored>> /\ bl' = IdleBatch("done")
    BY <1>0, <1>2, Exits DEF listenerVars
  <2> QED BY <1>0, <2>1, EmptyBatch, MarkParts
<1>3. CASE \/ PollTimeout \/ Post \/ Broadcast \/ WaitForAck \/ ActionInterrupted \/ RetryAction
           \/ (GiveUp /\ setup.onError = "skip") \/ \E c \in Conns: SendBatch(c)
  <2>1. UNCHANGED <<lst, stored>> /\ UNCHANGED <<bl.cp, bl.hwm>>
    BY <1>0, <1>3, ActStep DEF listenerVars
  <2> QED BY <1>0, <2>1, MarkParts
<1>4. CASE GenerateCheckpoint
  <2>1. /\ \A l \in Listeners: lst'[l] = IF lst[l].st = "in" /\ bl.cps[l] # 0
                                         THEN [lst[l] EXCEPT !.cp = bl.cps[l], !.src = "event"] ELSE lst[l]
        /\ bl'.hwm = << >> /\ bl.pc = "gen" /\ UNCHANGED stored
        /\ \A l \in Listeners: bl'.cp[l] = IF lst'[l].st = "in" THEN lst'[l].cp ELSE 0
    BY <1>0, <1>4, GenerateStep
  <2>2. ASSUME NEW l \in Listeners, Reliable(l) \/ (Quiet' /\ lst'[l].src = "event") PROVE UpTo(l, lst'[l].cp) \subseteq Sound'
    <3>1. Trusted(l)
      BY <1>0, <2>2 DEF Trusted
    <3>2. CASE lst[l].st = "in" /\ bl.cps[l] # 0
      <4>1. lst'[l].cp = bl.cps[l]
        BY <1>0, <2>1, <3>2 DEF ListenerType
      <4>2. UpTo(l, bl.cps[l]) \subseteq Sound
        BY <2>1, <3>1, <3>2, BatchMark
      <4> QED BY <1>0, <4>1, <4>2
    <3>3. CASE ~(lst[l].st = "in" /\ bl.cps[l] # 0)
      <4>1. lst'[l] = lst[l]
        BY <2>1, <3>3
      <4> QED BY <1>0, <2>2, <4>1 DEF MarkInv
    <3> QED BY <3>2, <3>3
  <2>3. \A l \in Listeners: bl'.cp[l] = 0 \/ (Reliable(l) => UpTo(l, bl'.cp[l]) \subseteq Sound')
    BY <2>1, <2>2
  <2> QED BY <1>0, <2>1, <2>2, <2>3, MarkParts
<1>5. ASSUME NEW l \in Listeners, QueryHWM(l) PROVE MarkInv'
  <2>1. /\ UNCHANGED <<lst, stored>> /\ l \in bl.stale /\ bl.cp \in Positions /\ ~IsBlocks(l)
        /\ \/ /\ l \in known /\ bl'.hwm = <<l, scan[l], IF setup.tracks THEN last[l] ELSE 0>> /\ UNCHANGED bl.cp
           \/ /\ bl'.hwm = << >> /\ bl'.cp = [bl.cp EXCEPT ![l] = IF lst[l].cp # 0 THEN lst[l].cp ELSE @]
    BY <1>0, <1>5, QueryStep DEF BatchInv, BatchType, listenerVars
  <2>2. CASE l \in known /\ bl'.hwm = <<l, scan[l], IF setup.tracks THEN last[l] ELSE 0>> /\ UNCHANGED bl.cp
    <3>1. setup.tracks => UpTo(bl'.hwm[1], bl'.hwm[2]) \subseteq Sound' \cup UpTo(bl'.hwm[1], bl'.hwm[3])
      BY <1>0, <2>1, <2>2 DEF MarkInv
    <3> QED BY <1>0, <2>1, <2>2, <3>1, MarkParts
  <2>3. CASE bl'.hwm = << >> /\ bl'.cp = [bl.cp EXCEPT ![l] = IF lst[l].cp # 0 THEN lst[l].cp ELSE @]
    <3>1. \A k \in Listeners: bl'.cp[k] = bl.cp[k] \/ (k = l /\ bl'.cp[k] = lst[k].cp)
      BY <2>1, <2>3 DEF Positions
    <3>2. \A k \in Listeners: bl'.cp[k] = bl.cp[k] \/ (Reliable(k) => UpTo(k, bl'.cp[k]) \subseteq Sound')
      BY <1>0, <3>1 DEF MarkInv
    <3> QED BY <1>0, <2>1, <2>3, <3>2, MarkParts
  <2> QED BY <2>1, <2>2, <2>3
<1>6. CASE ApplyHWM
  <2> DEFINE l == bl.hwm[1]
             pos == bl.hwm[2]
             at == bl.hwm[3]
  <2>1. /\ bl.hwm # << >> /\ l \in Listeners /\ pos \in 0..MaxPos /\ at \in 0..MaxPos /\ l \in bl.stale /\ ~IsBlocks(l)
        /\ bl'.hwm = << >> /\ UNCHANGED stored
        /\ \A k \in Listeners: k # l => lst'[k] = lst[k] /\ bl'.cp[k] = bl.cp[k]
        /\ HWMSafeToApply(l, at) =>
              /\ lst'[l] = [lst[l] EXCEPT !.cp = pos, !.src = "hwm"]
              /\ bl'.cp[l] \in {pos, bl.cp[l]}
        /\ ~HWMSafeToApply(l, at) => UNCHANGED lst /\ bl'.cp[l] \in {lst[l].cp, bl.cp[l]}
    BY <1>0, <1>6, ApplyStep DEF BatchInv
  <2>2. ASSUME HWMSafeToApply(l, at), Reliable(l) PROVE UpTo(l, pos) \subseteq Sound
    <3>1. setup.tracks
      BY <2>1, <2>2 DEF Reliable
    <3>2. UpTo(l, pos) \subseteq Sound \cup UpTo(l, at)
      BY <1>0, <2>1, <3>1 DEF MarkInv
    <3>3. UpTo(l, at) \subseteq Sound
      <4>1. CASE at = 0
        BY <1>0, <2>1, <4>1
      <4>2. CASE at # 0
        <5>1. lst[l].cp >= at /\ lst[l].cp \in 0..MaxPos
          BY <1>0, <2>1, <2>2, <4>2 DEF HWMSafeToApply, ListenerType
        <5>2. UpTo(l, lst[l].cp) \subseteq Sound
          BY <1>0, <2>1, <2>2 DEF MarkInv
        <5>3. at <= lst[l].cp
          BY <2>1, <5>1, MaxPosAssumption
        <5>4. UpTo(l, at) \subseteq UpTo(l, lst[l].cp)
          BY <2>1, <5>1, <5>3, UpToFacts
        <5> QED BY <5>2, <5>4
      <4> QED BY <4>1, <4>2
    <3> QED BY <3>2, <3>3
  <2> HIDE DEF l, pos, at
  <2>3. \A k \in Listeners: \/ lst'[k].cp = lst[k].cp /\ lst'[k].src = lst[k].src
                            \/ (Reliable(k) \/ (Quiet' /\ lst'[k].src = "event") => UpTo(k, lst'[k].cp) \subseteq Sound')
    <3>1. HWMSafeToApply(l, at) => lst'[l].cp = pos /\ lst'[l].src = "hwm"
      BY <1>0, <2>1 DEF ListenerType
    <3> QED BY <1>0, <2>1, <2>2, <3>1
  <2>4. \A k \in Listeners: bl'.cp[k] = bl.cp[k] \/ (Reliable(k) => UpTo(k, bl'.cp[k]) \subseteq Sound')
    <3>1. Reliable(l) => UpTo(l, lst[l].cp) \subseteq Sound
      BY <1>0, <2>1 DEF MarkInv
    <3> QED BY <1>0, <2>1, <2>2, <3>1
  <2> QED BY <1>0, <2>1, <2>3, <2>4, MarkParts
<1>7. CASE WriteCheckpoint
  <2>1. UNCHANGED lst /\ stored' = bl.cp /\ bl' = IdleBatch("poll")
    BY <1>7 DEF WriteCheckpoint
  <2> QED BY <1>0, <2>1, EmptyBatch, MarkParts
<1>8. GiveUp => setup.onError = "skip" \/ setup.onError = "block"
  BY DEF GiveUp
<1> QED BY <1>1, <1>2, <1>3, <1>4, <1>5, <1>6, <1>7, <1>8 DEF BatchLoop

LEMMA MarkStep == ASSUME Invariant, [Next]_vars PROVE MarkInv'
<1>1. CASE ServerNext \/ UNCHANGED vars
  <2>1. UNCHANGED <<lst, stored, bl, known, scan, last>>
    BY <1>1, ServerFrame DEF listenerVars, connectorVars, batchVars, vars
  <2> QED BY <2>1, MarkParts
<1>2. CASE Crash
  <2>1. /\ known' = {} /\ stored' = stored /\ bl' = IdleBatch("done")
        /\ lst' = [l \in Listeners |-> [lst[l] EXCEPT !.cp = 0, !.src = "event", !.started = FALSE]]
    BY <1>2 DEF Crash
  <2>2. \A l \in Listeners: lst'[l].cp = 0
    BY <2>1 DEF Invariant, TypeInv, ListenerTypes, ListenerType
  <2> QED BY <2>1, <2>2, EmptyBatch, MarkParts
<1> QED BY <1>1, <1>2, MarkAdmin, MarkPipe, MarkBatch, NextSplit

LEMMA InitInvariant == Init => Invariant
<1> SUFFICES ASSUME Init PROVE Invariant
  OBVIOUS
<1>1. TypeInv /\ AdminOK
  BY InitTypes, InitAdmin
<1>2. /\ bl = IdleBatch("done") /\ bl.pc = "done" /\ bl.events = << >> /\ bl.cps = NoCps /\ bl.cp = NoCps /\ bl.stale = {} /\ bl.hwm = << >>
      /\ BatchEvents = {} /\ receiver = << >> /\ Range(receiver) = {} /\ Range(batchChannel) = {} /\ Range(bl.events) = {}
      /\ batchChannel = << >> /\ updates = << >> /\ pending = {} /\ pushing = None /\ known = {}
  BY IdleBatchType, EmptyRange DEF Init, WsInit, BatchEvents
<1>3. StatusInv
  BY <1>2, SetupParts DEF Init, WsInit, StatusInv, Quiet, IdleAdmin
<1>4. /\ conn = [c \in Conns |-> GoneConn] /\ fan = [f \in Fans |-> IdleFan] /\ received = {} /\ batchNumber = 0
      /\ GoneConn.msg = NoMsg /\ GoneConn.inbox = {} /\ skipped = {} /\ IdleFan.msg = NoMsg /\ NoMsg.evs = {} /\ NoMsg.n = 0
  BY DEF Init, WsInit, GoneConn, NewConn, NoMsg, IdleFan
<1>5. \A l \in Listeners: NoCps[l] = 0 /\ UpTo(l, 0) = {} /\ lst[l].cp = 0 /\ stored[l] = 0
  BY UpToFacts DEF Init, NoCps
<1>6. NewInv /\ PipeInv /\ BatchInv
  BY <1>2, <1>4, <1>5 DEF NewInv, PipeInv, BatchInv
<1>7. AckInv
  BY <1>2, <1>4 DEF AckInv
<1>8. OrderInv
  BY <1>2, <1>4 DEF OrderInv
<1>9. FlowInv
  BY <1>2 DEF FlowInv, ChannelInv, PushInv, PendingInv, UpdatesInv, ScanInv
<1>10. MarkInv
  BY <1>2, <1>5 DEF MarkInv
<1> QED BY <1>1, <1>3, <1>6, <1>7, <1>8, <1>9, <1>10 DEF Invariant

LEMMA InvariantStep == ASSUME Invariant, [Next]_vars PROVE Invariant'
<1>1. TypeInv /\ AdminOK
  BY DEF Invariant
<1>2. TypeInv' /\ AdminOK'
  BY <1>1, TypeInvariant, AdminInvariant
<1> QED BY <1>2, StatusStep, NewStep, PipeStep, BatchPartsStep, AckStep, OrderStep, FlowStep, MarkStep DEF Invariant

\* writeCheckpoint, for any configuration, chain, clients and requests, with any
\* number of reorganisations, failures and restarts: every event at or behind the
\* stored checkpoint of a listener was written to a client or accepted by the
\* endpoint, removed by a reorganisation, dropped by a stop of the stream, or behind
\* the head at a start that found no checkpoint (never so for the events of a
\* listener whose fromBlock is a block: EventStreamTypeOK).
THEOREM NothingLostCorrect == Spec => []NothingLost
<1>1. Invariant => NothingLost
  <2>1. ASSUME Invariant, setup.onError = "block", setup.mode # "broadcast", NEW e \in RealEvents,
               setup.tracks \/ IsBlocks(e[1]), e[2] <= stored[e[1]]
        PROVE  e \in received \cup gone \cup dropped \cup passed
    <3>1. skipped = {} /\ e[1] \in Listeners
      BY <2>1, EventParts DEF Invariant, BatchInv
    <3>2. e \in Sound
      BY <2>1, <3>1 DEF Invariant, MarkInv, Reliable, UpTo
    <3> QED BY <3>1, <3>2 DEF Sound
  <2> QED BY <2>1 DEF NothingLost
<1>2. Init => Invariant
  BY InitInvariant
<1>3. Invariant /\ [Next]_vars => Invariant'
  BY InvariantStep
<1> QED BY <1>1, <1>2, <1>3, PTL DEF Spec

\* batchPoll and checkConfirmedEventForBatch: no event reaches the application before
\* an earlier one of the same listener that was neither removed, dropped, given up
\* nor behind the head at a start without a checkpoint, as long as the connector reports its last event or nothing went wrong yet.
THEOREM NoOvertakingCorrect == Spec => []NoOvertaking
<1>1. Invariant => NoOvertaking
  <2>1. ASSUME Invariant, setup.tracks \/ bounds.trouble = setup.trouble, NEW e \in RealEvents, NEW f \in RealEvents,
               e[1] = f[1], e[2] < f[2], f \in received
        PROVE  e \in Sound
    <3>1. Trusted(f[1]) /\ e \in Prior(f)
      BY <2>1 DEF Trusted, Reliable, Quiet, Prior
    <3> QED BY <2>1, <3>1 DEF Invariant, OrderInv
  <2> QED BY <2>1 DEF NoOvertaking, Sound
<1>2. Init => Invariant
  BY InitInvariant
<1>3. Invariant /\ [Next]_vars => Invariant'
  BY InvariantStep
<1> QED BY <1>1, <1>2, <1>3, PTL DEF Spec

=============================================================================
