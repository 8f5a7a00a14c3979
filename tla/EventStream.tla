----------------------------- MODULE EventStream -----------------------------
(***************************************************************************)
(* One event stream (internal/events): the connector's updates, the event  *)
(* loop, the hand-over from the confirmation manager, the batch loop with  *)
(* its action (webhook or WebSocket), the checkpoints of its listeners and *)
(* the administrative operations, composed with WebSocketServer.           *)
(*                                                                         *)
(* Chain positions 1..MaxPos are in order; Logs[l] are the positions at    *)
(* which listener l has an event (for a block listener: a block).  A       *)
(* checkpoint is a position, 0 for none.  The confirmation manager is      *)
(* abstracted to what ConfirmationManager.tla shows of it: it keeps the    *)
(* pending events and confirms those of a listener in order (which it does *)
(* not always do: ConfirmedInOrder is refuted there).                      *)
(***************************************************************************)
EXTENDS WebSocketServer, Integers, SequencesExt

CONSTANTS
    Setups,       \* stream configurations, see SetupsAssumption
    Listeners,    \* listener IDs
    Logs,         \* [Listeners -> the positions it has events at]
    MaxPos,       \* length of the chain
    Admins        \* API requests in progress at a time

ASSUME SetupsAssumption ==
    Setups \subseteq [mode: {"webhook", "load_balance", "broadcast"}, onError: {"block", "skip"},
                      confirms: BOOLEAN, tracks: BOOLEAN, batch: Nat \ {0}, trouble: Nat,
                      events: SUBSET Listeners, blocks: SUBSET Listeners, later: SUBSET Listeners,
                      latest: SUBSET Listeners]
ASSUME LogsAssumption == Logs \in [Listeners -> SUBSET (1..MaxPos)]
ASSUME MaxPosAssumption == MaxPos \in Nat

VARIABLES
    setup,        \* the configuration of this stream
    status, current,  \* es.status; es.currentState is not nil
    admin,        \* what each administrative request is doing
    lst,          \* the listener objects: [in es.listeners or not, checkpoint, its source, started]
    stored,       \* the checkpoint in the database
    known, scan, last,    \* connector: its listeners, scan position, last detection
    updates,      \* startedState.updates
    loop,         \* the event loop: "run", "done", or "none" when it was never started
    pending,      \* events waiting for confirmations
    pushing,      \* the event a goroutine is pushing into batchChannel, or None
    batchChannel,
    bl,           \* the batch loop and its local variables
    batchNumber,
    gone,         \* history: events a reorganisation removed
    passed,       \* history: events behind the position of a start without a checkpoint
    dropped,      \* history: events a stop took out of the pipeline
    skipped       \* history: events given up by error handling or sent without ack

streamVars == <<setup, status, current, admin>>
listenerVars == <<lst, stored>>
connectorVars == <<known, scan, last, gone, passed>>
pipeVars == <<updates, loop, pending, pushing, batchChannel>>
batchVars == <<bl, batchNumber, dropped, skipped>>
vars == <<wsVars, streamVars, listenerVars, connectorVars, pipeVars, batchVars, bounds>>

None == <<"none", 0>>
Events == {<<l, p>>: l \in Listeners, p \in 1..MaxPos}
RealEvents == {e \in Events: e[2] \in Logs[e[1]]}
IsBlocks(l) == l \in setup.blocks
BatchSize == setup.batch     \* spec.BatchSize, also the capacity of updates and batchChannel

NoCps == [l \in Listeners |-> 0]
IdleBatch(pc) == [pc |-> pc, events |-> << >>, cps |-> NoCps, cp |-> NoCps, stale |-> {}, hwm |-> <<>>]
IdleAdmin == [op |-> "none", step |-> "idle", l |-> None[1], again |-> FALSE]

\* A call to the connector or the database may fail, while the bound lasts.
Outcomes == IF bounds.trouble > 0 THEN BOOLEAN ELSE {TRUE}
CountFail(ok) == IF ok THEN UNCHANGED bounds ELSE Trouble

-----------------------------------------------------------------------------
(* Start.                                                                  *)

\* A listener whose fromBlock is "latest", the default, starts where the chain has
\* got to; a block listener at the first block it is notified of.
StartsAtHead(l) == l \in setup.latest \/ IsBlocks(l)
FirstFrom(l) == IF StartsAtHead(l) THEN scan[l]..MaxPos ELSE {0}

\* buildAddRequest, buildBlockAddRequest: a listener resumes at its stored
\* checkpoint, or without one at its fromBlock.  The connector may detect events
\* again that are behind the checkpoint; a block listener of ours does not.
From(l) ==
    IF stored[l] = 0 THEN FirstFrom(l)
    ELSE IF IsBlocks(l) THEN {stored[l]} ELSE {s \in 0..stored[l]: s >= stored[l] - 1}

\* start: the whole of it runs under es.mux.  An error reading the checkpoint
\* returns with the status already set; an error of the connector sets it back.
StartOutcome(o) ==
    CASE o = "ok" ->
           /\ status' = "started" /\ current' = TRUE
           /\ updates' = << >> /\ loop' = "run" /\ bl' = IdleBatch("poll")
           /\ known' = {l \in Listeners: lst[l].st = "in"}
           /\ scan' \in [Listeners -> 0..MaxPos]
           /\ \A l \in Listeners: IF lst[l].st = "in" THEN scan'[l] \in From(l) ELSE scan'[l] = scan[l]
           /\ passed' = passed \cup {e \in Events: /\ lst[e[1]].st = "in" /\ stored[e[1]] = 0
                                                 /\ e[2] <= scan'[e[1]]}
           /\ last' = NoCps
           /\ lst' = [l \in Listeners |-> [lst[l] EXCEPT !.started = lst[l].st = "in"]]
      [] o = "connector" ->
           /\ status' = "stopped" /\ current' = FALSE
           /\ UNCHANGED <<updates, loop, bl, known, scan, last, passed, lst>>
      [] o = "checkpoint" ->
           /\ status' = "started" /\ current' = TRUE
           /\ loop' = "none" /\ bl' = IdleBatch("none") /\ updates' = << >>
           /\ UNCHANGED <<known, scan, last, passed, lst>>

StartOutcomes == IF bounds.trouble > 0 THEN {"ok", "connector", "checkpoint"} ELSE {"ok"}

\* Start by request a: a no-op with an error unless the stream is stopped.
Start(a) ==
    /\ admin[a].step = "start"
    /\ IF status # "stopped"
       THEN UNCHANGED <<status, current, updates, loop, bl, known, scan, last, passed, lst, bounds>>
       ELSE \E o \in StartOutcomes: StartOutcome(o) /\ CountFail(o = "ok")
    /\ admin' = [admin EXCEPT ![a] = IdleAdmin]
    /\ UNCHANGED <<wsVars, setup, stored, gone, pending, pushing, batchChannel, batchNumber,
                   dropped, skipped>>

-----------------------------------------------------------------------------
(* Stop, and the operations that stop the stream.                          *)

\* requestStop.
RequestStop(a) ==
    /\ admin[a].step = "stop"
    /\ \/ /\ status = "stopping"     \* already stopping: wait with the other one
          /\ admin' = [admin EXCEPT ![a].step = IF current THEN "notify" ELSE "stopped"]
          /\ UNCHANGED status
       \/ /\ status \notin {"started", "stopping"}
          /\ admin' = [admin EXCEPT ![a] = IdleAdmin]
          /\ UNCHANGED status
       \/ /\ status = "started" /\ current
          /\ status' = "stopping"
          /\ admin' = [admin EXCEPT ![a].step = "notify"]
       \/ /\ status = "started" /\ ~current     \* nil startedState: the request panics
          /\ status' = "stopping"
          /\ admin' = [admin EXCEPT ![a] = IdleAdmin]
    /\ UNCHANGED <<wsVars, setup, current, listenerVars, connectorVars, pipeVars, batchVars, bounds>>

\* Stop: tell the connector; its error leaves the stream stopping.
NotifyStopped(a) ==
    /\ admin[a].step = "notify"
    /\ \E ok \in Outcomes:
         /\ CountFail(ok)
         /\ known' = {}
         /\ admin' = [admin EXCEPT ![a] = IF ok THEN [@ EXCEPT !.step = "wait"] ELSE IdleAdmin]
    /\ UNCHANGED <<wsVars, setup, status, current, listenerVars, scan, last, gone, passed, pipeVars, batchVars>>

\* Stop: wait for the confirmation manager, the event loop and the batch loop.
FinishStop(a) ==
    /\ admin[a].step = "wait"
    /\ pushing = None /\ loop = "done" /\ bl.pc = "done"
    /\ current' = FALSE
    /\ lst' = [l \in Listeners |-> [lst[l] EXCEPT !.started = FALSE]]
    /\ IF status = "stopping"
       THEN status' = "stopped" /\ admin' = [admin EXCEPT ![a].step = "stopped"]
       ELSE UNCHANGED status /\ admin' = [admin EXCEPT ![a] = IdleAdmin]
    /\ UNCHANGED <<wsVars, setup, stored, connectorVars, pipeVars, batchVars, bounds>>

\* What the request does once it has stopped the stream: UpdateSpec starts it
\* again; Apply of a reset first clears the checkpoint of the listener.
NextStep(op) == IF op = "update" THEN "start" ELSE op

Stopped(a) ==
    /\ admin[a].step = "stopped"
    /\ admin' = [admin EXCEPT ![a] = IF @.op = "stop" THEN IdleAdmin
                                    ELSE [@ EXCEPT !.step = NextStep(admin[a].op)]]
    /\ UNCHANGED <<wsVars, setup, status, current, listenerVars, connectorVars, pipeVars, batchVars, bounds>>

\* resetListenerCheckpoint; the stream is started again if it was started before.
ResetCheckpoint(a) ==
    LET l == admin[a].l
    IN  /\ admin[a].step = "reset"
        /\ \E ok \in Outcomes:
             /\ CountFail(ok)
             /\ lst' = [lst EXCEPT ![l].cp = 0, ![l].src = "event"]
             /\ stored' = IF ok THEN [stored EXCEPT ![l] = 0] ELSE stored
             /\ admin' = [admin EXCEPT ![a] = IF ok /\ @.again THEN [@ EXCEPT !.step = "start"]
                                             ELSE IdleAdmin]
        /\ UNCHANGED <<wsVars, setup, status, current, connectorVars, pipeVars, batchVars>>

\* Delete, once stopped: under the lock, delete the checkpoint, then the status.
DeleteStream(a) ==
    /\ admin[a].step = "delete"
    /\ \E ok \in Outcomes:
         /\ CountFail(ok)
         /\ stored' = IF ok THEN NoCps ELSE stored
         /\ status' = IF ok /\ status = "stopped" THEN "deleted" ELSE status
    /\ admin' = [admin EXCEPT ![a] = IdleAdmin]
    /\ UNCHANGED <<wsVars, setup, current, lst, connectorVars, pipeVars, batchVars>>

\* Apply of a new listener: it enters the map under the lock ...
AddListener(a) ==
    LET l == admin[a].l
    IN  /\ admin[a].step = "add"
        /\ lst' = [lst EXCEPT ![l].st = "in"]
        /\ admin' = [admin EXCEPT ![a] = IF current THEN [@ EXCEPT !.step = "addStart"] ELSE IdleAdmin]
        /\ UNCHANGED <<wsVars, setup, status, current, stored, connectorVars, pipeVars, batchVars, bounds>>

\* ... and is then started outside it, when there was a started state; listener.start.
StartListener(a) ==
    LET l == admin[a].l
    IN  /\ admin[a].step = "addStart"
        /\ \E ok \in Outcomes:
             /\ CountFail(ok)
             /\ IF ok /\ status = "started"
                THEN \E s \in FirstFrom(l):
                       /\ known' = known \cup {l} /\ scan' = [scan EXCEPT ![l] = s]
                       /\ passed' = passed \cup {<<l, p>>: p \in 1..s}
                       /\ lst' = [lst EXCEPT ![l].started = TRUE]
                ELSE UNCHANGED <<known, scan, passed, lst>>
        /\ admin' = [admin EXCEPT ![a] = IdleAdmin]
        /\ UNCHANGED <<wsVars, setup, status, current, stored, last, gone, pipeVars, batchVars>>

\* RemoveListener: out of the map, and then, when started, listener.stop.
RemoveListener(a) ==
    LET l == admin[a].l
    IN  /\ admin[a].step = "remove"
        /\ lst' = [lst EXCEPT ![l].st = "removed"]
        /\ admin' = [admin EXCEPT ![a] = IF current THEN [@ EXCEPT !.step = "removeStop"] ELSE IdleAdmin]
        /\ UNCHANGED <<wsVars, setup, status, current, stored, connectorVars, pipeVars, batchVars, bounds>>

StopListener(a) ==
    LET l == admin[a].l
    IN  /\ admin[a].step = "removeStop"
        /\ \E ok \in Outcomes:
             /\ CountFail(ok)
             /\ lst' = [lst EXCEPT ![l].started = FALSE]
             /\ known' = IF ok THEN known \ {l} ELSE known
        /\ admin' = [admin EXCEPT ![a] = IdleAdmin]
        /\ UNCHANGED <<wsVars, setup, status, current, stored, scan, last, gone, passed, pipeVars, batchVars>>

\* A request on a listener; the manager serves one at a time (listenersAdminMux),
\* and a new listener has an ID of its own.
ListenerOps == {"add", "remove", "reset"}

\* A request comes in.  Starting a stopped stream again is not bounded.
Begin(a) ==
    /\ admin[a].step = "idle" /\ status # "deleted"
    /\ \E op \in {"start", "stop", "update", "reset", "delete", "add", "remove"},
          l \in Listeners:
         /\ op \in {"start", "stop", "update", "delete"} => l = CHOOSE x \in Listeners: TRUE
         /\ op = "start" => status = "stopped"
         /\ op = "stop" => status \in {"started", "stopping"}
         /\ op = "update" => status = "started"   \* otherwise UpdateSpec changes the spec only
         /\ op \in {"reset", "remove"} => lst[l].st = "in"
         /\ op = "add" => lst[l].st = "new"
         /\ op \in ListenerOps => \A b \in Admins: admin[b].op \notin ListenerOps
         /\ admin' = [admin EXCEPT ![a] =
              [op |-> op, l |-> l, again |-> current,
               step |-> CASE op \in {"start", "stop", "add", "remove"} -> op
                          [] op = "update" -> "stop"
                          [] op = "reset" -> IF current THEN "stop" ELSE "reset"
                          [] op = "delete" -> IF status = "stopped" THEN "delete" ELSE "stop"]]
         /\ CountFail(op = "start")
    /\ UNCHANGED <<wsVars, setup, status, current, listenerVars, connectorVars, pipeVars, batchVars>>

-----------------------------------------------------------------------------
(* The connector (external), the event loop and the confirmation manager.  *)

\* The connector scans one position further for listener l.  Events go to
\* updates; the confirmed block listener pushes its blocks to batchChannel.
Detect(l) ==
    LET p == scan[l] + 1
        found == p \in Logs[l] /\ <<l, p>> \notin gone
    IN  /\ status = "started" /\ l \in known /\ p <= MaxPos
        /\ scan' = [scan EXCEPT ![l] = p]
        /\ \/ ~found /\ UNCHANGED <<updates, batchChannel, last>>
           \/ /\ found /\ ~IsBlocks(l) /\ Len(updates) < BatchSize
              /\ updates' = Append(updates, [ev |-> <<l, p>>, removed |-> FALSE])
              /\ last' = [last EXCEPT ![l] = p]
              /\ UNCHANGED batchChannel
           \/ /\ found /\ IsBlocks(l) /\ Len(batchChannel) < BatchSize
              /\ batchChannel' = Append(batchChannel, <<l, p>>)
              /\ UNCHANGED <<updates, last>>
        /\ UNCHANGED <<wsVars, streamVars, listenerVars, known, gone, passed, loop, pending, pushing,
                       batchVars, bounds>>

\* A reorganisation removes an event that is not confirmed yet.
Reorganise(e) ==
    /\ status = "started" /\ loop = "run" /\ setup.confirms
    /\ e \notin gone
    /\ e \in pending \/ \E i \in DOMAIN updates: updates[i].ev = e
    /\ Len(updates) < BatchSize
    /\ gone' = gone \cup {e}
    /\ updates' = Append(updates, [ev |-> e, removed |-> TRUE])
    /\ Trouble
    /\ UNCHANGED <<wsVars, streamVars, listenerVars, known, scan, last, passed, loop, pending, pushing,
                   batchChannel, batchVars>>

\* eventLoop: processRemovedEvent, processNewEvent.  Notify fails once the
\* confirmation manager is stopped, or may still be taken by its channel.
EventLoop ==
    LET u == Head(updates)
        e == u.ev
    IN  /\ loop = "run" /\ updates # << >>
        /\ setup.confirms \/ pushing = None
        /\ updates' = Tail(updates)
        /\ \/ /\ u.removed /\ pending' = pending \ {e}
              /\ UNCHANGED <<pushing, dropped>>
           \/ /\ ~u.removed /\ lst[e[1]].st # "in"
              /\ UNCHANGED <<pending, pushing, dropped>>
           \/ /\ ~u.removed /\ lst[e[1]].st = "in" /\ ~setup.confirms
              /\ pushing' = e
              /\ UNCHANGED <<pending, dropped>>
           \/ /\ ~u.removed /\ lst[e[1]].st = "in" /\ setup.confirms
              /\ pending' = pending \cup {e}
              /\ UNCHANGED <<pushing, dropped>>
           \/ /\ ~u.removed /\ lst[e[1]].st = "in" /\ setup.confirms /\ status = "stopping"
              /\ dropped' = dropped \cup {e}
              /\ UNCHANGED <<pending, pushing>>
        /\ UNCHANGED <<wsVars, streamVars, listenerVars, connectorVars, loop, batchChannel,
                       bl, batchNumber, skipped, bounds>>

\* eventLoop: the context is cancelled.
EventLoopExits ==
    /\ loop = "run" /\ status = "stopping"
    /\ setup.confirms \/ pushing = None
    /\ loop' = "done"
    /\ UNCHANGED <<wsVars, streamVars, listenerVars, connectorVars, updates, pending, pushing,
                   batchChannel, batchVars, bounds>>

\* The confirmation manager confirms the first pending event of a listener and
\* calls back into the stream, which pushes it.
Confirm(l) ==
    \E first \in pending:
        /\ first[1] = l /\ \A e \in pending: e[1] = l => first[2] <= e[2]
        /\ setup.confirms /\ pushing = None /\ loop \in {"run", "done"}
        /\ status \in {"started", "stopping"} /\ current
        /\ first \notin gone
        /\ pending' = pending \ {first}
        /\ pushing' = first
        /\ UNCHANGED <<wsVars, streamVars, listenerVars, connectorVars, updates, loop, batchChannel,
                       batchVars, bounds>>

\* Mutant of Push: the channel is taken to have room.
PushUnbounded ==
    /\ pushing # None
    /\ batchChannel' = Append(batchChannel, pushing)
    /\ pushing' = None
    /\ UNCHANGED <<wsVars, streamVars, listenerVars, connectorVars, updates, loop, pending, batchVars, bounds>>

\* es.batchChannel <- fev: there is no way out of it but room in the channel.
Push ==
    /\ pushing # None /\ Len(batchChannel) < BatchSize
    /\ batchChannel' = Append(batchChannel, pushing)
    /\ pushing' = None
    /\ UNCHANGED <<wsVars, streamVars, listenerVars, connectorVars, updates, loop, pending, batchVars, bounds>>

-----------------------------------------------------------------------------
(* The batch loop: batchPoll.                                              *)

\* Mutant of Deliverable: where the checkpoint came from is not looked at.
DeliverableByPosition(e) ==
    LET l == lst[e[1]]
    IN  l.st = "in" /\ ~(l.cp # 0 /\ l.cp >= e[2])

\* checkConfirmedEventForBatch: an event at or behind the checkpoint is a
\* re-detection, unless that checkpoint came from the connector's scan position.
Deliverable(e) ==
    LET l == lst[e[1]]
    IN  l.st = "in" /\ ~(l.cp # 0 /\ l.cp >= e[2] /\ l.src = "event")

BatchEvents == Range(bl.events)
Message == [n |-> batchNumber, evs |-> BatchEvents]

PollEvent ==
    LET e == Head(batchChannel)
        evs == Append(bl.events, e)
    IN  /\ bl.pc = "poll" /\ batchChannel # << >>
        /\ batchChannel' = Tail(batchChannel)
        /\ IF Deliverable(e)
           THEN /\ bl' = [bl EXCEPT !.events = evs, !.cps[e[1]] = e[2],
                                    !.pc = IF Len(evs) >= BatchSize THEN "act" ELSE "poll"]
                /\ batchNumber' = IF bl.events = << >> THEN batchNumber + 1 ELSE batchNumber
           ELSE UNCHANGED <<bl, batchNumber>>
        /\ UNCHANGED <<wsVars, streamVars, listenerVars, connectorVars, updates, loop, pending, pushing,
                       dropped, skipped, bounds>>

\* The batch timeout, or the checkpoint timeout when there is no batch.
PollTimeout ==
    /\ bl.pc = "poll"
    /\ bl' = [bl EXCEPT !.pc = IF bl.events = << >> THEN "gen" ELSE "act"]
    /\ UNCHANGED <<wsVars, streamVars, listenerVars, connectorVars, pipeVars, batchNumber, dropped,
                   skipped, bounds>>

\* The batch loop ends; the events of the batch it was working on are dropped.
Exit(lost) ==
    /\ bl' = IdleBatch("done")
    /\ dropped' = dropped \cup lost
    /\ UNCHANGED <<batchNumber, skipped>>

PollStopped ==
    /\ bl.pc = "poll" /\ status = "stopping"
    /\ Exit(BatchEvents)
    /\ UNCHANGED <<wsVars, streamVars, listenerVars, connectorVars, pipeVars, bounds>>

-----------------------------------------------------------------------------
(* The batch loop: performActionsWithRetry.                                *)

Goto(pc) == bl' = [bl EXCEPT !.pc = pc] /\ UNCHANGED <<batchNumber, dropped>>

\* webhookAction.attemptBatch: refused, received but answered with an error (or
\* the answer lost), or accepted.
Post ==
    /\ bl.pc = "act" /\ setup.mode = "webhook"
    /\ \/ Goto("backoff") /\ UNCHANGED received
       \/ Goto("backoff") /\ received' = received \cup BatchEvents
       \/ status = "started" /\ Goto("gen") /\ received' = received \cup BatchEvents
    /\ UNCHANGED <<conn, receiver, fan, streamVars, listenerVars, connectorVars, pipeVars,
                   skipped, bounds>>

\* webSocketAction.attemptBatch, load balanced: one connection takes the batch.
SendBatch(c) ==
    /\ bl.pc = "act" /\ setup.mode = "load_balance" /\ SenderReady(c)
    /\ conn' = Taken(c, Message)
    /\ Goto("ack")
    /\ UNCHANGED <<receiver, fan, received, streamVars, listenerVars, connectorVars, pipeVars,
                   skipped, bounds>>

\* webSocketAction.attemptBatch, broadcast: done once the broadcaster has it.
Broadcast ==
    /\ bl.pc = "act" /\ setup.mode = "broadcast"
    /\ FanTakes("topic", Message)
    /\ skipped' = skipped \cup BatchEvents
    /\ Goto("gen")
    /\ UNCHANGED <<conn, receiver, received, streamVars, listenerVars, connectorVars, pipeVars, bounds>>

\* waitForAck: an error ends the attempt, an ack for another batch is discarded.
WaitForAck ==
    /\ bl.pc = "ack" /\ receiver # << >>
    /\ receiver' = Tail(receiver)
    /\ CASE Head(receiver) = Err -> Goto("backoff")
         [] Head(receiver) = batchNumber -> Goto("gen")
         [] OTHER -> UNCHANGED <<bl, batchNumber, dropped>>
    /\ UNCHANGED <<conn, fan, received, streamVars, listenerVars, connectorVars, pipeVars,
                   skipped, bounds>>

\* The select on sending or receiving is interrupted by the cancelled context.
ActionInterrupted ==
    /\ bl.pc \in {"act", "ack"} /\ setup.mode # "webhook" /\ status = "stopping"
    /\ Goto("backoff")
    /\ UNCHANGED <<wsVars, streamVars, listenerVars, connectorVars, pipeVars, skipped, bounds>>

\* After a failed attempt: try again; once the retry timeout has passed, or the
\* context is cancelled, error handling "skip" gives the batch up as if it were
\* delivered; "block" only ends with the context.
RetryAction ==
    /\ bl.pc = "backoff" /\ status = "started"
    /\ Goto("act")
    /\ UNCHANGED <<wsVars, streamVars, listenerVars, connectorVars, pipeVars, skipped, bounds>>

GiveUp ==
    /\ bl.pc = "backoff"
    /\ \/ /\ setup.onError = "skip"
          /\ skipped' = skipped \cup BatchEvents
          /\ Goto("gen")
       \/ /\ setup.onError = "block" /\ status = "stopping"
          /\ Exit(BatchEvents)
    /\ UNCHANGED <<wsVars, streamVars, listenerVars, connectorVars, pipeVars, bounds>>

-----------------------------------------------------------------------------
(* The batch loop: writeCheckpoint.                                        *)

\* generateCheckpoint under the lock: the checkpoints of the batch become those
\* of the listeners.  Which other started listeners are stale depends on time.
GenerateCheckpoint ==
    LET now == [l \in Listeners |->
                  IF lst[l].st = "in" /\ bl.cps[l] # 0
                  THEN [lst[l] EXCEPT !.cp = bl.cps[l], !.src = "event"] ELSE lst[l]]
        query == {l \in Listeners: now[l].st = "in" /\ now[l].started /\ ~IsBlocks(l)}
    IN  /\ bl.pc = "gen"
        /\ lst' = now
        /\ \E stale \in SUBSET query:
             /\ \A l \in query: now[l].cp = 0 => l \in stale
             /\ bl' = [IdleBatch("hwm") EXCEPT !.stale = stale,
                         !.cp = [l \in Listeners |-> IF now[l].st = "in" THEN now[l].cp ELSE 0]]
        /\ UNCHANGED <<wsVars, streamVars, stored, connectorVars, pipeVars, batchNumber, dropped,
                       skipped, bounds>>

\* checkUpdateHWMCheckpoint: ask the connector for its scan position and, where
\* it supports that, the last event it detected.
QueryHWM(l) ==
    /\ bl.pc = "hwm" /\ l \in bl.stale /\ bl.hwm = << >>
    /\ bl' = IF l \in known
             THEN [bl EXCEPT !.hwm = <<l, scan[l], IF setup.tracks THEN last[l] ELSE 0>>]
             ELSE [bl EXCEPT !.stale = @ \ {l},
                             !.cp[l] = IF lst[l].cp # 0 THEN lst[l].cp ELSE @]
    /\ UNCHANGED <<wsVars, streamVars, listenerVars, connectorVars, pipeVars, batchNumber, dropped,
                   skipped, bounds>>

CheckInFlight(l) == \E e \in pending: e[1] = l

\* Mutant of HWMSafeToApply: the last event detected is not looked at.
HWMUnlessInFlight(l, detected) == ~CheckInFlight(l)

\* lockedHWMSafeToApply.
HWMSafeToApply(l, detected) ==
    IF detected # 0 THEN lst[l].cp # 0 /\ lst[l].cp >= detected ELSE ~CheckInFlight(l)

\* checkUpdateHWMCheckpoint, under the lock, with an answer that may be old.
ApplyHWM ==
    LET l == bl.hwm[1]
        pos == bl.hwm[2]
        safe == HWMSafeToApply(l, bl.hwm[3])
        cp == IF safe THEN pos ELSE lst[l].cp
    IN  /\ bl.pc = "hwm" /\ bl.hwm # << >>
        /\ lst' = IF safe THEN [lst EXCEPT ![l].cp = pos, ![l].src = "hwm"] ELSE lst
        /\ bl' = [bl EXCEPT !.hwm = << >>, !.stale = @ \ {l}, !.cp[l] = IF cp # 0 THEN cp ELSE @]
        /\ UNCHANGED <<wsVars, streamVars, stored, connectorVars, pipeVars, batchNumber, dropped,
                       skipped, bounds>>

\* writeCheckpoint: retried until it succeeds or the context is cancelled.
WriteCheckpoint ==
    /\ bl.pc = "hwm" /\ bl.stale = {} /\ bl.hwm = << >>
    /\ stored' = bl.cp
    /\ bl' = IdleBatch("poll")
    /\ UNCHANGED <<wsVars, streamVars, lst, connectorVars, pipeVars, batchNumber, dropped, skipped, bounds>>

WriteInterrupted ==
    /\ bl.pc = "hwm" /\ bl.stale = {} /\ bl.hwm = << >> /\ status = "stopping"
    /\ Exit({})
    /\ UNCHANGED <<wsVars, streamVars, listenerVars, connectorVars, pipeVars, bounds>>

-----------------------------------------------------------------------------
(* The process.                                                            *)

\* The process dies and comes back with what is in the database; the stream is
\* started again by restoreStreams, or later when it was suspended.
Crash ==
    /\ status # "deleted"
    /\ Trouble
    /\ conn' = [c \in Conns |-> GoneConn] /\ receiver' = << >> /\ fan' = [f \in Fans |-> IdleFan]
    /\ status' = "stopped" /\ current' = FALSE
    /\ admin' = [a \in Admins |-> IdleAdmin]
    /\ lst' = [l \in Listeners |-> [lst[l] EXCEPT !.cp = 0, !.src = "event", !.started = FALSE]]
    /\ known' = {} /\ last' = NoCps
    /\ updates' = << >> /\ loop' = "done" /\ pending' = {} /\ pushing' = None /\ batchChannel' = << >>
    /\ bl' = IdleBatch("done") /\ batchNumber' = 0
    /\ UNCHANGED <<received, setup, stored, scan, gone, passed, dropped, skipped>>

Init ==
    /\ setup \in Setups
    /\ WsInit(setup.trouble)
    /\ status = "stopped" /\ current = FALSE
    /\ admin = [a \in Admins |-> IdleAdmin]
    /\ lst = [l \in Listeners |->
                [st |-> IF l \in setup.events \cup setup.blocks THEN "in"
                        ELSE IF l \in setup.later THEN "new" ELSE "removed",
                 cp |-> 0, src |-> "event", started |-> FALSE]]
    /\ stored = NoCps
    /\ known = {} /\ scan = NoCps /\ last = NoCps /\ gone = {} /\ passed = {}
    /\ updates = << >> /\ loop = "done" /\ pending = {} /\ pushing = None /\ batchChannel = << >>
    /\ bl = IdleBatch("done") /\ batchNumber = 0 /\ dropped = {} /\ skipped = {}

AdminStep(a) ==
    \/ Start(a) \/ RequestStop(a) \/ NotifyStopped(a) \/ FinishStop(a) \/ Stopped(a)
    \/ ResetCheckpoint(a) \/ DeleteStream(a)
    \/ AddListener(a) \/ StartListener(a) \/ RemoveListener(a) \/ StopListener(a)

Pipeline == EventLoop \/ EventLoopExits \/ Push \/ \E l \in Listeners: Detect(l) \/ Confirm(l)

BatchLoop ==
    \/ PollEvent \/ PollTimeout \/ PollStopped
    \/ Post \/ Broadcast \/ WaitForAck \/ ActionInterrupted \/ RetryAction \/ GiveUp
    \/ \E c \in Conns: SendBatch(c)
    \/ GenerateCheckpoint \/ ApplyHWM \/ WriteCheckpoint \/ WriteInterrupted
    \/ \E l \in Listeners: QueryHWM(l)

\* Where no client can take a batch of this stream, the server is left out.
ServerStep ==
    /\ setup.mode # "webhook"
    /\ \E c \in Conns: ConnStep(c) \/ ClientStep(c)
    /\ UNCHANGED <<streamVars, listenerVars, connectorVars, pipeVars, batchVars>>

\* Replies go out beside the batches of a broadcast stream.
ReplyStep ==
    /\ setup.mode = "broadcast"
    /\ SendReply \/ \E c \in Conns: ListenReplies(c)
    /\ UNCHANGED <<streamVars, listenerVars, connectorVars, pipeVars, batchVars>>

Next ==
    \/ \E a \in Admins: Begin(a) \/ AdminStep(a)
    \/ Pipeline \/ BatchLoop \/ ServerStep \/ ReplyStep \/ Crash
    \/ \E e \in RealEvents: Reorganise(e)

Spec == Init /\ [][Next]_vars

-----------------------------------------------------------------------------
(* Fairness: every goroutine keeps running; a connector, a webhook endpoint *)
(* or a client that keeps being asked answers in the end.                   *)

StreamFairness ==
    /\ \A a \in Admins: WF_vars(AdminStep(a))
    /\ WF_vars(EventLoop) /\ WF_vars(EventLoopExits) /\ WF_vars(Push)
    /\ \A l \in Listeners: WF_vars(Detect(l)) /\ WF_vars(Confirm(l)) /\ WF_vars(QueryHWM(l))
    /\ SF_vars(PollEvent) /\ WF_vars(BatchLoop)
    /\ SF_vars(Post /\ bl'.pc = "gen")
    /\ \A c \in Conns:
         /\ WF_vars(ServerStep /\ ConnStep(c)) /\ SF_vars(ServerStep /\ Ack(c))

FairSpec == Spec /\ StreamFairness

-----------------------------------------------------------------------------
(* Properties.                                                             *)

\* Type correctness, with the capacities of the channels: updates and
\* batchChannel never hold more than spec.BatchSize events.
EventStreamTypeOK ==
    /\ WsTypeOK
    /\ setup \in Setups
    /\ status \in {"stopped", "started", "stopping", "deleted"} /\ current \in BOOLEAN
    /\ lst \in [Listeners -> [st: {"new", "in", "removed"}, cp: 0..MaxPos, src: {"event", "hwm"},
                              started: BOOLEAN]]
    /\ stored \in [Listeners -> 0..MaxPos] /\ scan \in [Listeners -> 0..MaxPos]
    /\ known \subseteq Listeners /\ gone \subseteq Events
    /\ passed \subseteq {e \in Events: StartsAtHead(e[1])}
    /\ updates \in Seq([ev: Events, removed: BOOLEAN]) /\ Len(updates) <= BatchSize
    /\ loop \in {"run", "done", "none"} /\ pending \subseteq Events
    /\ pushing \in Events \cup {None}
    /\ batchChannel \in Seq(Events) /\ Len(batchChannel) <= BatchSize
    /\ bl.pc \in {"none", "done", "poll", "act", "ack", "backoff", "gen", "hwm"}
    /\ Len(bl.events) <= BatchSize

\* writeCheckpoint: whatever a crash, a reset or a restart resumes from, every
\* event at or behind the stored checkpoint of a listener was written to a client
\* or accepted by the endpoint, unless the stop of the stream took it out of the
\* pipeline, or a start that found no checkpoint began at the head of the chain.
\* For streams that block on errors and wait for acks, and connectors that report
\* the last event they detected.
NothingLost ==
    setup.onError = "block" /\ setup.mode # "broadcast" =>
        \A e \in RealEvents:
            /\ lst[e[1]].st = "in" /\ (setup.tracks \/ IsBlocks(e[1]))
            /\ e[2] <= stored[e[1]]
            => e \in received \cup gone \cup dropped \cup passed

\* batchPoll and checkConfirmedEventForBatch: no event reaches the application
\* before an earlier one of the same listener, whatever is re-detected,
\* redelivered or applied from the connector's scan position in between.
NoOvertaking ==
    setup.tracks \/ bounds.trouble = setup.trouble =>
        \A e, f \in RealEvents:
            e[1] = f[1] /\ e[2] < f[2] /\ f \in received
            => e \in received \cup gone \cup dropped \cup skipped \cup passed

\* checkConfirmedEventForBatch (the comment at eventstream.go:916): an event that
\* is discarded because it is behind the position of an acked event was delivered.
DiscardedWereDelivered ==
    bl.pc = "poll" /\ batchChannel # << >> =>
        LET e == Head(batchChannel)
        IN  lst[e[1]].st = "in" /\ ~Deliverable(e) => e \in received \cup skipped

\* The stream is up, and somebody takes its batches.
Healthy ==
    /\ status = "started" /\ current /\ loop = "run"
    /\ setup.mode = "load_balance" => \E c \in Conns: conn[c].watch /\ conn[c].alive /\ ~conn[c].closed

Settled ==
    \A e \in RealEvents: lst[e[1]].st = "in" /\ lst[e[1]].started
                         => e \in received \cup gone \cup dropped \cup skipped \cup passed

\* The batch loop, the acks, errors and retries together: once the stream stays up
\* with a client that acknowledges, every event of its listeners is delivered.
EventsDelivered == <>[](Healthy /\ (setup.tracks \/ bounds.trouble = setup.trouble)) => <>[]Settled

\* A stored checkpoint is there for the next start, unless it was reset: but
\* generateCheckpoint writes only what is in memory, nothing after a restart.
CheckpointKept ==
    [][\A l \in Listeners: lst[l].st = "in" /\ stored[l] # 0 /\ stored'[l] = 0
          => \E a \in Admins: admin[a].step \in {"reset", "delete"}]_stored

\* Stop (eventstream.go:743): a stop that was requested comes to an end.
StopEnds == \A a \in Admins: admin[a].step = "wait" ~> admin[a].step # "wait"
=============================================================================
