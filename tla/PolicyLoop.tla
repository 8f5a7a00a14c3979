----------------------------- MODULE PolicyLoop -----------------------------
(***************************************************************************)
(* The simple transaction handler of FireFly Transaction Manager: its      *)
(* policy loop goroutine, the API goroutines that submit transactions and  *)
(* queue requests against them, the callbacks the confirmation manager     *)
(* makes into it, and the transaction table that survives a restart.       *)
(*                                                                         *)
(* The confirmation manager, the connector and the blockchain appear only  *)
(* as the handler sees them: a hash is tracked or not, a send is accepted  *)
(* or refused, a receipt and then a final confirmation are delivered.      *)
(***************************************************************************)
EXTENDS Integers, Sequences, FiniteSets

CONSTANTS
    Txs,          \* transaction IDs; an ID is submitted at most once
    Reqs,         \* API requests against transactions, each made at most once
    Actions,      \* what those requests may ask for
    Hashes,       \* the hashes successive gas prices give one transaction
    MaxInFlight,  \* transactions.maxInFlight
    Store,        \* which persistence keeps the transactions
    Writers,      \* txwriter.count: inserts that can be in progress at once
    Faults,       \* the operations that may fail
    QueueLength,  \* confirmations.notificationQueueLength
    ChainTrackingMode, \* what the connector tells of blocks, "full" or "light"
    Outcomes,     \* bound: what a mined transaction may come out as
    MaxCrashes,   \* bound: how often the process is restarted
    MaxReorgs     \* bound: how often a mined transaction drops out again

NoHash == 0

ASSUME TxsAssumption == IsFiniteSet(Txs)
ASSUME HashesAssumption == Hashes \subseteq Nat \ {NoHash}
ASSUME MaxInFlightAssumption == MaxInFlight \in Nat \ {0}
ASSUME ActionsAssumption == Actions \subseteq {"Delete", "Suspend", "Resume", "Update"}
ASSUME StoreAssumption ==
    /\ Store \in {"leveldb", "postgres"}
    /\ Writers \in Nat \ {0}
    /\ Store = "leveldb" => Writers = 1   \* txMux
ASSUME FaultsAssumption ==
    Faults \subseteq {"write", "history", "send", "timeout", "track"}
ASSUME QueueLengthAssumption == QueueLength \in Nat \ {0, 1}
ASSUME ModeAssumption == ChainTrackingMode \in {"full", "light"}
ASSUME OutcomesAssumption == Outcomes \subseteq {"ok", "fail"}
ASSUME BoundsAssumption == MaxCrashes \in Nat /\ MaxReorgs \in Nat

VARIABLES
    db,        \* the persisted transactions
    seq,       \* the SequenceID persistence gave each transaction, 0 before
    ins,       \* where the goroutine submitting each transaction is
    inflight,  \* sth.inflight: ascending by SequenceID, so a set is enough
    pend,      \* the pendingState of each transaction
    stale,     \* sth.inflightStale, a channel of capacity one
    update,    \* sth.inflightUpdate, a channel of capacity one
    req,       \* the API requests
    queue,     \* sth.policyEngineAPIRequests
    batch,     \* the requests the current cycle took off the queue
    pc,        \* where the policy loop goroutine is
    refresh,   \* the stale marker popped for the current cycle
    todo,      \* in-flight transactions the current cycle has yet to execute
    run,       \* the RunContext of the execution in progress
    chain,     \* the blockchain, per transaction
    bcm,       \* what the confirmation manager knows of each hash
    bq,        \* notifications queued to the confirmation manager
    replies,   \* completion events handed to the event handler (history)
    used       \* how much of the bounds has been used

storeVars == <<db, seq>>
memVars   == <<inflight, pend>>
apiVars   == <<req, queue>>
loopVars  == <<batch, pc, refresh, todo, run>>
envVars   == <<chain, bcm, bq>>
vars == <<db, seq, ins, inflight, pend, stale, update, req, queue, batch, pc,
          refresh, todo, run, chain, bcm, bq, replies, used>>

-----------------------------------------------------------------------------
(* The data of a transaction *)

Statuses == {"None", "Pending", "Succeeded", "Failed", "Suspended"}
Resolved == {"Succeeded", "Failed"}
Receipts == {"none", "ok", "fail"}
HashOrNone == Hashes \cup {NoHash}
Fields == {"status", "hash", "first", "del"}
NoTx == "NoTx"
NoReq == "NoReq"
NoAction == "None"

ASSUME RequestsAssumption == NoReq \notin Reqs

\* A row: first and del are FirstSubmit and DeleteRequested, listed says that
\* ListTransactionsPending can return the row.
Row == [status : Statuses, hash : HashOrNone, first : BOOLEAN, del : BOOLEAN,
        receipt : Receipts, listed : BOOLEAN]

NoRow == [status |-> "None", hash |-> NoHash, first |-> FALSE, del |-> FALSE,
          receipt |-> "none", listed |-> FALSE]

\* pendingState: a copy of the row, and what the callbacks and the loop add.
Pending == [status : Statuses, hash : HashOrNone, first : BOOLEAN, del : BOOLEAN,
            tracking : HashOrNone, receipt : Receipts, confirmed : BOOLEAN,
            receiptNotify : BOOLEAN, confirmNotify : BOOLEAN,
            ran : BOOLEAN, info : BOOLEAN, remove : BOOLEAN]

\* A pendingState made from a row: a stored receipt is not loaded back, the
\* hash is not tracked yet, and only updateInflightSet fills in info.
NewPending(row, info) ==
    [status |-> row.status, hash |-> row.hash, first |-> row.first,
     del |-> row.del, tracking |-> NoHash, receipt |-> "none",
     confirmed |-> FALSE, receiptNotify |-> FALSE, confirmNotify |-> FALSE,
     ran |-> FALSE, info |-> info, remove |-> FALSE]

NoPending == NewPending(NoRow, FALSE)

\* RunContext: the snapshot taken of a pendingState and the changes to flush.
RunContext == [tx : Txs \cup {NoTx}, act : Actions \cup {NoAction}, req : Reqs \cup {NoReq},
               receipt : Receipts, confirmed : BOOLEAN, processTx : BOOLEAN,
               updateType : {"None", "Update", "Delete"},
               fields : SUBSET Fields, completed : BOOLEAN]

NoRun == [tx |-> NoTx, act |-> NoAction, req |-> NoReq,
          receipt |-> "none", confirmed |-> FALSE, processTx |-> FALSE,
          updateType |-> "None", fields |-> {}, completed |-> FALSE]

\* A request: its response channel is made only after it has been queued.
Request == [act : Actions \cup {NoAction}, tx : Txs \cup {NoTx},
            state : {"unused", "queued", "waiting", "answered", "gone"}]

Chain == [pool : SUBSET Hashes, mined : HashOrNone, outcome : Receipts,
          final : BOOLEAN]

Tracked == {"off", "new", "ok", "fail"}

Fault(op) == op \in Faults

Live == pc # "panic"

-----------------------------------------------------------------------------
Init ==
    /\ db = [t \in Txs |-> NoRow]
    /\ seq = [t \in Txs |-> 0]
    /\ ins = [t \in Txs |-> "new"]
    /\ inflight = {}
    /\ pend = [t \in Txs |-> NoPending]
    /\ stale = TRUE /\ update = TRUE     \* Start marks the in-flight set stale
    /\ req = [r \in Reqs |-> [act |-> NoAction, tx |-> NoTx, state |-> "unused"]]
    /\ queue = <<>>
    /\ batch = <<>> /\ pc = "idle" /\ refresh = FALSE /\ todo = {}
    /\ run = NoRun
    /\ chain = [t \in Txs |-> [pool |-> {}, mined |-> NoHash,
                               outcome |-> "none", final |-> FALSE]]
    /\ bcm = [t \in Txs |-> [h \in Hashes |-> "off"]]
    /\ bq = <<>>
    /\ replies = [t \in Txs |-> <<>>]
    /\ used = [crashes |-> 0, reorgs |-> 0]

-----------------------------------------------------------------------------
(* createManagedTx, on an API goroutine *)

NextSeq == 1 + Cardinality({t \in Txs : seq[t] # 0})

\* The sequence number is taken inside the insert. LevelDB holds txMux from
\* there to the end of the write; the Postgres writer has Writers workers, each
\* with a database transaction of its own that is visible when it commits.
InsertBegin(t) ==
    /\ Live
    /\ ins[t] = "new"
    /\ Cardinality({u \in Txs : ins[u] = "inserting"}) < Writers
    /\ seq' = [seq EXCEPT ![t] = NextSeq]
    /\ ins' = [ins EXCEPT ![t] = "inserting"]
    /\ UNCHANGED <<db, memVars, stale, update, apiVars, loopVars, envVars, replies, used>>

InsertCommit(t) ==
    /\ Live
    /\ ins[t] = "inserting"
    /\ db' = [db EXCEPT ![t] = [NoRow EXCEPT !.status = "Pending", !.listed = TRUE]]
    /\ ins' = [ins EXCEPT ![t] = "inserted"]
    /\ UNCHANGED <<seq, memVars, stale, update, apiVars, loopVars, envVars, replies, used>>

InsertFail(t) ==
    /\ Live
    /\ ins[t] = "inserting"
    /\ Fault("write")
    /\ ins' = [ins EXCEPT ![t] = "failed"]
    /\ UNCHANGED <<storeVars, memVars, stale, update, apiVars, loopVars, envVars, replies, used>>

\* AddSubStatusAction follows the insert; when it fails the caller gets an
\* error and nothing marks the set stale.
InsertHistoryFail(t) ==
    /\ Live
    /\ ins[t] = "inserted"
    /\ Fault("history")
    /\ ins' = [ins EXCEPT ![t] = "failed"]
    /\ UNCHANGED <<storeVars, memVars, stale, update, apiVars, loopVars, envVars, replies, used>>

\* As if createManagedTx only woke the loop.
InsertNotMarked(t) ==
    /\ Live
    /\ ins[t] = "inserted"
    /\ ins' = [ins EXCEPT ![t] = "marked"]
    /\ UNCHANGED <<storeVars, memVars, stale, update, apiVars, loopVars, envVars, replies, used>>

\* markInflightStale is two sends: the marker, then the wake-up.
InsertMarkStale(t) ==
    /\ Live
    /\ ins[t] = "inserted"
    /\ stale' = TRUE
    /\ ins' = [ins EXCEPT ![t] = "marked"]
    /\ UNCHANGED <<storeVars, memVars, update, apiVars, loopVars, envVars, replies, used>>

InsertMarkUpdate(t) ==
    /\ Live
    /\ ins[t] = "marked"
    /\ update' = TRUE
    /\ ins' = [ins EXCEPT ![t] = "done"]
    /\ UNCHANGED <<storeVars, memVars, stale, apiVars, loopVars, envVars, replies, used>>

-----------------------------------------------------------------------------
(* policyEngineAPIRequest, on an API goroutine *)

\* Queue the request and wake the loop ...
RequestQueue(r, t, a) ==
    /\ Live
    /\ req[r].state = "unused"
    /\ req' = [req EXCEPT ![r] = [act |-> a, tx |-> t, state |-> "queued"]]
    /\ queue' = Append(queue, r)
    /\ update' = TRUE
    /\ UNCHANGED <<storeVars, ins, memVars, stale, loopVars, envVars, replies, used>>

\* ... and only then make the channel the loop answers on.
RequestWait(r) ==
    /\ Live
    /\ req[r].state = "queued"
    /\ req' = [req EXCEPT ![r].state = "waiting"]
    /\ UNCHANGED <<storeVars, ins, memVars, stale, update, queue, loopVars, envVars, replies, used>>

\* The caller's context ends first: the channel has room for the late answer.
RequestTimeout(r) ==
    /\ Live
    /\ req[r].state = "waiting"
    /\ req' = [req EXCEPT ![r].state = "gone"]
    /\ UNCHANGED <<storeVars, ins, memVars, stale, update, queue, loopVars, envVars, replies, used>>

-----------------------------------------------------------------------------
(* The policy loop goroutine *)

\* policyLoop wakes on inflightUpdate or on its ticker, pops the stale marker,
\* and the cycle takes the queued requests.
BeginCycle ==
    /\ pc = "idle"
    /\ update' = FALSE
    /\ refresh' = stale
    /\ stale' = FALSE
    /\ batch' = queue
    /\ queue' = <<>>
    /\ pc' = "requests"
    /\ UNCHANGED <<storeVars, ins, memVars, req, todo, run, envVars, replies, used>>

\* The record execPolicy works on: the in-flight one, else a temporary one
\* loaded from the store, which never joins the in-flight set.
Record(t) == IF t \in inflight THEN pend[t] ELSE NewPending(db[t], FALSE)

\* SetTransactionReceipt and AddTransactionConfirmations: LevelDB writes at once
\* and refuses a row that is gone; the Postgres writer only queues them, and a
\* batch that fails later loses them unnoticed.
RowMissing(t) == db[t].status = "None" /\ Store = "leveldb"
WriteRefused(t) == Store = "leveldb" /\ (Fault("write") \/ db[t].status = "None")
WriteLost == Store = "postgres" /\ Fault("write")

\* Where the loop goes after an execution that changed nothing more.
AfterExec(r) == IF r = NoReq THEN "cycle" ELSE "respond"

\* pendingToRunContext, which holds pending.mux throughout: the notifications
\* are written to the store and cleared, the rest works on the snapshot.
\* touched says that an ActionUpdate changed the transaction.
PendingToRunContext(t, a, r, touched) ==
    LET p == Record(t)
        del == a = "Delete" /\ ~p.del
        q == [p EXCEPT !.del = @ \/ del]
        ctx == [tx |-> t, act |-> a, req |-> r,
                receipt |-> p.receipt, confirmed |-> p.confirmed,
                processTx |-> del \/ touched,
                updateType |-> IF del \/ touched THEN "Update" ELSE "None",
                fields |-> IF del THEN {"del"} ELSE {}, completed |-> FALSE]
        stored == IF p.receiptNotify /\ db[t].status # "None"
                  THEN [db EXCEPT ![t].receipt = p.receipt] ELSE db
    IN \/ /\ p.receiptNotify \/ p.confirmNotify => ~RowMissing(t)
          /\ db' = stored \/ (WriteLost /\ db' = db)
          /\ pend' = [pend EXCEPT ![t] = [q EXCEPT !.receiptNotify = FALSE,
                                                   !.confirmNotify = FALSE]]
          /\ run' = ctx
          /\ pc' = "process"
       \/ /\ p.receiptNotify
          /\ WriteRefused(t)
          /\ pend' = [pend EXCEPT ![t] = q]
          /\ run' = ctx
          /\ pc' = AfterExec(r)
          /\ UNCHANGED db
       \/ /\ p.confirmNotify
          /\ WriteRefused(t)
          /\ p.receiptNotify => ~RowMissing(t)
          /\ db' = stored
          /\ pend' = [pend EXCEPT ![t] = [q EXCEPT !.receiptNotify = FALSE]]
          /\ run' = ctx
          /\ pc' = AfterExec(r)

\* processPolicyAPIRequests, one request. An ActionUpdate may name a field the
\* handler does not support, change nothing, or change the transaction.
ExecRequest(r) ==
    LET t == req[r].tx
        a == req[r].act
    IN /\ pc = "requests" /\ batch # <<>> /\ r = Head(batch)
       /\ \/ /\ \/ t \notin inflight /\ db[t].status = "None"
                \/ a = "Update"
             /\ run' = [NoRun EXCEPT !.tx = t, !.req = r, !.act = a]
             /\ pc' = "respond"
             /\ UNCHANGED <<db, pend>>
          \/ /\ t \in inflight \/ db[t].status # "None"
             /\ \E touched \in BOOLEAN :
                  /\ touched => a = "Update"
                  /\ PendingToRunContext(t, a, r, touched)
       /\ batch' = Tail(batch)
       /\ UNCHANGED <<seq, ins, inflight, stale, update, apiVars, refresh, todo, envVars, replies, used>>

\* The answer is sent on the channel the request has by now. Sending on the nil
\* channel of a request that has only been queued blocks for ever.
Respond(r) ==
    /\ pc = "respond" /\ r = run.req
    /\ pc' = IF req[r].state = "queued" THEN "hung" ELSE "requests"
    /\ req' = [req EXCEPT ![r].state = IF @ = "waiting" THEN "answered" ELSE @]
    /\ pend' = IF run.tx \in inflight THEN pend ELSE [pend EXCEPT ![run.tx] = NoPending]
    /\ run' = NoRun
    /\ UNCHANGED <<storeVars, ins, inflight, stale, update, queue, batch, refresh, todo, envVars, replies, used>>

\* As if finished records were not taken out.
KeptAll == inflight

\* What updateInflightSet keeps, and what ListTransactionsPending adds: the
\* first listed rows after the last transaction kept, as many as there is room for.
Kept == {t \in inflight : ~pend[t].remove}
Candidates == {t \in Txs : db[t].listed /\ \A u \in Kept : seq[u] < seq[t]}

\* As if the room left were one transaction short.
PolledOneShort == {t \in Candidates :
             Cardinality(Kept) + Cardinality({u \in Candidates : seq[u] < seq[t]})
                < MaxInFlight - 1}

Polled == {t \in Candidates :
             Cardinality(Kept) + Cardinality({u \in Candidates : seq[u] < seq[t]})
                < MaxInFlight}

UpdateInflightSet ==
    /\ pc = "requests" /\ batch = <<>>
    /\ refresh
    /\ inflight' = Kept \cup Polled
    /\ pend' = [t \in Txs |-> CASE t \in Kept -> pend[t]
                                [] t \in Polled -> NewPending(db[t], TRUE)
                                [] OTHER -> NoPending]
    /\ todo' = Kept \cup Polled
    /\ pc' = "cycle"
    /\ UNCHANGED <<storeVars, ins, stale, update, apiVars, batch, refresh, run, envVars, replies, used>>

SkipInflightSet ==
    /\ pc = "requests" /\ batch = <<>>
    /\ ~refresh
    /\ todo' = inflight
    /\ pc' = "cycle"
    /\ UNCHANGED <<storeVars, ins, memVars, stale, update, apiVars, batch, refresh, run, envVars, replies, used>>

\* The rest of policyLoopCycle: execPolicy for each in-flight transaction.
ExecInflight(t) ==
    /\ pc = "cycle"
    /\ t \in todo /\ \A u \in todo : seq[t] <= seq[u]
    /\ todo' = todo \ {t}
    /\ PendingToRunContext(t, NoAction, NoReq, FALSE)
    /\ UNCHANGED <<seq, ins, inflight, stale, update, apiVars, batch, refresh, envVars, replies, used>>

EndCycle ==
    /\ pc = "cycle" /\ todo = {}
    /\ pc' = "idle" /\ run' = NoRun /\ refresh' = FALSE
    /\ UNCHANGED <<storeVars, ins, memVars, stale, update, apiVars, batch, todo, envVars, replies, used>>

-----------------------------------------------------------------------------
(* execPolicy after the snapshot *)

\* The first case of the switch goes before any action but a deletion.
Confirmed == run.confirmed /\ run.act # "Delete"

\* As if suspension did not look at the status it replaces.
StatusAfterAnySuspend(p) ==
    CASE Confirmed -> IF run.receipt = "ok" THEN "Succeeded" ELSE "Failed"
      [] ~Confirmed /\ run.act = "Suspend" -> "Suspended"
      [] ~Confirmed /\ run.act = "Resume" /\ p.status = "Suspended" -> "Pending"
      [] OTHER -> p.status

\* As if any receipt meant success.
StatusAfterAnyReceipt(p) ==
    CASE Confirmed -> IF run.receipt # "none" THEN "Succeeded" ELSE "Failed"
      [] ~Confirmed /\ run.act = "Suspend" /\ p.status = "Pending" -> "Suspended"
      [] ~Confirmed /\ run.act = "Resume" /\ p.status = "Suspended" -> "Pending"
      [] OTHER -> p.status

\* The status the three cases that only change the status leave behind.
StatusAfter(p) ==
    CASE Confirmed -> IF run.receipt = "ok" THEN "Succeeded" ELSE "Failed"
      [] ~Confirmed /\ run.act = "Suspend" /\ p.status = "Pending" -> "Suspended"
      [] ~Confirmed /\ run.act = "Resume" /\ p.status = "Suspended" -> "Pending"
      [] OTHER -> p.status

ExecStatus ==
    LET t == run.tx
        to == StatusAfter(pend[t])
        changed == Confirmed \/ to # pend[t].status
    IN /\ pc = "process"
       /\ Confirmed \/ run.act \in {"Suspend", "Resume"}
       /\ pend' = [pend EXCEPT ![t].status = to]
       /\ run' = IF changed
                 THEN [run EXCEPT !.updateType = "Update", !.fields = @ \cup {"status"},
                                  !.completed = to # "Pending"]
                 ELSE run
       /\ pc' = "flush"
       /\ UNCHANGED <<storeVars, ins, inflight, stale, update, apiVars, batch, refresh, todo, envVars, replies, used>>

\* The default case of the switch.
Default == /\ pc = "process"
           /\ ~Confirmed
           /\ run.act \notin {"Suspend", "Resume"}

\* The policy interval has not passed since this transaction was last processed.
ExecNotDue ==
    /\ Default
    /\ ~run.processTx /\ pend[run.tx].ran
    /\ pc' = "flush"
    /\ UNCHANGED <<storeVars, ins, memVars, stale, update, apiVars, batch, refresh, todo, run, envVars, replies, used>>

\* submitTX: what the connector can answer, and the pool it leaves behind. The
\* gas price is read afresh, so a resend may or may not have the same hash.
\* known and low are ErrorKnownTransaction and ErrorReasonNonceTooLow.
Sends(c) ==
    LET sent(h) == [c EXCEPT !.pool = @ \cup {h}]
    IN {[out |-> "ok", hash |-> h, chain |-> sent(h)] :
            h \in {g \in Hashes : c.mined = NoHash}}
       \cup {[out |-> "known", hash |-> NoHash, chain |-> c] :
            h \in {g \in c.pool : c.mined = NoHash}}
       \cup {[out |-> "low", hash |-> NoHash, chain |-> c] :
            h \in {g \in {c.mined} : g # NoHash}}
       \cup {[out |-> "err", hash |-> NoHash, chain |-> c] :
            f \in Faults \cap {"send"}}
       \cup {[out |-> "err", hash |-> NoHash, chain |-> sent(h)] :
            h \in {g \in Hashes : c.mined = NoHash /\ Fault("timeout")}}

\* The HashRemoved and HashAdded events, when the hash is not the tracked one.
\* An event the confirmation manager refuses leaves the old hash tracked. Its
\* queue is bounded: the loop waits until it has room for the events.
Track(t, p) ==
    IF p.first /\ p.tracking # p.hash
    THEN LET removed == IF p.tracking = NoHash THEN <<>>
                        ELSE << [op |-> "remove", tx |-> t, hash |-> p.tracking] >>
             added == << [op |-> "add", tx |-> t, hash |-> p.hash] >>
         IN /\ Len(bq) + Len(removed) < QueueLength
            /\ \/ /\ bq' = bq \o removed \o added
                  /\ pend' = [pend EXCEPT ![t] = [p EXCEPT !.tracking = p.hash, !.ran = TRUE]]
               \/ /\ Fault("track")
                  /\ bq' = bq \o removed
                  /\ pend' = [pend EXCEPT ![t] = [p EXCEPT !.ran = TRUE]]
    ELSE /\ pend' = [pend EXCEPT ![t] = [p EXCEPT !.ran = TRUE]]
         /\ UNCHANGED bq

\* processTransaction for a transaction that is to be deleted, or has a
\* receipt, or was submitted too recently to be sent again.
ProcessNoSend ==
    LET t == run.tx
        p == pend[t]
    IN /\ Default
       /\ p.del \/ (p.first /\ (run.receipt # "none" \/ p.info))
       /\ Track(t, p)
       /\ run' = IF p.del THEN [run EXCEPT !.updateType = "Delete"] ELSE run
       /\ pc' = "flush"
       /\ UNCHANGED <<storeVars, ins, inflight, stale, update, apiVars, batch, refresh, todo, chain, bcm, replies, used>>

\* processTransaction sends: for the first time, or again because no receipt
\* came within the resubmit interval.
ProcessSend ==
    LET t == run.tx
        p == pend[t]
    IN /\ Default
       /\ ~p.del
       /\ ~p.first \/ (run.receipt = "none" /\ p.info)
       /\ \E s \in Sends(chain[t]) :
            LET have == s.out \in {"known", "low"} /\ p.hash # NoHash
                good == s.out = "ok" \/ have \/ (s.out = "known" /\ p.first)
                q == [p EXCEPT !.hash = IF s.out = "ok" THEN s.hash ELSE @,
                               !.first = @ \/ good]
                fields == (IF s.out = "ok" THEN {"hash"} ELSE {})
                          \cup (IF q.first # p.first THEN {"first"} ELSE {})
            IN /\ chain' = [chain EXCEPT ![t] = s.chain]
               /\ run' = [run EXCEPT
                    !.fields = @ \cup fields,
                    !.updateType = IF s.out = "ok" \/ p.first \/ ~good THEN "Update" ELSE @]
               /\ IF good THEN Track(t, q)
                  ELSE pend' = [pend EXCEPT ![t] = q] /\ UNCHANGED bq
       /\ pc' = "flush"
       /\ UNCHANGED <<storeVars, ins, inflight, stale, update, apiVars, batch, refresh, todo, bcm, replies, used>>

\* processTransaction reads ctx.Info, which a record that is not in flight has
\* not got: the goroutine panics, and with it the process.
ProcessPanic ==
    LET p == pend[run.tx]
    IN /\ Default
       /\ ~p.del /\ p.first /\ run.receipt = "none" /\ ~p.info
       /\ pc' = "panic"
       /\ UNCHANGED <<storeVars, ins, memVars, stale, update, apiVars, batch, refresh, todo, run, envVars, replies, used>>

-----------------------------------------------------------------------------
(* flushChanges *)

\* As if updateTransaction did not know the status field.
UpdatedNoStatus(t) ==
    [db[t] EXCEPT !.hash  = IF "hash" \in run.fields THEN pend[t].hash ELSE @,
                  !.first = IF "first" \in run.fields THEN pend[t].first ELSE @,
                  !.del   = IF "del" \in run.fields THEN pend[t].del ELSE @]

\* updateTransaction: the fields of TXUpdates are written from the in-memory
\* transaction, and with the status the pending index. LevelDB removes the key
\* when the row is not pending and writes it only for a new row; in Postgres
\* the index is the status column.
Updated(t) ==
    LET p == pend[t]
        row == db[t]
        status == IF "status" \in run.fields THEN p.status ELSE row.status
    IN [row EXCEPT
          !.status = status,
          !.hash   = IF "hash" \in run.fields THEN p.hash ELSE @,
          !.first  = IF "first" \in run.fields THEN p.first ELSE @,
          !.del    = IF "del" \in run.fields THEN p.del ELSE @,
          !.listed = IF Store = "postgres" THEN status = "Pending"
                     ELSE @ /\ status = "Pending"]

FlushNone ==
    /\ pc = "flush" /\ run.updateType = "None"
    /\ pc' = AfterExec(run.req)
    /\ UNCHANGED <<storeVars, ins, memVars, stale, update, apiVars, batch, refresh, todo, run, envVars, replies, used>>

\* As if a suspended transaction got a completion event too.
FlushUpdateEmits ==
    LET t == run.tx
        complete == run.act # "Resume" /\ run.completed
    IN /\ pc = "flush" /\ run.updateType = "Update"
       /\ db[t].status # "None"
       /\ db' = [db EXCEPT ![t] = Updated(t)]
       /\ pend' = [pend EXCEPT ![t].remove = @ \/ complete]
       /\ stale' = (stale \/ run.act = "Resume" \/ complete)
       /\ update' = (update \/ run.act = "Resume" \/ complete)
       /\ pc' = IF complete THEN "emit" ELSE AfterExec(run.req)
       /\ UNCHANGED <<seq, ins, inflight, apiVars, batch, refresh, todo, run, envVars, replies, used>>

FlushUpdate ==
    LET t == run.tx
        complete == run.act # "Resume" /\ run.completed
    IN /\ pc = "flush" /\ run.updateType = "Update"
       /\ db[t].status # "None"
       /\ db' = [db EXCEPT ![t] = Updated(t)]
       /\ pend' = [pend EXCEPT ![t].remove = @ \/ complete]
       /\ stale' = (stale \/ run.act = "Resume" \/ complete)
       /\ update' = (update \/ run.act = "Resume" \/ complete)
       /\ pc' = IF complete /\ pend[t].status \in Resolved THEN "emit" ELSE AfterExec(run.req)
       /\ UNCHANGED <<seq, ins, inflight, apiVars, batch, refresh, todo, run, envVars, replies, used>>

\* As if a deletion marked the set stale without waking the loop.
FlushDeleteAsleep ==
    LET t == run.tx
    IN /\ pc = "flush" /\ run.updateType = "Delete"
       /\ db[t].status # "None" \/ Store = "leveldb"
       /\ db' = [db EXCEPT ![t] = NoRow]
       /\ pend' = [pend EXCEPT ![t].remove = TRUE]
       /\ stale' = TRUE
       /\ pc' = "emit"
       /\ UNCHANGED <<seq, ins, inflight, update, apiVars, batch, refresh, todo, run, envVars, replies, used>>

FlushDelete ==
    LET t == run.tx
    IN /\ pc = "flush" /\ run.updateType = "Delete"
       /\ db[t].status # "None" \/ Store = "leveldb"
       /\ db' = [db EXCEPT ![t] = NoRow]
       /\ pend' = [pend EXCEPT ![t].remove = TRUE]
       /\ stale' = TRUE /\ update' = TRUE
       /\ pc' = "emit"
       /\ UNCHANGED <<seq, ins, inflight, apiVars, batch, refresh, todo, run, envVars, replies, used>>

\* A write fails, or the row is gone: the in-memory transaction keeps what the
\* store did not get. LevelDB removes the pending key before it writes the row.
FlushFail ==
    LET t == run.tx
    IN /\ pc = "flush"
       /\ \/ Fault("write")
          \/ /\ db[t].status = "None"
             /\ \/ run.updateType = "Update"
                \/ run.updateType = "Delete" /\ Store = "postgres"
       /\ \/ UNCHANGED db
          \/ /\ Store = "leveldb" /\ run.updateType = "Update"
             /\ Updated(t).status # "Pending"
             /\ db' = [db EXCEPT ![t].listed = FALSE]
       /\ pc' = AfterExec(run.req)
       /\ UNCHANGED <<seq, ins, memVars, stale, update, apiVars, batch, refresh, todo, run, envVars, replies, used>>

\* The completion event, from which the reply on the websocket is made.
Emit ==
    LET t == run.tx
    IN /\ pc = "emit"
       /\ replies' = [replies EXCEPT ![t] = Append(@,
                        IF run.updateType = "Delete" THEN "Deleted" ELSE pend[t].status)]
       /\ pc' = AfterExec(run.req)
       /\ UNCHANGED <<storeVars, ins, memVars, stale, update, apiVars, batch, refresh, todo, run, envVars, used>>

-----------------------------------------------------------------------------
(* The confirmation manager and its callbacks *)

\* processNotifications: an added hash starts afresh, whatever was known of it.
BcmNotification ==
    /\ Live /\ bq # <<>>
    /\ LET n == Head(bq)
       IN bcm' = [bcm EXCEPT ![n.tx][n.hash] = IF n.op = "add" THEN "new" ELSE "off"]
    /\ bq' = Tail(bq)
    /\ UNCHANGED <<storeVars, ins, memVars, stale, update, apiVars, loopVars, chain, replies, used>>

\* As if the first receipt were kept.
FirstReceiptWins(t, r) ==
    /\ pend' = IF t \in inflight /\ pend[t].receipt = "none"
               THEN [pend EXCEPT ![t].receipt = r, ![t].receiptNotify = TRUE]
               ELSE pend
    /\ update' = (update \/ t \in inflight)

\* HandleTransactionReceiptReceived: only a transaction that is in flight takes it.
HandleTransactionReceiptReceived(t, r) ==
    /\ pend' = IF t \in inflight
               THEN [pend EXCEPT ![t].receipt = r, ![t].receiptNotify = TRUE]
               ELSE pend
    /\ update' = (update \/ t \in inflight)

\* As if one flag stood for both notifications.
ConfirmClearsReceipt(t, confirmed) ==
    /\ pend' = IF t \in inflight
               THEN [pend EXCEPT ![t].confirmed = confirmed, ![t].confirmNotify = TRUE,
                                 ![t].receiptNotify = FALSE]
               ELSE pend
    /\ update' = (update \/ t \in inflight)

HandleTransactionConfirmations(t, confirmed) ==
    /\ pend' = IF t \in inflight
               THEN [pend EXCEPT ![t].confirmed = confirmed, ![t].confirmNotify = TRUE]
               ELSE pend
    /\ update' = (update \/ t \in inflight)

\* dispatchReceipt, for a tracked hash the chain has a (new) receipt for.
BcmReceipt(t, h) ==
    /\ Live
    /\ bcm[t][h] = "new" /\ chain[t].mined = h
    /\ bcm' = [bcm EXCEPT ![t][h] = chain[t].outcome]
    /\ HandleTransactionReceiptReceived(t, chain[t].outcome)
    /\ UNCHANGED <<storeVars, ins, inflight, stale, apiVars, loopVars, chain, bq, replies, used>>

\* dispatchConfirmations follows the receipt of the block it counts from. Full
\* mode drops what it counted when the chain leaves that block; light mode counts
\* heights, and does not look at the block before the last confirmation.
Counted(t, h) ==
    IF ChainTrackingMode = "full"
    THEN chain[t].mined = h /\ bcm[t][h] = chain[t].outcome
    ELSE bcm[t][h] \in {"ok", "fail"}

BcmConfirmations(t, h) ==
    /\ Live
    /\ Counted(t, h)
    /\ HandleTransactionConfirmations(t, FALSE)
    /\ UNCHANGED <<storeVars, ins, inflight, stale, apiVars, loopVars, envVars, replies, used>>

\* The last confirmation: the hash is no longer tracked, and the chain no longer
\* reorganises it. Light mode has looked the receipt up once more: one of another
\* block starts the count again, without the receipt callback.
BcmConfirm(t, h) ==
    /\ Live
    /\ Counted(t, h) /\ chain[t].mined = h
    /\ bcm' = [bcm EXCEPT ![t][h] = "off"]
    /\ chain' = [chain EXCEPT ![t].final = TRUE]
    /\ HandleTransactionConfirmations(t, TRUE)
    /\ UNCHANGED <<storeVars, ins, inflight, stale, apiVars, loopVars, bq, replies, used>>

\* Light mode finds no receipt any more: it is to be fetched again.
BcmReceiptGone(t, h) ==
    /\ Live
    /\ ChainTrackingMode = "light"
    /\ bcm[t][h] \in {"ok", "fail"} /\ chain[t].mined # h
    /\ bcm' = [bcm EXCEPT ![t][h] = "new"]
    /\ UNCHANGED <<storeVars, ins, memVars, stale, update, apiVars, loopVars, chain, bq, replies, used>>

-----------------------------------------------------------------------------
(* The blockchain, and restarts *)

Mine(t, h, o) ==
    /\ chain[t].mined = NoHash /\ h \in chain[t].pool
    /\ chain' = [chain EXCEPT ![t].mined = h, ![t].outcome = o]
    /\ UNCHANGED <<storeVars, ins, memVars, stale, update, apiVars, loopVars, bcm, bq, replies, used>>

\* A transaction that drops out is mined again in another block, for which the
\* confirmation manager fetches the receipt anew in full mode: it sees the
\* transaction in that block. Light mode does not see the blocks.
Reorg(t) ==
    /\ chain[t].mined # NoHash /\ ~chain[t].final
    /\ used.reorgs < MaxReorgs
    /\ chain' = [chain EXCEPT ![t].mined = NoHash, ![t].outcome = "none"]
    /\ bcm' = IF ChainTrackingMode = "full"
              THEN [bcm EXCEPT ![t] = [h \in Hashes |-> IF @[h] = "off" THEN "off" ELSE "new"]]
              ELSE bcm
    /\ used' = [used EXCEPT !.reorgs = @ + 1]
    /\ UNCHANGED <<storeVars, ins, memVars, stale, update, apiVars, loopVars, bq, replies>>

\* The process stops anywhere and Start runs again: only the store is left. An
\* insert that had not committed is lost with its caller.
Restart ==
    /\ pc = "panic" \/ used.crashes < MaxCrashes
    /\ used' = IF pc = "panic" THEN used ELSE [used EXCEPT !.crashes = @ + 1]
    /\ ins' = [t \in Txs |-> IF ins[t] = "new" THEN "new" ELSE "done"]
    /\ inflight' = {} /\ pend' = [t \in Txs |-> NoPending]
    /\ stale' = TRUE /\ update' = TRUE
    /\ req' = [r \in Reqs |-> IF req[r].state = "unused" THEN req[r]
                              ELSE [req[r] EXCEPT !.state = "gone"]]
    /\ queue' = <<>> /\ batch' = <<>> /\ pc' = "idle" /\ refresh' = FALSE
    /\ todo' = {} /\ run' = NoRun
    /\ bcm' = [t \in Txs |-> [h \in Hashes |-> "off"]] /\ bq' = <<>>
    /\ UNCHANGED <<storeVars, chain, replies>>

-----------------------------------------------------------------------------
Insert(t) == \/ InsertBegin(t) \/ InsertCommit(t) \/ InsertFail(t)
             \/ InsertHistoryFail(t) \/ InsertMarkStale(t) \/ InsertMarkUpdate(t)

ApiRequest(r) == \/ \E t \in Txs, a \in Actions : RequestQueue(r, t, a)
                 \/ RequestWait(r)
                 \/ RequestTimeout(r)

Flush == FlushNone \/ FlushUpdate \/ FlushDelete \/ FlushFail \/ Emit

Process == ExecStatus \/ ExecNotDue \/ ProcessNoSend \/ ProcessSend \/ ProcessPanic

Loop == \/ BeginCycle
        \/ \E r \in Reqs : ExecRequest(r) \/ Respond(r)
        \/ UpdateInflightSet \/ SkipInflightSet
        \/ \E t \in Txs : ExecInflight(t)
        \/ EndCycle
        \/ Process \/ Flush

Bcm == \/ BcmNotification
       \/ \E t \in Txs, h \in Hashes :
            \/ BcmReceipt(t, h) \/ BcmConfirmations(t, h)
            \/ BcmConfirm(t, h) \/ BcmReceiptGone(t, h)

Blockchain == \E t \in Txs : \/ \E h \in Hashes, o \in Outcomes : Mine(t, h, o)
                             \/ Reorg(t)

Next == \/ \E t \in Txs : Insert(t)
        \/ \E r \in Reqs : ApiRequest(r)
        \/ Loop \/ Bcm \/ Blockchain \/ Restart

Spec == Init /\ [][Next]_vars

\* Every goroutine keeps running, the ticker keeps waking the loop, and a
\* transaction that stays in the pool is mined.
Fairness ==
    /\ WF_vars(Loop)
    /\ \A t \in Txs : WF_vars(InsertCommit(t)) /\ WF_vars(InsertMarkStale(t))
                       /\ WF_vars(InsertMarkUpdate(t))
    /\ WF_vars(BcmNotification)
    /\ \A t \in Txs, h \in Hashes : /\ WF_vars(BcmReceipt(t, h)) /\ WF_vars(BcmConfirm(t, h))
                                     /\ WF_vars(BcmReceiptGone(t, h))
    /\ \A t \in Txs : WF_vars(\E h \in Hashes, o \in Outcomes : Mine(t, h, o))

FairSpec == Spec /\ Fairness

-----------------------------------------------------------------------------
(* Properties *)

\* Every variable has its type.
TypeOK ==
    /\ db \in [Txs -> Row]
    /\ seq \in [Txs -> Nat]
    /\ ins \in [Txs -> {"new", "inserting", "inserted", "marked", "done", "failed"}]
    /\ inflight \subseteq Txs
    /\ pend \in [Txs -> Pending]
    /\ stale \in BOOLEAN /\ update \in BOOLEAN
    /\ req \in [Reqs -> Request]
    /\ queue \in Seq(Reqs) /\ batch \in Seq(Reqs)
    /\ pc \in {"idle", "requests", "cycle", "process", "flush", "emit",
              "respond", "hung", "panic"}
    /\ refresh \in BOOLEAN
    /\ todo \subseteq Txs
    /\ run \in RunContext
    /\ chain \in [Txs -> Chain]
    /\ bcm \in [Txs -> [Hashes -> Tracked]]
    /\ bq \in Seq([op : {"add", "remove"}, tx : Txs, hash : HashOrNone])
    /\ replies \in [Txs -> Seq({"Succeeded", "Failed", "Deleted"})]
    /\ used \in [crashes : Nat, reorgs : Nat]

\* A transaction is never reported as a success by mistake: Succeeded is stored
\* only for a transaction that is finally mined, whatever is requested, fails,
\* restarts or is reorganised on the way. In full mode the chain has accepted it
\* there, and LevelDB keeps the receipt that says so.
SuccessIsFinal ==
    \A t \in Txs : db[t].status = "Succeeded" =>
        /\ chain[t].final
        /\ ChainTrackingMode = "full" =>
              chain[t].outcome = "ok" /\ (Store = "leveldb" => db[t].receipt = "ok")

\* A transaction is stored as Succeeded or Failed only when that is what the
\* chain finally made of it: execPolicy decides by the receipt in memory,
\* which callbacks, reorganisations, failed writes and restarts all touch.
OutcomeMatchesChain ==
    \A t \in Txs : db[t].status \in Resolved =>
        /\ chain[t].final
        /\ db[t].status = IF chain[t].outcome = "ok" THEN "Succeeded" ELSE "Failed"

\* The receipt LevelDB stores with a resolved transaction is the one it was
\* resolved by, also when writing it failed before or one was overtaken.
ReceiptStored ==
    \A t \in Txs : db[t].status \in Resolved => db[t].receipt = chain[t].outcome

\* A reply never tells a client of an outcome that a restart could forget: what
\* was reported is what is stored, until the transaction is deleted.
RepliesReportStore ==
    \A t \in Txs : replies[t] # <<>> =>
        LET last == replies[t][Len(replies[t])]
        IN db[t].status = "None" \/ db[t].status = last

\* No request has asked for more than the deletion of t.
AskedToDeleteOnly(t) == \A r \in Reqs : req[r].tx = t => req[r].act = "Delete"

\* flushChanges dispatches one completion event for the outcome of a transaction,
\* over restarts, failing writes and deletions, and over the cycle in which the
\* finished record is still in flight: there a suspension, a resumption or an
\* update would resolve it once more, and its client would hear of it twice.
OneReply ==
    \A t \in Txs : AskedToDeleteOnly(t) =>
        Cardinality({i \in DOMAIN replies[t] : replies[t][i] \in Resolved}) <= 1

\* When the loop rests with room in the in-flight set and no stale marker, no
\* pending transaction has been left out of it.
NoneLeftBehind ==
    (/\ pc = "idle" /\ ~stale /\ Cardinality(inflight) < MaxInFlight
     /\ \A t \in Txs : ins[t] # "inserted")
    => \A t \in Txs : db[t].status = "Pending" => t \in inflight

\* A stale marker never waits for the ticker: a wake-up is queued, or the
\* goroutine that set the marker is about to queue it.
StaleWakesLoop == stale => update \/ \E t \in Txs : ins[t] = "marked"

\* The detailed loop implements the abstract life of a transaction: no path
\* leads out of Succeeded or Failed but deletion, and replies follow the store.
\* A row that is gone is told from one that was never written by its insert.
Abstract == INSTANCE TxLifecycle WITH
    status <- [t \in Txs |->
                 IF db[t].status # "None" THEN db[t].status
                 ELSE IF ins[t] \in {"new", "inserting"} THEN "New" ELSE "Gone"],
    reported <- replies

Lifecycle == Abstract!Spec

\* The policy loop never blocks for good on the answer to an API request.
LoopNeverHangs == pc # "hung"

\* Every transaction accepted is resolved: slots are freed and refilled, hashes
\* tracked, receipts and confirmations picked up.
Resolves == \A t \in Txs : (ins[t] = "inserted") ~> (db[t].status \in Resolved)

=============================================================================
