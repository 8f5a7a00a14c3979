-------------------------- MODULE PolicyLoopProofs --------------------------
(***************************************************************************)
(* Theorems about PolicyLoop, for every set of transactions, requests and  *)
(* hashes, every store, every set of failing operations and every bound.   *)
(***************************************************************************)
EXTENDS PolicyLoop, FiniteSetTheorems, SequenceTheorems, TLAPS

(***************************************************************************)
(* Type correctness                                                        *)
(***************************************************************************)

\* The execution in progress is of a transaction, for a request when the loop
\* is about to answer one; requests that were queued name a transaction.
RunOK ==
    /\ pc \in {"process", "flush", "emit", "respond"} => run.tx \in Txs
    /\ pc = "respond" => run.req \in Reqs
    /\ pc = "emit" => run.updateType = "Delete" \/ pend[run.tx].status \in Resolved
    /\ \A r \in Reqs : req[r].state # "unused" => req[r].tx \in Txs
    /\ \A i \in 1..Len(queue) : req[queue[i]].state # "unused"
    /\ \A i \in 1..Len(batch) : req[batch[i]].state # "unused"

TypeInv == TypeOK /\ RunOK

\* A mined transaction has an outcome, and only a mined one is final.
ChainOK ==
    \A t \in Txs : /\ chain[t].mined # NoHash => chain[t].outcome \in {"ok", "fail"}
                   /\ chain[t].final => chain[t].mined # NoHash

\* A record made from a row is a pendingState.
LEMMA NewPendingType ==
    ASSUME NEW row \in Row, NEW info \in BOOLEAN
    PROVE  NewPending(row, info) \in Pending
BY DEF NewPending, Pending, Row, Receipts, HashOrNone, Statuses

\* The empty values have their types.
LEMMA EmptyTypes == NoRow \in Row /\ NoPending \in Pending /\ NoRun \in RunContext
<1>1. NoRow \in Row
  BY DEF NoRow, Row, Statuses, HashOrNone, Receipts
<1>2. NoPending \in Pending
  BY <1>1, NewPendingType DEF NoPending
<1>3. NoRun \in RunContext
  BY DEF NoRun, RunContext, Receipts, Fields
<1> QED BY <1>1, <1>2, <1>3

\* The initial state is well typed.
LEMMA InitType == Init => TypeInv
<1> SUFFICES ASSUME Init PROVE TypeInv OBVIOUS
<1>1. TypeOK
  <2>1. req \in [Reqs -> Request] BY DEF Init, Request
  <2>2. chain \in [Txs -> Chain] BY DEF Init, Chain, HashOrNone, Receipts
  <2>3. bcm \in [Txs -> [Hashes -> Tracked]] BY DEF Init, Tracked
  <2>4. db \in [Txs -> Row] /\ pend \in [Txs -> Pending] /\ run \in RunContext
    BY EmptyTypes DEF Init
  <2>5. /\ queue \in Seq(Reqs) /\ batch \in Seq(Reqs)
        /\ bq \in Seq([op : {"add", "remove"}, tx : Txs, hash : HashOrNone])
        /\ replies \in [Txs -> Seq({"Succeeded", "Failed", "Deleted"})]
    BY DEF Init
  <2>6. /\ ins \in [Txs -> {"new", "inserting", "inserted", "marked", "done", "failed"}]
        /\ seq \in [Txs -> Nat] /\ used \in [crashes : Nat, reorgs : Nat]
    BY DEF Init
  <2>7. stale \in BOOLEAN /\ update \in BOOLEAN /\ refresh \in BOOLEAN
    BY DEF Init
  <2> QED BY <2>1, <2>2, <2>3, <2>4, <2>5, <2>6, <2>7 DEF Init, TypeOK
<1>2. RunOK
  BY DEF Init, RunOK
<1> QED BY <1>1, <1>2 DEF TypeInv

(* One lemma per action: it preserves the types. *)

LEMMA TypeInsertBegin ==
    ASSUME TypeInv, NEW t \in Txs, InsertBegin(t)
    PROVE  TypeInv'
<1>1. NextSeq \in Nat
  <2>1. IsFiniteSet({u \in Txs : seq[u] # 0})
    BY TxsAssumption, FS_Subset
  <2> QED BY <2>1, FS_CardinalityType DEF NextSeq
<1> QED BY <1>1 DEF TypeInv, TypeOK, RunOK, InsertBegin, storeVars, memVars, apiVars, loopVars, envVars

LEMMA TypeInsertCommit ==
    ASSUME TypeInv, NEW t \in Txs, InsertCommit(t)
    PROVE  TypeInv'
BY DEF TypeInv, TypeOK, RunOK, InsertCommit, NoRow, Row, Statuses, HashOrNone, Receipts, storeVars, memVars, apiVars, loopVars, envVars

LEMMA TypeInsertFail ==
    ASSUME TypeInv, NEW t \in Txs, InsertFail(t)
    PROVE  TypeInv'
BY DEF TypeInv, TypeOK, RunOK, InsertFail, storeVars, memVars, apiVars, loopVars, envVars

LEMMA TypeInsertHistoryFail ==
    ASSUME TypeInv, NEW t \in Txs, InsertHistoryFail(t)
    PROVE  TypeInv'
BY DEF TypeInv, TypeOK, RunOK, InsertHistoryFail, storeVars, memVars, apiVars, loopVars, envVars

LEMMA TypeInsertMarkStale ==
    ASSUME TypeInv, NEW t \in Txs, InsertMarkStale(t)
    PROVE  TypeInv'
BY DEF TypeInv, TypeOK, RunOK, InsertMarkStale, storeVars, memVars, apiVars, loopVars, envVars

LEMMA TypeInsertMarkUpdate ==
    ASSUME TypeInv, NEW t \in Txs, InsertMarkUpdate(t)
    PROVE  TypeInv'
BY DEF TypeInv, TypeOK, RunOK, InsertMarkUpdate, storeVars, memVars, apiVars, loopVars, envVars

LEMMA TypeRequestWait ==
    ASSUME TypeInv, NEW r \in Reqs, RequestWait(r)
    PROVE  TypeInv'
<1>1. /\ req \in [Reqs -> Request]
      /\ req' = [req EXCEPT ![r].state = "waiting"]
  BY DEF TypeInv, TypeOK, RequestWait
<1>2. req' \in [Reqs -> Request]
  BY <1>1 DEF Request
<1>3. TypeOK'
  BY <1>2 DEF TypeInv, TypeOK, RequestWait, storeVars, memVars, apiVars, loopVars, envVars
<1>4. \A q \in Reqs : /\ req'[q].tx = req[q].tx
                      /\ req[q].state # "unused" => req'[q].state # "unused"
  BY <1>1 DEF Request
<1>5. RunOK'
  BY <1>4 DEF TypeInv, TypeOK, RunOK, RequestWait, storeVars, memVars, apiVars, loopVars, envVars
<1> QED BY <1>3, <1>5 DEF TypeInv

LEMMA TypeRequestTimeout ==
    ASSUME TypeInv, NEW r \in Reqs, RequestTimeout(r)
    PROVE  TypeInv'
<1>1. /\ req \in [Reqs -> Request]
      /\ req' = [req EXCEPT ![r].state = "gone"]
  BY DEF TypeInv, TypeOK, RequestTimeout
<1>2. req' \in [Reqs -> Request]
  BY <1>1 DEF Request
<1>3. TypeOK'
  BY <1>2 DEF TypeInv, TypeOK, RequestTimeout, storeVars, memVars, apiVars, loopVars, envVars
<1>4. \A q \in Reqs : /\ req'[q].tx = req[q].tx
                      /\ req[q].state # "unused" => req'[q].state # "unused"
  BY <1>1 DEF Request
<1>5. RunOK'
  BY <1>4 DEF TypeInv, TypeOK, RunOK, RequestTimeout, storeVars, memVars, apiVars, loopVars, envVars
<1> QED BY <1>3, <1>5 DEF TypeInv

LEMMA TypeMine ==
    ASSUME TypeInv, NEW t \in Txs, NEW h \in Hashes, NEW o \in Outcomes, Mine(t, h, o)
    PROVE  TypeInv'
<1>1. /\ chain \in [Txs -> Chain]
      /\ chain' = [chain EXCEPT ![t].mined = h, ![t].outcome = o]
  BY DEF TypeInv, TypeOK, Mine
<1>2. chain' \in [Txs -> Chain]
  BY <1>1, OutcomesAssumption, ZenonT(60) DEF Chain, HashOrNone, Receipts
<1> QED BY <1>2 DEF TypeInv, TypeOK, RunOK, Mine, storeVars, memVars, apiVars, loopVars, envVars

LEMMA TypeBeginCycle ==
    ASSUME TypeInv, BeginCycle
    PROVE  TypeInv'
<1>1. TypeOK'
  <2>1. <<>> \in Seq(Reqs) OBVIOUS
  <2> QED BY <2>1 DEF TypeInv, TypeOK, BeginCycle, storeVars, memVars, apiVars, loopVars, envVars
<1>2. RunOK'
  BY DEF TypeInv, TypeOK, RunOK, BeginCycle, storeVars, memVars, apiVars, loopVars, envVars
<1> QED BY <1>1, <1>2 DEF TypeInv

LEMMA TypeSkipInflightSet ==
    ASSUME TypeInv, SkipInflightSet
    PROVE  TypeInv'
BY DEF TypeInv, TypeOK, RunOK, SkipInflightSet, storeVars, memVars, apiVars, loopVars, envVars

LEMMA TypeEndCycle ==
    ASSUME TypeInv, EndCycle
    PROVE  TypeInv'
BY EmptyTypes DEF TypeInv, TypeOK, RunOK, EndCycle, storeVars, memVars, apiVars, loopVars, envVars

LEMMA TypeExecNotDue ==
    ASSUME TypeInv, ExecNotDue
    PROVE  TypeInv'
BY DEF TypeInv, TypeOK, RunOK, ExecNotDue, Default, storeVars, memVars, apiVars, loopVars, envVars

LEMMA TypeProcessPanic ==
    ASSUME TypeInv, ProcessPanic
    PROVE  TypeInv'
BY DEF TypeInv, TypeOK, RunOK, ProcessPanic, Default, storeVars, memVars, apiVars, loopVars, envVars

LEMMA TypeFlushNone ==
    ASSUME TypeInv, FlushNone
    PROVE  TypeInv'
<1>1. AfterExec(run.req) \in {"cycle", "respond"} /\ (AfterExec(run.req) = "respond" => run.req \in Reqs)
  BY DEF TypeInv, TypeOK, RunContext, AfterExec
<1> QED BY <1>1 DEF TypeInv, TypeOK, RunOK, FlushNone, storeVars, memVars, apiVars, loopVars, envVars

LEMMA TypeRequestQueue ==
    ASSUME TypeInv, NEW r \in Reqs, NEW t \in Txs, NEW a \in Actions, RequestQueue(r, t, a)
    PROVE  TypeInv'
<1>1. /\ req \in [Reqs -> Request] /\ queue \in Seq(Reqs) /\ batch \in Seq(Reqs)
      /\ req' = [req EXCEPT ![r] = [act |-> a, tx |-> t, state |-> "queued"]]
      /\ queue' = Append(queue, r) /\ batch' = batch
  BY DEF TypeInv, TypeOK, RequestQueue, loopVars
<1>2. req' \in [Reqs -> Request] /\ queue' \in Seq(Reqs)
  BY <1>1 DEF Request
<1>3. TypeOK'
  BY <1>2 DEF TypeInv, TypeOK, RequestQueue, storeVars, memVars, apiVars, loopVars, envVars
<1>4. \A q \in Reqs : /\ req[q].state # "unused" \/ q = r => req'[q].state # "unused"
                      /\ req'[q].state # "unused" => req'[q].tx \in Txs
  BY <1>1 DEF TypeInv, RunOK
<1>5. /\ \A i \in 1..Len(queue') : req'[queue'[i]].state # "unused"
      /\ \A i \in 1..Len(batch') : req'[batch'[i]].state # "unused"
  BY <1>1, <1>4 DEF TypeInv, RunOK
<1>6. RunOK'
  BY <1>4, <1>5 DEF TypeInv, RunOK, RequestQueue, storeVars, memVars, apiVars, loopVars, envVars
<1> QED BY <1>3, <1>6 DEF TypeInv

\* AfterExec leads back to the cycle, or to the answer of a request.
LEMMA AfterExecType ==
    ASSUME NEW r \in Reqs \cup {NoReq}
    PROVE  /\ AfterExec(r) \in {"cycle", "respond"}
           /\ AfterExec(r) = "respond" => r \in Reqs
BY DEF AfterExec

\* Clearing notifications leaves a pendingState.
LEMMA ClearNotifyType ==
    ASSUME NEW x \in Pending
    PROVE  /\ [x EXCEPT !.receiptNotify = FALSE, !.confirmNotify = FALSE] \in Pending
           /\ [x EXCEPT !.receiptNotify = FALSE] \in Pending
BY DEF Pending

\* The snapshot leaves a typed record, context and row, and keeps what the
\* callbacks do not touch.
LEMMA SnapshotType ==
    ASSUME TypeInv, NEW t \in Txs, NEW a \in Actions \cup {NoAction},
           NEW r \in Reqs \cup {NoReq}, NEW touched \in BOOLEAN,
           PendingToRunContext(t, a, r, touched)
    PROVE  /\ db' \in [Txs -> Row] /\ pend' \in [Txs -> Pending]
           /\ run' \in RunContext /\ run'.tx = t /\ run'.req = r
           /\ pc' \in {"process", "cycle", "respond"}
           /\ pc' = "respond" => r \in Reqs
<1> DEFINE p == Record(t)
           del == a = "Delete" /\ ~p.del
           q == [p EXCEPT !.del = @ \/ del]
           ctx == [tx |-> t, act |-> a, req |-> r,
                   receipt |-> p.receipt, confirmed |-> p.confirmed,
                   processTx |-> del \/ touched,
                   updateType |-> IF del \/ touched THEN "Update" ELSE "None",
                   fields |-> IF del THEN {"del"} ELSE {}, completed |-> FALSE]
           stored == IF p.receiptNotify /\ db[t].status # "None"
                     THEN [db EXCEPT ![t].receipt = p.receipt] ELSE db
<1>1. db \in [Txs -> Row] /\ pend \in [Txs -> Pending]
  BY DEF TypeInv, TypeOK
<1>2. p \in Pending
  BY <1>1, NewPendingType DEF Record
<1>3. q \in Pending /\ p.receipt \in Receipts /\ p.confirmed \in BOOLEAN
  BY <1>2 DEF Pending
<1>4. ctx \in RunContext
  BY <1>3 DEF RunContext, Fields
<1>5. stored \in [Txs -> Row]
  BY <1>1, <1>3 DEF Row
<1>6. /\ [q EXCEPT !.receiptNotify = FALSE, !.confirmNotify = FALSE] \in Pending
      /\ [q EXCEPT !.receiptNotify = FALSE] \in Pending
  BY <1>3, ClearNotifyType
<1>7. /\ db' = stored \/ db' = db
      /\ run' = ctx
      /\ pc' = "process" \/ pc' = AfterExec(r)
  BY Zenon DEF PendingToRunContext
<1>8. pend' \in [Txs -> Pending]
  BY <1>1, <1>3, <1>6 DEF PendingToRunContext
<1> QED BY <1>1, <1>4, <1>5, <1>7, <1>8, AfterExecType

LEMMA TypeExecRequest ==
    ASSUME TypeInv, NEW r \in Reqs, ExecRequest(r)
    PROVE  TypeInv'
<1>1. /\ req \in [Reqs -> Request] /\ batch \in Seq(Reqs) /\ batch # <<>>
      /\ r = Head(batch) /\ batch' = Tail(batch)
  BY DEF TypeInv, TypeOK, ExecRequest
<1>2. req[r].tx \in Txs /\ req[r].act \in Actions \cup {NoAction}
  <2>1. batch[1] = r /\ 1 \in 1..Len(batch)
    BY <1>1
  <2>2. req[batch[1]].state # "unused"
    BY <2>1 DEF TypeInv, RunOK
  <2> QED BY <1>1, <2>1, <2>2 DEF TypeInv, RunOK, Request
<1>3. /\ batch' \in Seq(Reqs)
      /\ \A i \in 1..Len(batch') : req[batch'[i]].state # "unused"
  <2>1. batch' \in Seq(Reqs) /\ Len(batch') = Len(batch) - 1
    BY <1>1
  <2>2. \A i \in 1..Len(batch') : batch'[i] = batch[i + 1] /\ i + 1 \in 1..Len(batch)
    BY <1>1, <2>1
  <2> QED BY <2>1, <2>2 DEF TypeInv, RunOK
<1>4. /\ db' \in [Txs -> Row] /\ pend' \in [Txs -> Pending]
      /\ run' \in RunContext /\ run'.tx \in Txs
      /\ pc' \in {"process", "cycle", "respond"}
      /\ pc' = "respond" => run'.req \in Reqs
  <2>1. CASE \E touched \in BOOLEAN :
               PendingToRunContext(req[r].tx, req[r].act, r, touched)
    BY <1>2, <2>1, SnapshotType
  <2>2. CASE /\ run' = [NoRun EXCEPT !.tx = req[r].tx, !.req = r, !.act = req[r].act]
             /\ pc' = "respond" /\ UNCHANGED <<db, pend>>
    <3>1. db \in [Txs -> Row] /\ pend \in [Txs -> Pending]
      BY DEF TypeInv, TypeOK
    <3>2. run' \in RunContext /\ run'.tx \in Txs /\ run'.req = r
      BY <2>2, <1>2, EmptyTypes DEF RunContext, NoRun
    <3> QED BY <2>2, <3>1, <3>2
  <2> QED BY <2>1, <2>2 DEF ExecRequest
<1>5. TypeOK'
  BY <1>3, <1>4 DEF TypeInv, TypeOK, ExecRequest, storeVars, memVars, apiVars, loopVars, envVars
<1>6. RunOK'
  BY <1>3, <1>4 DEF TypeInv, RunOK, ExecRequest, storeVars, memVars, apiVars, loopVars, envVars
<1> QED BY <1>5, <1>6 DEF TypeInv

LEMMA TypeExecInflight ==
    ASSUME TypeInv, NEW t \in Txs, ExecInflight(t)
    PROVE  TypeInv'
<1>1. /\ db' \in [Txs -> Row] /\ pend' \in [Txs -> Pending]
      /\ run' \in RunContext /\ run'.tx = t /\ run'.req = NoReq
      /\ pc' \in {"process", "cycle", "respond"}
      /\ pc' = "respond" => NoReq \in Reqs
  BY SnapshotType DEF ExecInflight
<1>2. TypeOK'
  BY <1>1 DEF TypeInv, TypeOK, ExecInflight, storeVars, memVars, apiVars, loopVars, envVars
<1>3. RunOK'
  BY <1>1 DEF TypeInv, RunOK, ExecInflight, storeVars, memVars, apiVars, loopVars, envVars
<1> QED BY <1>2, <1>3 DEF TypeInv

LEMMA TypeRespond ==
    ASSUME TypeInv, NEW r \in Reqs, Respond(r)
    PROVE  TypeInv'
<1>1. /\ req \in [Reqs -> Request] /\ pend \in [Txs -> Pending]
      /\ req' = [req EXCEPT ![r].state = IF @ = "waiting" THEN "answered" ELSE @]
      /\ pend' = IF run.tx \in inflight THEN pend ELSE [pend EXCEPT ![run.tx] = NoPending]
  BY DEF TypeInv, TypeOK, Respond
<1>2. req' \in [Reqs -> Request] /\ pend' \in [Txs -> Pending]
  BY <1>1, EmptyTypes DEF Request
<1>3. TypeOK'
  BY <1>2, EmptyTypes DEF TypeInv, TypeOK, Respond, storeVars, memVars, apiVars, loopVars, envVars
<1>4. \A q \in Reqs : /\ req'[q].tx = req[q].tx
                      /\ req[q].state # "unused" <=> req'[q].state # "unused"
  BY <1>1 DEF Request
<1>5. pc' \in {"hung", "requests"}
  BY DEF Respond
<1>6. RunOK'
  BY <1>4, <1>5 DEF TypeInv, TypeOK, RunOK, Respond, storeVars, memVars, apiVars, loopVars, envVars
<1> QED BY <1>3, <1>6 DEF TypeInv

LEMMA TypeUpdateInflightSet ==
    ASSUME TypeInv, UpdateInflightSet
    PROVE  TypeInv'
<1>1. db \in [Txs -> Row] /\ pend \in [Txs -> Pending] /\ inflight \subseteq Txs
  BY DEF TypeInv, TypeOK
<1>2. \A t \in Txs : NewPending(db[t], TRUE) \in Pending
  BY <1>1, NewPendingType
<1>3. pend' \in [Txs -> Pending]
  BY <1>1, <1>2, EmptyTypes DEF UpdateInflightSet
<1>4. Kept \cup Polled \subseteq Txs
  BY <1>1 DEF Kept, Polled, Candidates
<1> QED BY <1>3, <1>4 DEF TypeInv, TypeOK, RunOK, UpdateInflightSet, storeVars, memVars, apiVars, loopVars, envVars

\* Recording changes to flush leaves a RunContext of the same transaction.
LEMMA ChangesType ==
    ASSUME NEW c \in RunContext, NEW fs \in SUBSET Fields,
           NEW u \in {"None", "Update", "Delete"}
    PROVE  LET d == [c EXCEPT !.fields = @ \cup fs, !.updateType = u]
           IN d \in RunContext /\ d.tx = c.tx
<1> DEFINE g == c.fields \cup fs
<1>1. g \in SUBSET Fields
  BY DEF RunContext
<1> HIDE DEF g
<1>2. LET d == [c EXCEPT !.fields = g, !.updateType = u]
      IN d \in RunContext /\ d.tx = c.tx
  BY <1>1 DEF RunContext
<1> QED BY <1>2 DEF g

LEMMA CompletedType ==
    ASSUME NEW c \in RunContext, NEW fs \in SUBSET Fields, NEW b \in BOOLEAN,
           NEW u \in {"None", "Update", "Delete"}
    PROVE  LET d == [c EXCEPT !.updateType = u, !.fields = @ \cup fs, !.completed = b]
           IN d \in RunContext /\ d.tx = c.tx
<1> DEFINE g == c.fields \cup fs
<1>1. g \in SUBSET Fields
  BY DEF RunContext
<1> HIDE DEF g
<1>2. LET d == [c EXCEPT !.updateType = u, !.fields = g, !.completed = b]
      IN d \in RunContext /\ d.tx = c.tx
  BY <1>1 DEF RunContext
<1> QED BY <1>2 DEF g

LEMMA TypeExecStatus ==
    ASSUME TypeInv, ExecStatus
    PROVE  TypeInv'
<1> DEFINE t == run.tx
           to == StatusAfter(pend[t])
<1>1. t \in Txs /\ pend \in [Txs -> Pending] /\ run \in RunContext
  BY DEF TypeInv, TypeOK, RunOK, ExecStatus
<1>2. to \in Statuses
  BY <1>1 DEF StatusAfter, Statuses, Pending
<1>3. pend' = [pend EXCEPT ![t].status = to]
  BY Zenon DEF ExecStatus
<1>4. \/ run' = run
      \/ run' = [run EXCEPT !.updateType = "Update", !.fields = @ \cup {"status"},
                           !.completed = to # "Pending"]
  BY Zenon DEF ExecStatus
<1> HIDE DEF to
<1>5. pend' \in [Txs -> Pending]
  BY <1>1, <1>2, <1>3 DEF Pending
<1>6. run' \in RunContext /\ run'.tx = run.tx
  <2>1. {"status"} \in SUBSET Fields BY DEF Fields
  <2> DEFINE b == to # "Pending"
  <2>2. b \in BOOLEAN OBVIOUS
  <2>3. run' = run \/ run' = [run EXCEPT !.updateType = "Update", !.fields = @ \cup {"status"},
                                        !.completed = b]
    BY <1>4
  <2> HIDE DEF b
  <2> DEFINE d == [run EXCEPT !.updateType = "Update", !.fields = @ \cup {"status"}, !.completed = b]
  <2>4. d \in RunContext /\ d.tx = run.tx
    BY <1>1, <2>1, <2>2, CompletedType, Zenon
  <2> HIDE DEF d
  <2>5. run' = run \/ run' = d
    BY <2>3 DEF d
  <2> QED BY <1>1, <2>4, <2>5
<1> QED BY <1>5, <1>6 DEF TypeInv, TypeOK, RunOK, ExecStatus, storeVars, memVars, apiVars, loopVars, envVars

\* Queueing leaves a sequence of notifications.
LEMMA NotesType ==
    ASSUME NEW N, NEW a \in Seq(N), NEW b \in Seq(N), NEW c \in Seq(N)
    PROVE  a \o b \in Seq(N) /\ a \o b \o c \in Seq(N)
BY ConcatProperties

\* Tracking leaves typed records and notifications, and no status changes.
LEMMA TrackType ==
    ASSUME TypeInv, NEW t \in Txs, NEW p \in Pending, Track(t, p)
    PROVE  /\ pend' \in [Txs -> Pending]
           /\ bq' \in Seq([op : {"add", "remove"}, tx : Txs, hash : HashOrNone])
<1> DEFINE Note == [op : {"add", "remove"}, tx : Txs, hash : HashOrNone]
           removed == IF p.tracking = NoHash THEN <<>>
                      ELSE << [op |-> "remove", tx |-> t, hash |-> p.tracking] >>
           added == << [op |-> "add", tx |-> t, hash |-> p.hash] >>
<1>1. pend \in [Txs -> Pending] /\ bq \in Seq(Note)
  BY DEF TypeInv, TypeOK
<1>2. /\ [p EXCEPT !.tracking = p.hash, !.ran = TRUE] \in Pending
      /\ [p EXCEPT !.ran = TRUE] \in Pending
      /\ p.hash \in HashOrNone /\ p.tracking \in HashOrNone
  BY DEF Pending
<1>3. removed \in Seq(Note) /\ added \in Seq(Note)
  <2> DEFINE x == [op |-> "remove", tx |-> t, hash |-> p.tracking]
             y == [op |-> "add", tx |-> t, hash |-> p.hash]
  <2>1. x \in Note /\ y \in Note
    BY <1>2
  <2> HIDE DEF x, y, Note
  <2>2. <<x>> \in Seq(Note) /\ <<y>> \in Seq(Note) /\ <<>> \in Seq(Note)
    BY <2>1
  <2> QED BY <2>2 DEF x, y
<1>4. \/ pend' = [pend EXCEPT ![t] = [p EXCEPT !.tracking = p.hash, !.ran = TRUE]]
      \/ pend' = [pend EXCEPT ![t] = [p EXCEPT !.ran = TRUE]]
  BY Zenon DEF Track
<1>5. bq' = bq \o removed \o added \/ bq' = bq \o removed \/ bq' = bq
  BY Zenon DEF Track
<1> HIDE DEF Note, removed, added
<1>6. bq' \in Seq(Note)
  <2>1. CASE bq' = bq \o removed \o added
    BY <1>1, <1>3, <2>1, NotesType, Zenon
  <2>2. CASE bq' = bq \o removed
    BY <1>1, <1>3, <2>2, NotesType, Zenon
  <2>3. CASE bq' = bq
    BY <1>1, <2>3
  <2> QED BY <1>5, <2>1, <2>2, <2>3
<1>7. pend' \in [Txs -> Pending]
  BY <1>1, <1>2, <1>4
<1> QED BY <1>6, <1>7 DEF Note

LEMMA TypeProcessNoSend ==
    ASSUME TypeInv, ProcessNoSend
    PROVE  TypeInv'
<1>1. run.tx \in Txs /\ pend \in [Txs -> Pending] /\ run \in RunContext
  BY DEF TypeInv, TypeOK, RunOK, ProcessNoSend, Default
<1>2. Track(run.tx, pend[run.tx])
  BY DEF ProcessNoSend
<1>3. run' = run \/ run' = [run EXCEPT !.updateType = "Delete"]
  BY DEF ProcessNoSend
<1>4. run' \in RunContext /\ run'.tx = run.tx
  BY <1>1, <1>3 DEF RunContext
<1>5. /\ pend' \in [Txs -> Pending]
      /\ bq' \in Seq([op : {"add", "remove"}, tx : Txs, hash : HashOrNone])
  BY <1>1, <1>2, TrackType
<1> QED BY <1>1, <1>4, <1>5 DEF TypeInv, TypeOK, RunOK, ProcessNoSend, storeVars, memVars, apiVars, loopVars, envVars

\* What the connector answers: a hash only when it accepts, and it never
\* touches what has been mined.
LEMMA SendsType ==
    ASSUME NEW c \in Chain, NEW s \in Sends(c)
    PROVE  /\ s.out \in {"ok", "known", "low", "err"}
           /\ s.out = "ok" => s.hash \in Hashes
           /\ s.chain \in Chain
           /\ s.chain.mined = c.mined /\ s.chain.outcome = c.outcome
           /\ s.chain.final = c.final
<1>1. \A h \in Hashes : LET d == [c EXCEPT !.pool = @ \cup {h}]
                        IN d \in Chain /\ d.mined = c.mined /\ d.outcome = c.outcome
                           /\ d.final = c.final
  BY DEF Chain
<1>2. CASE \E h \in Hashes : s = [out |-> "ok", hash |-> h, chain |-> [c EXCEPT !.pool = @ \cup {h}]]
  <2>1. PICK h \in Hashes : s = [out |-> "ok", hash |-> h, chain |-> [c EXCEPT !.pool = @ \cup {h}]]
    BY <1>2
  <2> DEFINE d == [c EXCEPT !.pool = @ \cup {h}]
  <2>2. d \in Chain /\ d.mined = c.mined /\ d.outcome = c.outcome /\ d.final = c.final
    BY <1>1, Zenon
  <2>3. s = [out |-> "ok", hash |-> h, chain |-> d]
    BY <2>1, Zenon
  <2> HIDE DEF d
  <2> QED BY <2>2, <2>3
<1>3. CASE \E o \in {"known", "low", "err"} : s = [out |-> o, hash |-> NoHash, chain |-> c]
  BY <1>3
<1>4. CASE \E h \in Hashes : s = [out |-> "err", hash |-> NoHash, chain |-> [c EXCEPT !.pool = @ \cup {h}]]
  <2>1. PICK h \in Hashes : s = [out |-> "err", hash |-> NoHash, chain |-> [c EXCEPT !.pool = @ \cup {h}]]
    BY <1>4
  <2> DEFINE d == [c EXCEPT !.pool = @ \cup {h}]
  <2>2. d \in Chain /\ d.mined = c.mined /\ d.outcome = c.outcome /\ d.final = c.final
    BY <1>1, Zenon
  <2>3. s = [out |-> "err", hash |-> NoHash, chain |-> d]
    BY <2>1, Zenon
  <2> HIDE DEF d
  <2> QED BY <2>2, <2>3
<1> QED BY <1>2, <1>3, <1>4 DEF Sends

LEMMA TypeProcessSend ==
    ASSUME TypeInv, ProcessSend
    PROVE  TypeInv'
<1> DEFINE t == run.tx
           p == pend[t]
<1>1. /\ t \in Txs /\ pend \in [Txs -> Pending] /\ run \in RunContext
      /\ chain \in [Txs -> Chain]
      /\ bq \in Seq([op : {"add", "remove"}, tx : Txs, hash : HashOrNone])
  BY DEF TypeInv, TypeOK, RunOK, ProcessSend, Default
<1>2. PICK s \in Sends(chain[t]) :
        /\ chain' = [chain EXCEPT ![t] = s.chain]
        /\ \E fields \in SUBSET {"hash", "first"}, u \in {"Update", run.updateType} :
             run' = [run EXCEPT !.fields = @ \cup fields, !.updateType = u]
        /\ \E first \in BOOLEAN :
             LET q == [p EXCEPT !.hash = IF s.out = "ok" THEN s.hash ELSE @,
                                !.first = @ \/ first]
             IN Track(t, q) \/ (pend' = [pend EXCEPT ![t] = q] /\ UNCHANGED bq)
  <2> DEFINE have(s) == s.out \in {"known", "low"} /\ p.hash # NoHash
             good(s) == s.out = "ok" \/ have(s) \/ (s.out = "known" /\ p.first)
             q(s) == [p EXCEPT !.hash = IF s.out = "ok" THEN s.hash ELSE @,
                               !.first = @ \/ good(s)]
             fields(s) == (IF s.out = "ok" THEN {"hash"} ELSE {})
                          \cup (IF q(s).first # p.first THEN {"first"} ELSE {})
  <2>1. PICK s \in Sends(chain[t]) :
          /\ chain' = [chain EXCEPT ![t] = s.chain]
          /\ run' = [run EXCEPT !.fields = @ \cup fields(s),
               !.updateType = IF s.out = "ok" \/ p.first \/ ~good(s) THEN "Update" ELSE @]
          /\ IF good(s) THEN Track(t, q(s))
             ELSE pend' = [pend EXCEPT ![t] = q(s)] /\ UNCHANGED bq
    BY Zenon DEF ProcessSend
  <2>2. /\ fields(s) \in SUBSET {"hash", "first"}
        /\ good(s) \in BOOLEAN
    OBVIOUS
  <2> WITNESS s \in Sends(chain[t])
  <2>3. \E u \in {"Update", run.updateType} :
          run' = [run EXCEPT !.fields = @ \cup fields(s), !.updateType = u]
    BY <2>1
  <2>4. \E fs \in SUBSET {"hash", "first"}, u \in {"Update", run.updateType} :
          run' = [run EXCEPT !.fields = @ \cup fs, !.updateType = u]
    BY <2>2, <2>3
  <2>5. Track(t, q(s)) \/ (pend' = [pend EXCEPT ![t] = q(s)] /\ UNCHANGED bq)
    BY <2>1
  <2> QED BY <2>1, <2>2, <2>4, <2>5
<1>3. /\ s.out = "ok" => s.hash \in Hashes
      /\ s.chain \in Chain
  BY <1>1, SendsType
<1>4. chain' \in [Txs -> Chain]
  BY <1>1, <1>2, <1>3
<1>5. run' \in RunContext /\ run'.tx = run.tx
  <2>1. PICK fields \in SUBSET {"hash", "first"}, u \in {"Update", run.updateType} :
             run' = [run EXCEPT !.fields = @ \cup fields, !.updateType = u]
    BY <1>2
  <2>2. fields \in SUBSET Fields BY DEF Fields
  <2>3. u \in {"None", "Update", "Delete"} BY <1>1 DEF RunContext
  <2> DEFINE d == [run EXCEPT !.fields = @ \cup fields, !.updateType = u]
  <2>4. d \in RunContext /\ d.tx = run.tx
    BY <1>1, <2>2, <2>3, ChangesType, Zenon
  <2> QED BY <2>1, <2>4, Zenon
<1>6. /\ pend' \in [Txs -> Pending]
      /\ bq' \in Seq([op : {"add", "remove"}, tx : Txs, hash : HashOrNone])
  <2>1. PICK first \in BOOLEAN :
          LET q == [p EXCEPT !.hash = IF s.out = "ok" THEN s.hash ELSE @,
                             !.first = @ \/ first]
          IN Track(t, q) \/ (pend' = [pend EXCEPT ![t] = q] /\ UNCHANGED bq)
    BY <1>2
  <2> DEFINE q == [p EXCEPT !.hash = IF s.out = "ok" THEN s.hash ELSE @,
                            !.first = @ \/ first]
  <2>2. q \in Pending
    <3>1. p \in Pending
      BY <1>1
    <3>2. (IF s.out = "ok" THEN s.hash ELSE p.hash) \in HashOrNone /\ (p.first \/ first) \in BOOLEAN
      BY <3>1, <1>3 DEF Pending, HashOrNone
    <3> DEFINE h == IF s.out = "ok" THEN s.hash ELSE p.hash
               f == p.first \/ first
    <3> HIDE DEF h, f, p
    <3>3. [p EXCEPT !.hash = h, !.first = f] \in Pending
      BY <3>1, <3>2 DEF Pending, h, f
    <3> QED BY <3>3 DEF h, f
  <2>3. Track(t, q) \/ (pend' = [pend EXCEPT ![t] = q] /\ UNCHANGED bq)
    BY <2>1
  <2> HIDE DEF q
  <2>4. CASE Track(t, q)
    BY <1>1, <2>2, <2>4, TrackType
  <2>5. CASE pend' = [pend EXCEPT ![t] = q] /\ UNCHANGED bq
    BY <1>1, <2>2, <2>5
  <2> QED BY <2>3, <2>4, <2>5
<1> QED BY <1>1, <1>4, <1>5, <1>6 DEF TypeInv, TypeOK, RunOK, ProcessSend, storeVars, memVars, apiVars, loopVars, envVars

\* Writing the changed fields of a record into its row leaves a row.
LEMMA UpdatedType ==
    ASSUME NEW t \in Txs, db \in [Txs -> Row], pend \in [Txs -> Pending]
    PROVE  Updated(t) \in Row
<1> DEFINE st == IF "status" \in run.fields THEN pend[t].status ELSE db[t].status
           hs == IF "hash" \in run.fields THEN pend[t].hash ELSE db[t].hash
           fi == IF "first" \in run.fields THEN pend[t].first ELSE db[t].first
           de == IF "del" \in run.fields THEN pend[t].del ELSE db[t].del
           li == IF Store = "postgres" THEN st = "Pending" ELSE db[t].listed /\ st = "Pending"
<1>1. pend[t] \in Pending /\ db[t] \in Row
  OBVIOUS
<1>2. st \in Statuses /\ hs \in HashOrNone /\ fi \in BOOLEAN /\ de \in BOOLEAN
  BY <1>1 DEF Pending, Row
<1>3. li \in BOOLEAN
  OBVIOUS
<1> HIDE DEF st, hs, fi, de, li
<1>4. [db[t] EXCEPT !.status = st, !.hash = hs, !.first = fi, !.del = de, !.listed = li] \in Row
  BY <1>1, <1>2, <1>3 DEF Row
<1> QED BY <1>4, Zenon DEF Updated, st, hs, fi, de, li

LEMMA TypeFlushUpdate ==
    ASSUME TypeInv, FlushUpdate
    PROVE  TypeInv'
<1> DEFINE t == run.tx
           complete == run.act # "Resume" /\ run.completed
<1>1. /\ t \in Txs /\ db \in [Txs -> Row] /\ pend \in [Txs -> Pending] /\ run \in RunContext
      /\ stale \in BOOLEAN /\ update \in BOOLEAN
  BY DEF TypeInv, TypeOK, RunOK, FlushUpdate
<1>2. /\ db' = [db EXCEPT ![t] = Updated(t)]
      /\ pend' = [pend EXCEPT ![t].remove = @ \/ complete]
      /\ stale' = (stale \/ run.act = "Resume" \/ complete)
      /\ update' = (update \/ run.act = "Resume" \/ complete)
      /\ pc' = IF complete /\ pend[t].status \in Resolved THEN "emit" ELSE AfterExec(run.req)
      /\ run' = run
  BY Zenon DEF FlushUpdate
<1>3. complete \in BOOLEAN /\ run.req \in Reqs \cup {NoReq}
  BY <1>1 DEF RunContext
<1> HIDE DEF complete
<1>4. db' \in [Txs -> Row]
  BY <1>1, <1>2, UpdatedType, Zenon
<1>5. pend' \in [Txs -> Pending] /\ pend'[t].status = pend[t].status
  BY <1>1, <1>2, <1>3 DEF Pending
<1>6. stale' \in BOOLEAN /\ update' \in BOOLEAN
  BY <1>1, <1>2, <1>3
<1>7. /\ pc' \in {"emit", "cycle", "respond"}
      /\ pc' = "respond" => run.req \in Reqs
      /\ pc' = "emit" => pend'[t].status \in Resolved
  BY <1>2, <1>3, <1>5, AfterExecType
<1>8. TypeOK'
  BY <1>4, <1>5, <1>6, <1>7 DEF TypeInv, TypeOK, FlushUpdate, storeVars, memVars, apiVars, loopVars, envVars
<1>9. RunOK'
  BY <1>1, <1>2, <1>7 DEF TypeInv, RunOK, FlushUpdate, storeVars, memVars, apiVars, loopVars, envVars
<1> QED BY <1>8, <1>9 DEF TypeInv

LEMMA TypeFlushDelete ==
    ASSUME TypeInv, FlushDelete
    PROVE  TypeInv'
<1>1. /\ run.tx \in Txs /\ db \in [Txs -> Row] /\ pend \in [Txs -> Pending]
      /\ db' = [db EXCEPT ![run.tx] = NoRow] /\ pend' = [pend EXCEPT ![run.tx].remove = TRUE]
      /\ run.updateType = "Delete"
  BY DEF TypeInv, TypeOK, RunOK, FlushDelete
<1>2. db' \in [Txs -> Row]
  BY <1>1, EmptyTypes
<1>3. pend' \in [Txs -> Pending]
  BY <1>1, ZenonT(60) DEF Pending
<1>4. TypeOK'
  BY <1>2, <1>3 DEF TypeInv, TypeOK, FlushDelete, storeVars, memVars, apiVars, loopVars, envVars
<1>5. RunOK'
  BY <1>1 DEF TypeInv, RunOK, FlushDelete, storeVars, memVars, apiVars, loopVars, envVars
<1> QED BY <1>4, <1>5 DEF TypeInv

LEMMA TypeFlushFail ==
    ASSUME TypeInv, FlushFail
    PROVE  TypeInv'
<1>1. /\ run.tx \in Txs /\ db \in [Txs -> Row] /\ run \in RunContext
      /\ pc' = AfterExec(run.req)
      /\ db' = db \/ db' = [db EXCEPT ![run.tx].listed = FALSE]
  BY DEF TypeInv, TypeOK, RunOK, FlushFail
<1>2. db' \in [Txs -> Row]
  BY <1>1, ZenonT(60) DEF Row
<1>3. /\ pc' \in {"cycle", "respond"}
      /\ pc' = "respond" => run.req \in Reqs
  BY <1>1, AfterExecType DEF RunContext
<1>4. TypeOK'
  BY <1>2, <1>3 DEF TypeInv, TypeOK, FlushFail, storeVars, memVars, apiVars, loopVars, envVars
<1>5. RunOK'
  BY <1>1, <1>3 DEF TypeInv, RunOK, FlushFail, storeVars, memVars, apiVars, loopVars, envVars
<1> QED BY <1>4, <1>5 DEF TypeInv

LEMMA TypeEmit ==
    ASSUME TypeInv, Emit
    PROVE  TypeInv'
<1> DEFINE Events == {"Succeeded", "Failed", "Deleted"}
           e == IF run.updateType = "Delete" THEN "Deleted" ELSE pend[run.tx].status
<1>1. /\ run.tx \in Txs /\ run \in RunContext /\ replies \in [Txs -> Seq(Events)]
      /\ pc' = AfterExec(run.req)
      /\ replies' = [replies EXCEPT ![run.tx] = Append(@, e)]
  BY DEF TypeInv, TypeOK, RunOK, Emit
<1>2. e \in Events
  BY DEF TypeInv, RunOK, Emit, Resolved
<1> HIDE DEF e, Events
<1>3. replies' \in [Txs -> Seq(Events)]
  BY <1>1, <1>2
<1>4. /\ pc' \in {"cycle", "respond"}
      /\ pc' = "respond" => run.req \in Reqs
  BY <1>1, AfterExecType DEF RunContext
<1>5. TypeOK'
  BY <1>3, <1>4 DEF TypeInv, TypeOK, Emit, Events, storeVars, memVars, apiVars, loopVars, envVars
<1>6. RunOK'
  BY <1>1, <1>4 DEF TypeInv, RunOK, Emit, storeVars, memVars, apiVars, loopVars, envVars
<1> QED BY <1>5, <1>6 DEF TypeInv

LEMMA TypeBcmNotification ==
    ASSUME TypeInv, BcmNotification
    PROVE  TypeInv'
<1> DEFINE Note == [op : {"add", "remove"}, tx : Txs, hash : HashOrNone]
           n == Head(bq)
           k == IF n.op = "add" THEN "new" ELSE "off"
<1>1. /\ bcm \in [Txs -> [Hashes -> Tracked]] /\ bq \in Seq(Note) /\ bq # <<>>
      /\ bcm' = [bcm EXCEPT ![n.tx][n.hash] = k] /\ bq' = Tail(bq)
  BY DEF TypeInv, TypeOK, BcmNotification
<1>2. k \in Tracked
  BY DEF Tracked
<1>3. bq' \in Seq(Note)
  <2> HIDE DEF Note
  <2> QED BY <1>1
<1> HIDE DEF k, n
<1>4. bcm' \in [Txs -> [Hashes -> Tracked]]
  BY <1>1, <1>2
<1> QED BY <1>3, <1>4 DEF TypeInv, TypeOK, RunOK, BcmNotification, storeVars, memVars, apiVars, loopVars, envVars

\* The callbacks leave typed records and keep every status.
LEMMA CallbackType ==
    ASSUME NEW t \in Txs, NEW o \in Receipts, NEW c \in BOOLEAN, pend \in [Txs -> Pending],
           HandleTransactionReceiptReceived(t, o) \/ HandleTransactionConfirmations(t, c)
    PROVE  pend' \in [Txs -> Pending] /\ \A u \in Txs : pend'[u].status = pend[u].status
<1>1. \/ pend' = pend
      \/ pend' = [pend EXCEPT ![t].receipt = o, ![t].receiptNotify = TRUE]
      \/ pend' = [pend EXCEPT ![t].confirmed = c, ![t].confirmNotify = TRUE]
  BY Zenon DEF HandleTransactionReceiptReceived, HandleTransactionConfirmations
<1>2. CASE pend' = pend
  BY <1>2
<1>3. CASE pend' = [pend EXCEPT ![t].receipt = o, ![t].receiptNotify = TRUE]
  <2>1. pend' = [pend EXCEPT ![t] = [pend[t] EXCEPT !.receipt = o, !.receiptNotify = TRUE]]
    BY <1>3 DEF Pending
  <2>2. [pend[t] EXCEPT !.receipt = o, !.receiptNotify = TRUE] \in Pending
    BY DEF Pending
  <2>3. [pend[t] EXCEPT !.receipt = o, !.receiptNotify = TRUE].status = pend[t].status
    BY DEF Pending
  <2> DEFINE q == [pend[t] EXCEPT !.receipt = o, !.receiptNotify = TRUE]
  <2> HIDE DEF q
  <2>4. pend' = [pend EXCEPT ![t] = q] /\ q \in Pending /\ q.status = pend[t].status
    BY <2>1, <2>2, <2>3, Zenon DEF q
  <2> QED BY <2>4
<1>4. CASE pend' = [pend EXCEPT ![t].confirmed = c, ![t].confirmNotify = TRUE]
  <2>1. pend' = [pend EXCEPT ![t] = [pend[t] EXCEPT !.confirmed = c, !.confirmNotify = TRUE]]
    BY <1>4 DEF Pending
  <2>2. [pend[t] EXCEPT !.confirmed = c, !.confirmNotify = TRUE] \in Pending
    BY DEF Pending
  <2>3. [pend[t] EXCEPT !.confirmed = c, !.confirmNotify = TRUE].status = pend[t].status
    BY DEF Pending
  <2> DEFINE q == [pend[t] EXCEPT !.confirmed = c, !.confirmNotify = TRUE]
  <2> HIDE DEF q
  <2>4. pend' = [pend EXCEPT ![t] = q] /\ q \in Pending /\ q.status = pend[t].status
    BY <2>1, <2>2, <2>3, Zenon DEF q
  <2> QED BY <2>4
<1> QED BY <1>1, <1>2, <1>3, <1>4

LEMMA TypeBcmReceipt ==
    ASSUME TypeInv, ChainOK, NEW t \in Txs, NEW h \in Hashes, BcmReceipt(t, h)
    PROVE  TypeInv'
<1> DEFINE o == chain[t].outcome
<1>1. /\ bcm \in [Txs -> [Hashes -> Tracked]] /\ chain \in [Txs -> Chain]
      /\ pend \in [Txs -> Pending] /\ HandleTransactionReceiptReceived(t, o)
      /\ bcm' = [bcm EXCEPT ![t][h] = o] /\ chain[t].mined = h
  BY DEF TypeInv, TypeOK, BcmReceipt
<1>2. o \in Receipts
  BY <1>1 DEF Chain
<1>3. o \in Tracked
  <2>1. h # NoHash
    BY HashesAssumption
  <2> QED BY <2>1, <1>1 DEF ChainOK, Tracked
<1>4. bcm' \in [Txs -> [Hashes -> Tracked]]
  BY <1>1, <1>3
<1>5. pend' \in [Txs -> Pending] /\ \A u \in Txs : pend'[u].status = pend[u].status
  BY <1>1, <1>2, CallbackType
<1>6. update' \in BOOLEAN
  BY DEF TypeInv, TypeOK, BcmReceipt, HandleTransactionReceiptReceived
<1>7. TypeOK'
  BY <1>4, <1>5, <1>6 DEF TypeInv, TypeOK, BcmReceipt, storeVars, memVars, apiVars, loopVars, envVars
<1>8. RunOK'
  BY <1>5 DEF TypeInv, RunOK, BcmReceipt, storeVars, memVars, apiVars, loopVars, envVars
<1> QED BY <1>7, <1>8 DEF TypeInv

LEMMA TypeBcmConfirmations ==
    ASSUME TypeInv, NEW t \in Txs, NEW h \in Hashes, BcmConfirmations(t, h)
    PROVE  TypeInv'
<1>1. pend \in [Txs -> Pending] /\ HandleTransactionConfirmations(t, FALSE)
  BY DEF TypeInv, TypeOK, BcmConfirmations
<1>2. "none" \in Receipts
  BY DEF Receipts
<1>3. pend' \in [Txs -> Pending] /\ \A u \in Txs : pend'[u].status = pend[u].status
  BY <1>1, <1>2, CallbackType
<1>4. update' \in BOOLEAN
  BY DEF TypeInv, TypeOK, BcmConfirmations, HandleTransactionConfirmations
<1>5. TypeOK'
  BY <1>3, <1>4 DEF TypeInv, TypeOK, BcmConfirmations, storeVars, memVars, apiVars, loopVars, envVars
<1>6. RunOK'
  BY <1>3 DEF TypeInv, RunOK, BcmConfirmations, storeVars, memVars, apiVars, loopVars, envVars
<1> QED BY <1>5, <1>6 DEF TypeInv

LEMMA TypeBcmConfirm ==
    ASSUME TypeInv, NEW t \in Txs, NEW h \in Hashes, BcmConfirm(t, h)
    PROVE  TypeInv'
<1>1. /\ bcm \in [Txs -> [Hashes -> Tracked]] /\ chain \in [Txs -> Chain]
      /\ pend \in [Txs -> Pending] /\ HandleTransactionConfirmations(t, TRUE)
      /\ bcm' = [bcm EXCEPT ![t][h] = "off"]
      /\ chain' = [chain EXCEPT ![t].final = TRUE]
  BY DEF TypeInv, TypeOK, BcmConfirm
<1>2. bcm' \in [Txs -> [Hashes -> Tracked]]
  BY <1>1 DEF Tracked
<1>3. chain' \in [Txs -> Chain]
  BY <1>1 DEF Chain
<1>4. "none" \in Receipts
  BY DEF Receipts
<1>5. pend' \in [Txs -> Pending] /\ \A u \in Txs : pend'[u].status = pend[u].status
  BY <1>1, <1>4, CallbackType
<1>6. update' \in BOOLEAN
  BY DEF TypeInv, TypeOK, BcmConfirm, HandleTransactionConfirmations
<1>7. TypeOK'
  BY <1>2, <1>3, <1>5, <1>6 DEF TypeInv, TypeOK, BcmConfirm, storeVars, memVars, apiVars, loopVars, envVars
<1>8. RunOK'
  BY <1>5 DEF TypeInv, RunOK, BcmConfirm, storeVars, memVars, apiVars, loopVars, envVars
<1> QED BY <1>7, <1>8 DEF TypeInv

LEMMA TypeBcmReceiptGone ==
    ASSUME TypeInv, NEW t \in Txs, NEW h \in Hashes, BcmReceiptGone(t, h)
    PROVE  TypeInv'
<1>1. bcm \in [Txs -> [Hashes -> Tracked]] /\ bcm' = [bcm EXCEPT ![t][h] = "new"]
  BY DEF TypeInv, TypeOK, BcmReceiptGone
<1>2. bcm' \in [Txs -> [Hashes -> Tracked]]
  BY <1>1 DEF Tracked
<1> QED BY <1>2 DEF TypeInv, TypeOK, RunOK, BcmReceiptGone, storeVars, memVars, apiVars, loopVars, envVars

LEMMA TypeReorg ==
    ASSUME TypeInv, NEW t \in Txs, Reorg(t)
    PROVE  TypeInv'
<1>1. /\ bcm \in [Txs -> [Hashes -> Tracked]] /\ chain \in [Txs -> Chain]
      /\ used \in [crashes : Nat, reorgs : Nat]
      /\ chain' = [chain EXCEPT ![t].mined = NoHash, ![t].outcome = "none"]
      /\ \/ bcm' = [bcm EXCEPT ![t] = [h \in Hashes |-> IF bcm[t][h] = "off" THEN "off" ELSE "new"]]
         \/ bcm' = bcm
      /\ used' = [used EXCEPT !.reorgs = @ + 1]
  BY DEF TypeInv, TypeOK, Reorg
<1>2. bcm' \in [Txs -> [Hashes -> Tracked]]
  BY <1>1 DEF Tracked
<1>3. chain' \in [Txs -> Chain]
  BY <1>1, ZenonT(60) DEF Chain, HashOrNone, Receipts
<1>4. used' \in [crashes : Nat, reorgs : Nat]
  BY <1>1
<1> QED BY <1>2, <1>3, <1>4 DEF TypeInv, TypeOK, RunOK, Reorg, storeVars, memVars, apiVars, loopVars, envVars

LEMMA TypeRestart ==
    ASSUME TypeInv, Restart
    PROVE  TypeInv'
<1>1. /\ req \in [Reqs -> Request] /\ used \in [crashes : Nat, reorgs : Nat]
      /\ req' = [r \in Reqs |-> IF req[r].state = "unused" THEN req[r]
                               ELSE [req[r] EXCEPT !.state = "gone"]]
      /\ used' = used \/ used' = [used EXCEPT !.crashes = @ + 1]
  BY DEF TypeInv, TypeOK, Restart
<1>2. req' \in [Reqs -> Request] /\ \A r \in Reqs : req'[r].state # "unused" => req'[r].tx = req[r].tx /\ req[r].state # "unused"
  BY <1>1 DEF Request
<1>3. used' \in [crashes : Nat, reorgs : Nat]
  BY <1>1
<1>4. /\ ins' \in [Txs -> {"new", "inserting", "inserted", "marked", "done", "failed"}]
      /\ pend' \in [Txs -> Pending] /\ run' \in RunContext
      /\ bcm' \in [Txs -> [Hashes -> Tracked]]
  BY EmptyTypes DEF Restart, Tracked
<1>5. /\ queue' \in Seq(Reqs) /\ batch' \in Seq(Reqs)
      /\ bq' \in Seq([op : {"add", "remove"}, tx : Txs, hash : HashOrNone])
  BY DEF Restart
<1>6. TypeOK'
  BY <1>2, <1>3, <1>4, <1>5 DEF TypeInv, TypeOK, Restart, storeVars, memVars, apiVars, loopVars, envVars
<1>7. RunOK'
  BY <1>2 DEF TypeInv, RunOK, Restart, storeVars, memVars, apiVars, loopVars, envVars
<1> QED BY <1>6, <1>7 DEF TypeInv

\* The outcome of a transaction stays with the block it was mined in.
LEMMA ChainStep ==
    ASSUME TypeInv, ChainOK, [Next]_vars
    PROVE  ChainOK'
<1> DEFINE Same == \A t \in Txs : /\ chain'[t].mined = chain[t].mined
                                 /\ chain'[t].outcome = chain[t].outcome
                                 /\ chain'[t].final = chain[t].final
<1>1. chain \in [Txs -> Chain]
  BY DEF TypeInv, TypeOK
<1>2. ASSUME Same PROVE ChainOK'
  BY <1>2 DEF ChainOK
<1>3. ASSUME chain' = chain PROVE ChainOK'
  BY <1>3 DEF ChainOK
<1>4. CASE \E t \in Txs : Insert(t)
  BY <1>3, <1>4 DEF Insert, InsertBegin, InsertCommit, InsertFail, InsertHistoryFail,
                    InsertMarkStale, InsertMarkUpdate, envVars
<1>5. CASE \E r \in Reqs : ApiRequest(r)
  BY <1>3, <1>5 DEF ApiRequest, RequestQueue, RequestWait, RequestTimeout, envVars
<1>6. CASE Loop
  <2>1. CASE ProcessSend
    <3> DEFINE t == run.tx
    <3>1. t \in Txs
      BY <2>1 DEF TypeInv, RunOK, ProcessSend, Default
    <3>2. PICK s \in Sends(chain[t]) : chain' = [chain EXCEPT ![t] = s.chain]
      BY <2>1, Zenon DEF ProcessSend
    <3>3. /\ s.chain.mined = chain[t].mined /\ s.chain.outcome = chain[t].outcome
          /\ s.chain.final = chain[t].final
      BY <1>1, <3>1, SendsType
    <3>4. Same
      BY <1>1, <3>1, <3>2, <3>3
    <3> QED BY <1>2, <3>4
  <2>2. CASE Loop /\ ~ProcessSend
    <3>1. chain' = chain
      BY <2>2, Zenon DEF Loop, BeginCycle, ExecRequest, Respond, UpdateInflightSet, SkipInflightSet,
            ExecInflight, EndCycle, Process, ExecStatus, ExecNotDue, ProcessNoSend, ProcessPanic,
            Flush, FlushNone, FlushUpdate, FlushDelete, FlushFail, Emit, envVars
    <3> QED BY <1>3, <3>1
  <2> QED BY <1>6, <2>1, <2>2
<1>7. CASE Bcm
  <2>1. CASE BcmNotification
    BY <1>3, <2>1 DEF BcmNotification
  <2>2. ASSUME NEW t \in Txs, NEW h \in Hashes, BcmReceipt(t, h) PROVE ChainOK'
    BY <1>3, <2>2 DEF BcmReceipt
  <2>4. ASSUME NEW t \in Txs, NEW h \in Hashes, BcmConfirmations(t, h) PROVE ChainOK'
    BY <1>3, <2>4 DEF BcmConfirmations, envVars
  <2>3. ASSUME NEW t \in Txs, NEW h \in Hashes, BcmConfirm(t, h) PROVE ChainOK'
    <3>1. chain' = [chain EXCEPT ![t].final = TRUE] /\ chain[t].mined = h
      BY <2>3 DEF BcmConfirm
    <3>2. h # NoHash
      BY HashesAssumption
    <3> QED BY <1>1, <3>1, <3>2 DEF ChainOK, Chain
  <2>5. ASSUME NEW t \in Txs, NEW h \in Hashes, BcmReceiptGone(t, h) PROVE ChainOK'
    BY <1>3, <2>5 DEF BcmReceiptGone
  <2> QED BY <1>7, <2>1, <2>2, <2>3, <2>4, <2>5 DEF Bcm
<1>8. CASE Blockchain
  <2>1. ASSUME NEW t \in Txs, NEW h \in Hashes, NEW o \in Outcomes, Mine(t, h, o)
        PROVE  ChainOK'
    <3>1. chain' = [chain EXCEPT ![t].mined = h, ![t].outcome = o]
      BY <2>1 DEF Mine
    <3>2. \A u \in Txs : chain'[u].final = chain[u].final
      BY <1>1, <3>1 DEF Chain
    <3>3. chain'[t].mined = h /\ chain'[t].outcome = o /\ h # NoHash /\ o \in {"ok", "fail"}
      BY <1>1, <3>1, HashesAssumption, OutcomesAssumption DEF Chain
    <3>4. \A u \in Txs \ {t} : chain'[u] = chain[u]
      BY <1>1, <3>1
    <3> QED BY <3>2, <3>3, <3>4 DEF ChainOK
  <2>2. ASSUME NEW t \in Txs, Reorg(t) PROVE ChainOK'
    <3>1. chain' = [chain EXCEPT ![t].mined = NoHash, ![t].outcome = "none"] /\ ~chain[t].final
      BY <2>2 DEF Reorg
    <3>2. chain'[t].mined = NoHash /\ chain'[t].final = chain[t].final
      BY <1>1, <3>1 DEF Chain
    <3>3. \A u \in Txs \ {t} : chain'[u] = chain[u]
      BY <1>1, <3>1
    <3> QED BY <3>1, <3>2, <3>3 DEF ChainOK
  <2> QED BY <1>8, <2>1, <2>2 DEF Blockchain
<1>9. CASE Restart
  BY <1>3, <1>9 DEF Restart
<1>10. CASE UNCHANGED vars
  BY <1>3, <1>10 DEF vars
<1> QED BY <1>4, <1>5, <1>6, <1>7, <1>8, <1>9, <1>10 DEF Next

\* Every step preserves the types.
LEMMA TypeStep ==
    ASSUME TypeInv, ChainOK, [Next]_vars
    PROVE  TypeInv'
<1>1. CASE \E t \in Txs : Insert(t)
  BY <1>1, TypeInsertBegin, TypeInsertCommit, TypeInsertFail, TypeInsertHistoryFail,
     TypeInsertMarkStale, TypeInsertMarkUpdate DEF Insert
<1>2. CASE \E r \in Reqs : ApiRequest(r)
  BY <1>2, TypeRequestQueue, TypeRequestWait, TypeRequestTimeout DEF ApiRequest
<1>3. CASE Process
  BY <1>3, TypeExecStatus, TypeExecNotDue, TypeProcessNoSend, TypeProcessSend,
     TypeProcessPanic DEF Process
<1>4. CASE Flush
  BY <1>4, TypeFlushNone, TypeFlushUpdate, TypeFlushDelete, TypeFlushFail, TypeEmit DEF Flush
<1>5. CASE Loop
  BY <1>3, <1>4, <1>5, TypeBeginCycle, TypeExecRequest, TypeRespond, TypeUpdateInflightSet,
     TypeSkipInflightSet, TypeExecInflight, TypeEndCycle DEF Loop
<1>6. CASE Bcm
  BY <1>6, TypeBcmNotification, TypeBcmReceipt, TypeBcmConfirmations, TypeBcmConfirm,
     TypeBcmReceiptGone DEF Bcm
<1>7. CASE Blockchain
  BY <1>7, TypeMine, TypeReorg DEF Blockchain
<1>8. CASE Restart
  BY <1>8, TypeRestart
<1>9. CASE UNCHANGED vars
  BY <1>9 DEF TypeInv, TypeOK, RunOK, vars
<1> QED BY <1>1, <1>2, <1>5, <1>6, <1>7, <1>8, <1>9 DEF Next

\* The types hold throughout: no execution path of the loop, the API, the
\* callbacks or a restart takes a variable out of its range, and a completion
\* event is only made of a resolved or deleted transaction.
THEOREM TypeCorrect == Spec => []TypeOK
<1>1. Init => TypeInv /\ ChainOK
  BY InitType DEF Init, ChainOK
<1>2. TypeInv /\ ChainOK /\ [Next]_vars => (TypeInv /\ ChainOK)'
  BY TypeStep, ChainStep
<1>3. TypeInv => TypeOK
  BY DEF TypeInv
<1> QED BY <1>1, <1>2, <1>3, PTL DEF Spec

(***************************************************************************)
(* Wake-ups                                                                *)
(***************************************************************************)

\* A step either leaves the marker and the wake-up as they are, or takes both
\* (BeginCycle), or sets the marker with its wake-up in the same step or next.
LEMMA StaleStep ==
    ASSUME TypeOK, StaleWakesLoop, [Next]_vars
    PROVE  StaleWakesLoop'
<1> USE DEF StaleWakesLoop
<1>1. CASE \E t \in Txs : Insert(t)
  <2>1. PICK t \in Txs : Insert(t) BY <1>1
  <2>2. DOMAIN ins = Txs BY DEF TypeOK
  <2>3. CASE InsertMarkStale(t)
    BY <2>2, <2>3 DEF InsertMarkStale
  <2>4. CASE InsertMarkUpdate(t)
    BY <2>4 DEF InsertMarkUpdate
  <2>5. CASE \/ InsertBegin(t) \/ InsertCommit(t) \/ InsertFail(t) \/ InsertHistoryFail(t)
    <3>1. stale' = stale /\ update' = update
      BY <2>5 DEF InsertBegin, InsertCommit, InsertFail, InsertHistoryFail
    <3>2. \A u \in Txs : ins[u] = "marked" => ins'[u] = "marked"
      BY <2>2, <2>5 DEF InsertBegin, InsertCommit, InsertFail, InsertHistoryFail
    <3> QED BY <3>1, <3>2
  <2> QED BY <2>1, <2>3, <2>4, <2>5 DEF Insert
<1>2. CASE \E r \in Reqs : ApiRequest(r)
  <2>1. ASSUME NEW r \in Reqs, NEW t \in Txs, NEW a \in Actions, RequestQueue(r, t, a)
        PROVE  StaleWakesLoop'
    BY <2>1 DEF RequestQueue
  <2>2. ASSUME NEW r \in Reqs, RequestWait(r) \/ RequestTimeout(r)
        PROVE  StaleWakesLoop'
    BY <2>2 DEF RequestWait, RequestTimeout
  <2> QED BY <1>2, <2>1, <2>2 DEF ApiRequest
<1>3. CASE Process
  BY <1>3 DEF Process, ExecStatus, ExecNotDue, ProcessNoSend, ProcessSend, ProcessPanic
<1>4. CASE Flush
  BY <1>4 DEF Flush, FlushNone, FlushUpdate, FlushDelete, FlushFail, Emit
<1>5. CASE Loop
  BY <1>3, <1>4, <1>5 DEF Loop, BeginCycle, ExecRequest, Respond, UpdateInflightSet,
     SkipInflightSet, ExecInflight, EndCycle
<1>6. CASE Bcm
  BY <1>6, ZenonT(60) DEF Bcm, BcmNotification, BcmReceipt, BcmConfirmations, BcmConfirm,
     BcmReceiptGone, HandleTransactionReceiptReceived, HandleTransactionConfirmations
<1>7. CASE Blockchain
  <2>1. ASSUME NEW t \in Txs, NEW h \in Hashes, NEW o \in Outcomes, Mine(t, h, o)
        PROVE  StaleWakesLoop'
    BY <2>1 DEF Mine
  <2>2. ASSUME NEW t \in Txs, Reorg(t)
        PROVE  StaleWakesLoop'
    BY <2>2 DEF Reorg
  <2> QED BY <1>7, <2>1, <2>2 DEF Blockchain
<1>8. CASE Restart
  BY <1>8 DEF Restart
<1>9. CASE UNCHANGED vars
  BY <1>9 DEF vars
<1> QED BY <1>1, <1>2, <1>5, <1>6, <1>7, <1>8, <1>9 DEF Next

\* No wake-up is lost: a stale marker set by markInflightStale is never left
\* for the ticker to find, however its two sends interleave with the loop.
THEOREM WakeCorrect == Spec => []StaleWakesLoop
<1>1. Init => StaleWakesLoop
  BY DEF Init, StaleWakesLoop
<1>2. TypeOK /\ StaleWakesLoop /\ [Next]_vars => StaleWakesLoop'
  BY StaleStep
<1> QED BY <1>1, <1>2, TypeCorrect, PTL DEF Spec

=============================================================================
