-------------------------- MODULE TransactionWriter --------------------------
(***************************************************************************)
(* The Postgres store: the transaction writer, whose workers collect the   *)
(* operations queued for them into batches, each run as one database       *)
(* transaction, with the nonce and metadata caches; the tables beside the  *)
(* transactions; and the completions table with a reader that polls it.    *)
(*                                                                         *)
(* A batch is three steps: what it reads and assigns (Prepare), what it    *)
(* writes and locks inside its database transaction (WriteBatch), and the  *)
(* commit or rollback that shows it to the others.                         *)
(***************************************************************************)
EXTENDS TransactionStore

CONSTANTS
    WorkerSeq,      \* the workers, in the order stop goes through them
    WorkerOf,       \* the hash: [Signers \cup Txs -> Workers]
    BatchMaxSize    \* operations in a batch, also the capacity of a work queue

Workers == Range(WorkerSeq)
NoWorker == "no worker"

ASSUME WriterAssumption ==
    /\ WorkerOf \in [Signers \cup Txs -> Workers] /\ NoWorker \notin Workers
    /\ BatchMaxSize \in Nat \ {0}

VARIABLES
    queue,          \* workQueues
    wk,             \* what each worker is doing with which batch
    nonceCache,     \* nextNonceCache: the next nonce of a signer, -1 when not cached
    metaCache,      \* txMetaCache: the transactions in it
    tables,         \* receipts, confirmations and history, by transaction
    completions,    \* transaction_completions: sequence numbers with transactions
    nextSeq,        \* the sequence of that table
    lock,           \* the worker that holds the "txcompletions" lock, or NoWorker
    reader,         \* the one polling the completions
    busy,           \* transactions whose handler waits for an update or a delete
    stop            \* how far stop has come: 0 when it was not called

dbVars == <<tables, completions, nextSeq, lock>>
cacheVars == <<nonceCache, metaCache>>
writerVars == <<queue, wk, cacheVars, dbVars, reader, busy, stop>>

IdleWorker(pc) == [pc |-> pc, ops |-> << >>, conflicts |-> {}, nonces |-> << >>, seqs |-> 0, closing |-> FALSE]
IdleReader == [pc |-> "time", after |-> 0, since |-> FALSE, seen |-> {}]

WriterInit ==
    /\ queue = [w \in Workers |-> << >>]
    /\ wk = [w \in Workers |-> IdleWorker("collect")]
    /\ nonceCache = [s \in Signers |-> -1] /\ metaCache = {}
    /\ tables = [receipt |-> [t \in Txs |-> 0], confs |-> [t \in Txs |-> << >>], hist |-> [t \in Txs |-> << >>]]
    /\ completions = {} /\ nextSeq = 1 /\ lock = NoWorker
    /\ reader = IdleReader /\ busy = {} /\ stop = 0

-----------------------------------------------------------------------------
(* Queueing.                                                               *)

Op(kind, t, arg) == [kind |-> kind, tx |-> t, arg |-> arg]

\* The hash key is the signer for an insert and the transaction for the rest.
Routine(op) == IF op.kind = "insert" THEN WorkerOf[SignerOf[op.tx]] ELSE WorkerOf[op.tx]

\* Mutant of Queue: the work queue has no limit.
QueueUnbounded(op) ==
    LET w == Routine(op)
    IN  queue' = [queue EXCEPT ![w] = Append(@, op)]

\* queue, once there is room in the channel of the worker.
Queue(op) ==
    LET w == Routine(op)
    IN  /\ Len(queue[w]) < BatchMaxSize
        /\ queue' = [queue EXCEPT ![w] = Append(@, op)]

\* InsertTransaction(s)WithNextNonce: one operation for each transaction, queued
\* in turn.  A worker that has ended never answers, nor is it asked when stopped.
QueueInsert(r) ==
    \E i \in 1..Size(r):
        LET op == Op("insert", TxAt(r, i), <<r, i>>)
        IN  /\ out[r][i] = "idle" /\ \A j \in 1..(i - 1): out[r][j] # "idle"
            /\ Queue(op)
            /\ out' = [out EXCEPT ![r][i] = IF stop = 0 THEN "waiting" ELSE "late"]
            /\ UNCHANGED <<setup, rows, node, submitted, deleted, bounds,
                           wk, cacheVars, dbVars, reader, busy, stop>>

\* UpdateTransaction and DeleteTransaction wait for the writer; receipts,
\* confirmations and history records do not.
Args(kind) ==
    CASE kind = "update" -> {"hash", "Succeeded"}
      [] kind = "history" -> {"submit", "retry"}
      [] kind = "confirmation" -> {<<clear, bounds.ops>>: clear \in BOOLEAN}
      [] OTHER -> {bounds.ops}

QueueWrite(t) ==
    /\ Exists(t) /\ t \notin busy /\ stop = 0
    /\ \E kind \in setup.kinds:
         \E arg \in Args(kind):
           /\ Queue(Op(kind, t, arg))
           /\ busy' = IF kind \in {"update", "delete"} THEN busy \cup {t} ELSE busy
    /\ CountOp
    /\ UNCHANGED <<storeVars, wk, cacheVars, dbVars, reader, stop>>

-----------------------------------------------------------------------------
(* A worker collects a batch.                                              *)

\* Mutant of Collect: the batch collected so far is dropped on shutdown.
CollectDropsBatch(w) ==
    LET op == Head(queue[w])
        ops == Append(wk[w].ops, op)
    IN  /\ wk[w].pc = "collect" /\ queue[w] # << >>
        /\ queue' = [queue EXCEPT ![w] = Tail(@)]
        /\ wk' = [wk EXCEPT ![w] =
             IF op.kind = "shutdown" THEN [@ EXCEPT !.closing = TRUE, !.pc = "done"]
             ELSE [@ EXCEPT !.ops = ops, !.pc = IF Len(ops) >= BatchMaxSize THEN "prepare" ELSE "collect"]]
        /\ UNCHANGED <<storeVars, cacheVars, dbVars, reader, busy, stop, bounds>>

\* The batch runs when it is full, and otherwise once its timeout has passed.
Collect(w) ==
    LET op == Head(queue[w])
        ops == Append(wk[w].ops, op)
    IN  /\ wk[w].pc = "collect" /\ queue[w] # << >>
        /\ queue' = [queue EXCEPT ![w] = Tail(@)]
        /\ wk' = [wk EXCEPT ![w] =
             IF op.kind = "shutdown"
             THEN [@ EXCEPT !.closing = TRUE, !.pc = IF wk[w].ops = << >> THEN "done" ELSE "prepare"]
             ELSE [@ EXCEPT !.ops = ops, !.pc = IF Len(ops) >= BatchMaxSize THEN "prepare" ELSE "collect"]]
        /\ UNCHANGED <<storeVars, cacheVars, dbVars, reader, busy, stop, bounds>>

BatchTimeout(w) ==
    /\ wk[w].pc = "collect" /\ wk[w].ops # << >>
    /\ wk' = [wk EXCEPT ![w].pc = "prepare"]
    /\ UNCHANGED <<storeVars, queue, cacheVars, dbVars, reader, busy, stop, bounds>>

-----------------------------------------------------------------------------
(* executeBatchOps.                                                        *)

OpsOf(ops, kind) == {op \in Range(ops): op.kind = kind}
OpsFor(ops, kind, t) == SelectSeq(ops, LAMBDA op: op.kind = kind /\ op.tx = t)
TxsOf(ops, kind) == {op.tx: op \in OpsOf(ops, kind)}

\* preInsertIdempotencyCheck: inserts found to exist already, if the cache says
\* that it is worth looking.
Conflicting(ops) == {op.arg: op \in {o \in OpsOf(ops, "insert"): o.tx \in metaCache /\ Exists(o.tx)}}

\* The other inserts of a batch, by their positions in it, and those of a signer.
ValidInserts(b) == {i \in DOMAIN b.ops: b.ops[i].kind = "insert" /\ b.ops[i].arg \notin b.conflicts}
ValidFor(b, s) == {i \in ValidInserts(b): SignerOf[b.ops[i].tx] = s}

\* The nonce after the highest one stored for the signer.
NextStored(s) ==
    LET nonces == {rows[t].nonce: t \in Stored(s)}
    IN  IF nonces = {} THEN 0 ELSE 1 + CHOOSE n \in nonces: \A m \in nonces: m <= n

\* assignNonces: a cached nonce that has not expired; else what the node says,
\* unless the cache or, without one, the database is ahead of it.
NonceFor(s, expired) ==
    LET known == IF nonceCache[s] # -1 THEN nonceCache[s] ELSE NextStored(s)
    IN  IF nonceCache[s] # -1 /\ ~expired THEN nonceCache[s]
        ELSE IF known > node[s] THEN known ELSE node[s]

Prepare(w) ==
    LET b == [wk[w] EXCEPT !.conflicts = Conflicting(wk[w].ops)]
    IN  /\ wk[w].pc = "prepare"
        /\ out' = [r \in Requests |-> [i \in 1..Size(r) |->
                     IF <<r, i>> \in b.conflicts THEN "conflict" ELSE out[r][i]]]
        /\ \E expired \in BOOLEAN:
             /\ wk' = [wk EXCEPT ![w] = [b EXCEPT !.pc = "write",
                         !.nonces = [s \in Signers |-> NonceFor(s, expired)]]]
             /\ nonceCache' = [s \in Signers |->
                  IF ValidFor(b, s) = {} THEN nonceCache[s] ELSE NonceFor(s, expired) + Cardinality(ValidFor(b, s))]
        /\ UNCHANGED <<setup, rows, node, submitted, deleted, queue, metaCache, dbVars, reader, busy, stop, bounds>>

\* How many of some positions come before this one.
Before(positions, i) == Cardinality({j \in positions: j < i})

\* The inserts of a signer in the batch have consecutive nonces, in their order.
AssignedNonce(b, i) ==
    LET s == SignerOf[b.ops[i].tx]
    IN  b.nonces[s] + Before(ValidFor(b, s), i)

\* InsertMany: the unique indexes refuse an ID or a nonce that is there.
Refused(b) ==
    \/ \E i, j \in ValidInserts(b): i # j /\ b.ops[i].tx = b.ops[j].tx
    \/ \E i \in ValidInserts(b):
         LET t == b.ops[i].tx
         IN  Exists(t) \/ \E u \in Stored(SignerOf[t]): rows[u].nonce = AssignedNonce(b, i)
    \/ \E t \in TxsOf(b.ops, "delete"): ~Exists(t)

\* mergeTxUpdates: the updates that complete transactions; the table takes one
\* completion for a transaction, and ignores others.
Completes(b) == {i \in DOMAIN b.ops: b.ops[i].kind = "update" /\ b.ops[i].arg = "Succeeded"}
NewCompletions(b) == {i \in Completes(b): \A c \in completions: c.tx # b.ops[i].tx}

\* The rows a batch in progress has deleted or inserted are locked for the others.
RowLocked(w) ==
    \E v \in Workers \ {w}: wk[v].pc = "commit"
        /\ (TxsOf(wk[v].ops, "delete") \cup TxsOf(wk[v].ops, "insert")) \cap TxsOf(wk[w].ops, "insert") # {}

\* Mutant of WriteBatch: writeTransactionCompletions without the table lock.
WriteBatchUnlocked(w) ==
    LET b == wk[w]
    IN  /\ b.pc = "write" /\ ~RowLocked(w)
        /\ \/ /\ Refused(b) /\ wk' = [wk EXCEPT ![w].pc = "failed"]
              /\ UNCHANGED <<metaCache, nextSeq, bounds>>
           \/ /\ Trouble /\ wk' = [wk EXCEPT ![w].pc = "failed"]
              /\ UNCHANGED <<metaCache, nextSeq>>
           \/ /\ ~Refused(b)
              /\ metaCache' = metaCache \cup {b.ops[i].tx: i \in ValidInserts(b)}
              /\ nextSeq' = nextSeq + Cardinality(NewCompletions(b))
              /\ wk' = [wk EXCEPT ![w].pc = "commit", ![w].seqs = nextSeq]
              /\ UNCHANGED bounds
        /\ UNCHANGED <<storeVars, queue, nonceCache, tables, completions, lock, reader, busy, stop>>

\* executeBatchOps: everything up to the commit.  The completions come last,
\* under a lock on their table that is held until the transaction ends.
WriteBatch(w) ==
    LET b == wk[w]
        completes == Completes(b) # {}
    IN  /\ b.pc = "write" /\ ~RowLocked(w)
        /\ \/ /\ Refused(b) /\ wk' = [wk EXCEPT ![w].pc = "failed"]
              /\ UNCHANGED <<metaCache, nextSeq, lock, bounds>>
           \/ /\ Trouble /\ wk' = [wk EXCEPT ![w].pc = "failed"]
              /\ UNCHANGED <<metaCache, nextSeq, lock>>
           \/ /\ ~Refused(b) /\ (completes => lock = NoWorker)
              /\ metaCache' = metaCache \cup {b.ops[i].tx: i \in ValidInserts(b)}
              /\ lock' = IF completes THEN w ELSE lock
              /\ nextSeq' = nextSeq + Cardinality(NewCompletions(b))
              /\ wk' = [wk EXCEPT ![w].pc = "commit", ![w].seqs = nextSeq]
              /\ UNCHANGED bounds
        /\ UNCHANGED <<storeVars, queue, nonceCache, tables, completions, reader, busy, stop>>

-----------------------------------------------------------------------------
(* What a batch writes: the operations regrouped by kind.                  *)

\* updateTransaction for the merged updates.
RowAfter(b, t) ==
    LET inserted == {i \in ValidInserts(b): b.ops[i].tx = t}
        row == IF inserted # {} THEN NewRow(AssignedNonce(b, CHOOSE i \in inserted: TRUE)) ELSE rows[t]
        sets(v) == \E op \in OpsOf(b.ops, "update"): op.tx = t /\ op.arg = v
    IN  IF t \in TxsOf(b.ops, "delete") THEN NoRow
        ELSE [row EXCEPT !.hash = @ \/ sets("hash"), !.status = IF sets("Succeeded") THEN "Succeeded" ELSE @]

\* runBatch: the last receipt of a transaction wins.
ReceiptAfter(ops, t) ==
    LET mine == OpsFor(ops, "receipt", t)
    IN  IF mine = << >> THEN tables.receipt[t] ELSE Last(mine).arg

\* Mutant of ConfirmationsAfter: records queued before the clear are kept.
ConfirmationsKept(ops, t) ==
    LET mine == OpsFor(ops, "confirmation", t)
        cleared == \E i \in DOMAIN mine: mine[i].arg[1]
    IN  (IF cleared THEN << >> ELSE tables.confs[t]) \o [i \in DOMAIN mine |-> mine[i].arg[2]]

\* runBatch: a clear purges the records queued before it and, once for the
\* batch, the table.
ConfirmationsAfter(ops, t) ==
    LET mine == OpsFor(ops, "confirmation", t)
        clears == {i \in DOMAIN mine: mine[i].arg[1]}
        first == IF clears = {} THEN 1 ELSE CHOOSE i \in clears: \A j \in clears: j <= i
        inserts == SubSeq(mine, first, Len(mine))
    IN  (IF clears = {} THEN tables.confs[t] ELSE << >>) \o [i \in DOMAIN inserts |-> inserts[i].arg[2]]

\* compressHistory and buildHistorySummary, newest first: a record like the newer
\* one next to it is merged into that.
Compressed(hist) ==
    FoldRight(LAMBDA h, acc:
                IF acc # << >> /\ Head(acc).action = h.action
                THEN <<[Head(acc) EXCEPT !.count = @ + 1]>> \o Tail(acc)
                ELSE <<h>> \o acc,
              hist, << >>)

HistoryAfter(ops, t, compress) ==
    LET mine == OpsFor(ops, "history", t)
        all == tables.hist[t] \o [i \in DOMAIN mine |-> [action |-> mine[i].arg, count |-> 1]]
    IN  IF compress /\ mine # << >> THEN Compressed(all) ELSE all

\* compressionCheck depends on the clock and on the cache.
TablesAfter(ops, compress) ==
    LET gone == TxsOf(ops, "delete")
    IN  [receipt |-> [t \in Txs |-> IF t \in gone THEN 0 ELSE ReceiptAfter(ops, t)],
         confs |-> [t \in Txs |-> IF t \in gone THEN << >> ELSE ConfirmationsAfter(ops, t)],
         hist |-> [t \in Txs |-> IF t \in gone THEN << >> ELSE HistoryAfter(ops, t, compress)]]

\* The commit shows the whole batch to the others.
Commit(w) ==
    LET b == wk[w]
        new == NewCompletions(b)
    IN  /\ b.pc = "commit"
        /\ rows' = [t \in Txs |-> RowAfter(b, t)]
        /\ \E compress \in BOOLEAN: tables' = TablesAfter(b.ops, compress)
        /\ completions' = completions \cup {[seq |-> b.seqs + Before(new, i), tx |-> b.ops[i].tx]: i \in new}
        /\ deleted' = deleted \cup {<<SignerOf[t], rows[t].nonce>>: t \in TxsOf(b.ops, "delete")}
        /\ lock' = IF lock = w THEN NoWorker ELSE lock
        /\ wk' = [wk EXCEPT ![w].pc = IF Completes(b) = {} THEN "reply" ELSE "notify"]
        /\ UNCHANGED <<setup, out, node, submitted, queue, cacheVars, nextSeq, reader, busy, stop, bounds>>

CommitFails(w) ==
    /\ wk[w].pc = "commit"
    /\ Trouble
    /\ lock' = IF lock = w THEN NoWorker ELSE lock
    /\ wk' = [wk EXCEPT ![w].pc = "failed"]
    /\ UNCHANGED <<storeVars, queue, cacheVars, tables, completions, nextSeq, reader, busy, stop>>

\* The post-commit hook notifyTxCompletions: it closes the channels of the waiters.
Notify(w) ==
    /\ wk[w].pc = "notify"
    /\ reader' = [reader EXCEPT !.since = TRUE, !.pc = IF @ = "waiting" THEN "time" ELSE @]
    /\ wk' = [wk EXCEPT ![w].pc = "reply"]
    /\ UNCHANGED <<storeVars, queue, cacheVars, dbVars, busy, stop, bounds>>

\* Mutant of Answered: the inserts found to exist already are answered again.
AnsweredAll(b, outcome) ==
    [r \in Requests |-> [i \in 1..Size(r) |->
        IF \E op \in OpsOf(b.ops, "insert"): op.arg = <<r, i>> THEN outcome ELSE out[r][i]]]

Answered(b, outcome) ==
    [r \in Requests |-> [i \in 1..Size(r) |->
        IF \E j \in ValidInserts(b): b.ops[j].arg = <<r, i>> THEN outcome ELSE out[r][i]]]

\* clearCachedNonces, of the signers in the batch.
Cleared(b) == [s \in Signers |-> IF \E t \in TxsOf(b.ops, "insert"): SignerOf[t] = s THEN -1 ELSE nonceCache[s]]

\* Mutant of Finish: a failed batch leaves the cached nonces alone.
FinishKeepsCache(w) ==
    LET b == wk[w]
    IN  /\ b.pc \in {"reply", "failed"}
        /\ out' = Answered(b, IF b.pc = "reply" THEN "ok" ELSE "error")
        /\ busy' = busy \ (TxsOf(b.ops, "update") \cup TxsOf(b.ops, "delete"))
        /\ wk' = [wk EXCEPT ![w] = IdleWorker(IF b.closing THEN "done" ELSE "collect")]
        /\ UNCHANGED <<setup, rows, node, submitted, deleted, queue, cacheVars, dbVars, reader, stop, bounds>>

\* runBatch, after the database transaction: every operation is answered.
Finish(w) ==
    LET b == wk[w]
    IN  /\ b.pc \in {"reply", "failed"}
        /\ out' = Answered(b, IF b.pc = "reply" THEN "ok" ELSE "error")
        /\ nonceCache' = IF b.pc = "failed" THEN Cleared(b) ELSE nonceCache
        /\ busy' = busy \ (TxsOf(b.ops, "update") \cup TxsOf(b.ops, "delete"))
        /\ wk' = [wk EXCEPT ![w] = IdleWorker(IF b.closing THEN "done" ELSE "collect")]
        /\ UNCHANGED <<setup, rows, node, submitted, deleted, queue, metaCache, dbVars, reader, stop, bounds>>

\* The least recently used entries of the caches go when others need the room.
Evict ==
    /\ \/ \E t \in metaCache: metaCache' = metaCache \ {t} /\ UNCHANGED nonceCache
       \/ \E s \in Signers: nonceCache[s] # -1 /\ nonceCache' = [nonceCache EXCEPT ![s] = -1]
                            /\ UNCHANGED metaCache
    /\ Trouble
    /\ UNCHANGED <<storeVars, queue, wk, dbVars, reader, busy, stop>>

-----------------------------------------------------------------------------
(* The completions, as the comments on ListTxCompletionsByCreateTime tell   *)
(* to read them.                                                           *)

ReadTime ==
    /\ reader.pc = "time" /\ setup.reads
    /\ reader' = [reader EXCEPT !.pc = "poll", !.since = FALSE]
    /\ UNCHANGED <<storeVars, queue, wk, cacheVars, dbVars, busy, stop, bounds>>

\* ListTxCompletionsByCreateTime, ascending.
ListTxCompletions ==
    LET newer == {c \in completions: c.seq > reader.after}
        next == CHOOSE c \in newer: \A d \in newer: c.seq <= d.seq
    IN  /\ reader.pc = "poll"
        /\ reader' = IF newer = {} THEN [reader EXCEPT !.pc = "wait"]
                     ELSE [reader EXCEPT !.pc = "time", !.after = next.seq, !.seen = @ \cup {next.tx}]
        /\ UNCHANGED <<storeVars, queue, wk, cacheVars, dbVars, busy, stop, bounds>>

\* Mutant of WaitTxCompletionUpdates: waits for the next notification, whatever
\* was committed since the time it is given.
WaitForNextUpdate ==
    /\ reader.pc = "wait"
    /\ reader' = [reader EXCEPT !.pc = "waiting"]
    /\ UNCHANGED <<storeVars, queue, wk, cacheVars, dbVars, busy, stop, bounds>>

\* WaitTxCompletionUpdates.
WaitTxCompletionUpdates ==
    /\ reader.pc = "wait"
    /\ reader' = [reader EXCEPT !.pc = IF reader.since THEN "time" ELSE "waiting"]
    /\ UNCHANGED <<storeVars, queue, wk, cacheVars, dbVars, busy, stop, bounds>>

-----------------------------------------------------------------------------
(* stop, and the process.                                                  *)

Close ==
    /\ stop = 0
    /\ Trouble
    /\ stop' = 1
    /\ UNCHANGED <<storeVars, queue, wk, cacheVars, dbVars, reader, busy>>

\* stop asks the workers one after the other, and waits for each.
StopWorker ==
    /\ stop \in 1..Len(WorkerSeq)
    /\ LET w == WorkerSeq[stop]
           asked == wk[w].closing \/ wk[w].pc = "done" \/ \E i \in DOMAIN queue[w]: queue[w][i].kind = "shutdown"
       IN  \/ /\ ~asked /\ Len(queue[w]) < BatchMaxSize
              /\ queue' = [queue EXCEPT ![w] = Append(@, [kind |-> "shutdown"])]
              /\ UNCHANGED stop
           \/ /\ wk[w].pc = "done"
              /\ stop' = stop + 1
              /\ UNCHANGED queue
    /\ UNCHANGED <<storeVars, wk, cacheVars, dbVars, reader, busy, bounds>>

\* What a restart leaves of the writer; the reader keeps its position.
WriterRestarts ==
    /\ queue' = [w \in Workers |-> << >>]
    /\ wk' = [w \in Workers |-> IdleWorker("collect")]
    /\ nonceCache' = [s \in Signers |-> -1] /\ metaCache' = {}
    /\ lock' = NoWorker /\ busy' = {} /\ stop' = 0
    /\ reader' = [reader EXCEPT !.pc = "time"]
    /\ UNCHANGED <<tables, completions, nextSeq>>

WorkerStep(w) ==
    \/ Collect(w) \/ BatchTimeout(w) \/ Prepare(w) \/ WriteBatch(w)
    \/ Commit(w) \/ CommitFails(w) \/ Notify(w) \/ Finish(w)

ReaderStep == ReadTime \/ ListTxCompletions \/ WaitTxCompletionUpdates
=============================================================================
