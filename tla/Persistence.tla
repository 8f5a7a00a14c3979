----------------------------- MODULE Persistence -----------------------------
(***************************************************************************)
(* The transaction store behind its interface, in either implementation:   *)
(* what the API and the transaction handler may rely on.                   *)
(***************************************************************************)
EXTENDS TransactionWriter, LevelDBStore

vars == <<storeVars, bounds, writerVars, ldbVars>>

Init == StoreInit /\ WriterInit /\ LdbInit

Postgres(step) == setup.store = "postgres" /\ step /\ UNCHANGED ldbVars
LevelDB(step) == setup.store = "leveldb" /\ step /\ UNCHANGED writerVars

\* The process dies and is started again.
Crash ==
    /\ Trouble
    /\ out' = Forgotten
    /\ WriterRestarts /\ LdbRestarts
    /\ UNCHANGED <<setup, rows, node, submitted, deleted>>

Next ==
    \/ \E r \in Requests: Postgres(QueueInsert(r)) \/ LevelDB(BeginInsert(r)) \/ LevelDB(InsertStep(r))
    \/ \E t \in Txs: Postgres(QueueWrite(t)) \/ LevelDB(DeleteTransaction(t))
    \/ \E w \in Workers: Postgres(WorkerStep(w))
    \/ Postgres(Evict) \/ Postgres(ReaderStep) \/ Postgres(Close) \/ Postgres(StopWorker)
    \/ LevelDB(DeleteIndex) \/ LevelDB(ListByNonce) \/ LevelDB(ListCleansUp)
    \/ Crash
    \/ \E t \in Txs: Submit(t) /\ UNCHANGED <<writerVars, ldbVars>>

Spec == Init /\ [][Next]_vars

-----------------------------------------------------------------------------
(* Fairness: every worker, request and reader that can go on does.         *)

Fairness ==
    /\ \A w \in Workers: WF_vars(Postgres(WorkerStep(w)))
    /\ WF_vars(Postgres(ReaderStep)) /\ WF_vars(Postgres(StopWorker))
    /\ \A r \in Requests: WF_vars(Postgres(QueueInsert(r))) /\ SF_vars(LevelDB(InsertStep(r)))

FairSpec == Spec /\ Fairness

-----------------------------------------------------------------------------
(* Properties.                                                             *)

\* Type correctness, with the capacity of the work queues and the batches.
PersistenceTypeOK ==
    /\ StoreTypeOK
    /\ \A w \in Workers: Len(queue[w]) <= BatchMaxSize /\ Len(wk[w].ops) <= BatchMaxSize
    /\ nonceCache \in [Signers -> Int] /\ metaCache \subseteq Txs
    /\ lock \in Workers \cup {NoWorker} /\ busy \subseteq Txs
    /\ locked \in [Signers -> Requests \cup {NoRequest}] /\ mux \in Requests \cup {NoRequest}

\* assignNonces and assignAndLockNonce: no two transactions of a signer have the
\* same nonce, and a nonce the node took is not used again, after failed batches,
\* evicted caches and restarts too.  In LevelDB, unless the index record of a
\* stored transaction was deleted (see IndexComplete) or, for a nonce the node
\* took, the transaction: a fresh record below it is trusted without asking the node.
NonceUnique ==
    \A t \in Txs: Exists(t) =>
        LET s == SignerOf[t]
            n == rows[t].nonce
            forgets == setup.store = "leveldb"
        IN  /\ (forgets /\ <<s, n>> \in lost) \/ \A u \in Stored(s): rows[u].nonce = n => u = t
            /\ \/ forgets /\ <<s, n>> \in lost \cup deleted
               \/ \A e \in submitted: e[1] = s /\ e[2] = n => e[3] = t

\* No stored transaction waits for a nonce that nobody has: below it, down to
\* what the node expects, every nonce belongs to a stored transaction or to one
\* that was deleted.
NoNonceGap ==
    \A t \in Txs: Exists(t) =>
        \A n \in node[SignerOf[t]]..(rows[t].nonce - 1):
            <<SignerOf[t], n>> \in deleted \/ \E u \in Stored(SignerOf[t]): rows[u].nonce = n

\* What a request is told is what happened: a transaction reported as inserted
\* is stored unless one was deleted, two requests are not both told that they
\* inserted it, and a transaction is not stored when all its requests failed.
Told(t, outcomes) ==
    {p \in UNION {{r} \X (1..Size(r)): r \in Requests}: TxAt(p[1], p[2]) = t /\ out[p[1]][p[2]] \in outcomes}

RepliesTrue ==
    \A t \in Txs:
        /\ Told(t, {"ok"}) # {} /\ deleted = {} => Exists(t) /\ Cardinality(Told(t, {"ok"})) = 1
        /\ Exists(t) => Told(t, {"ok", "waiting", "late", "lost"}) # {}

\* The operations of a batch, for one transaction and one by one.
OneByOne(b, t) ==
    FoldLeft(LAMBDA st, op:
               CASE op.tx # t -> st
                 [] op.kind = "insert" -> IF op.arg \in b.conflicts THEN st
                                          ELSE [st EXCEPT !.row = NewRow(AssignedNonce(b, CHOOSE i \in DOMAIN b.ops: b.ops[i] = op))]
                 [] op.kind = "update" -> IF op.arg = "hash" THEN [st EXCEPT !.row.hash = TRUE]
                                          ELSE [st EXCEPT !.row.status = op.arg]
                 [] op.kind = "receipt" -> [st EXCEPT !.receipt = op.arg]
                 [] op.kind = "confirmation" ->
                      [st EXCEPT !.confs = Append(IF op.arg[1] THEN << >> ELSE @, op.arg[2])]
                 [] op.kind = "history" -> [st EXCEPT !.hist = Append(@, op.arg)],
             [row |-> rows[t], receipt |-> tables.receipt[t], confs |-> tables.confs[t],
              hist |-> [i \in DOMAIN tables.hist[t] |-> tables.hist[t][i].action]],
             b.ops)

\* A history without repetitions.
Actions(hist) ==
    FoldLeft(LAMBDA acc, a: IF acc # << >> /\ Last(acc) = a THEN acc ELSE Append(acc, a), << >>, hist)

Committed(w) == wk[w].pc = "commit" /\ wk'[w].pc \in {"notify", "reply"}

\* runBatch and executeBatchOps regroup the operations of a batch by kind, merge
\* updates, keep the last receipt, purge confirmations and compress the history:
\* the outcome is what the operations would have done one by one, for every
\* transaction the batch does not delete.
BatchIsOneByOne ==
    [][\A w \in Workers: Committed(w) =>
         \A t \in Txs \ TxsOf(wk[w].ops, "delete"):
            LET ref == OneByOne(wk[w], t)
                hist == tables'.hist[t]
            IN  /\ rows'[t] = ref.row /\ tables'.receipt[t] = ref.receipt /\ tables'.confs[t] = ref.confs
                /\ Actions([i \in DOMAIN hist |-> hist[i].action]) = Actions(ref.hist)]_vars

\* writeTransactionCompletions (the comment at transaction_completions.go:43):
\* someone who polls in the order of the sequence never passes a completion
\* that is committed later with a lower number.
CompletionsNotMissed ==
    \A c \in completions: c.seq <= reader.after => c.tx \in reader.seen

\* notifyTxCompletions and WaitTxCompletionUpdates: no wake-up is lost between the
\* poll that found nothing and the wait, so the reader catches up again and again.
ReaderCatchesUp ==
    []<>(setup.reads => \A c \in completions: c.tx \in reader.seen)

\* Every insert that was accepted is answered: by its batch, also when the writer
\* is stopped behind it, or, in LevelDB, once it is its turn for the nonce.  (No
\* request is made twice, so none waits for ever if again and again none waits.)
InsertsAnswered == []<>(\A r \in Requests: \A i \in 1..Size(r): out[r][i] # "waiting")

\* writeTransactionLocked and listTransactionsByIndex (the comment at
\* leveldb_persistence.go:694): an index record that is cleaned up is one without
\* its transaction.
IndexComplete == lost = {}
=============================================================================
