--------------------------- MODULE MCPersistence ---------------------------
(* Small instances of Persistence for TLC. *)
EXTENDS Persistence, TLC

CONSTANTS t1, t2, t3, r1, r2, r3, s1, w1, w2

One(t) == [txs |-> <<t>>, batch |-> FALSE]
Many(ts) == [txs |-> ts, batch |-> TRUE]
Nothing == Many(<< >>)
Setup(store, inserts, kinds, reads, ops, trouble) ==
    [store |-> store, inserts |-> (r1 :> inserts[1] @@ r2 :> inserts[2] @@ r3 :> inserts[3]),
     kinds |-> kinds, reads |-> reads, submits |-> "delete" \in kinds, ops |-> ops, trouble |-> trouble]

PgNonces == Setup("postgres", <<Many(<<t1, t2>>), One(t1), Nothing>>, {"delete"}, FALSE, 1, 2)
PgBatches == Setup("postgres", <<One(t1), Nothing, Nothing>>,
                   {"update", "receipt", "confirmation", "history"}, FALSE, 3, 0)
PgCompletions == Setup("postgres", <<Many(<<t1, t2>>), Nothing, Nothing>>, {"update"}, TRUE, 2, 1)
LdbOnes == Setup("leveldb", <<One(t1), One(t2), One(t3)>>, {"delete"}, FALSE, 1, 1)
LdbMany == Setup("leveldb", <<Many(<<t1, t2>>), Many(<<t1, t3>>), Nothing>>, {"delete"}, FALSE, 2, 1)

Both == {PgNonces, PgBatches, PgCompletions, LdbOnes, LdbMany}

OneSigner == [t \in Txs |-> s1]
TwoWorkers == <<w1, w2>>
Hash == [x \in Signers \cup Txs |-> IF x = t2 THEN w2 ELSE w1]
=============================================================================
