------------------------- MODULE PersistenceProofs -------------------------
(***************************************************************************)
(* Theorems about Persistence, for all requests, transactions, signers and *)
(* workers, every batch size and any number of failures and restarts.      *)
(***************************************************************************)
EXTENDS Persistence, FiniteSetTheorems, WellFoundedInduction, TLAPS

(***************************************************************************)
(* The inductive invariant, of both stores                                 *)
(***************************************************************************)

\* Operations and workers.
Kinds == {"insert", "update", "delete", "receipt", "confirmation", "history"}
Argument == (Requests \X Nat) \cup (BOOLEAN \X Nat) \cup Nat \cup {"hash", "Succeeded", "submit", "retry"}
Operation == [kind: Kinds, tx: Txs, arg: Argument]
Shutdown == [kind |-> "shutdown"]
WorkerPCs == {"collect", "prepare", "write", "commit", "notify", "reply", "failed", "done"}
Worker ==
    [pc: WorkerPCs, ops: Seq(Operation), conflicts: SUBSET Argument, nonces: [Signers -> Int] \cup {<< >>},
     seqs: Nat, closing: BOOLEAN]

InFlight(w) == wk[w].pc \in {"write", "commit"}

BatchesOK ==
    /\ queue \in [Workers -> Seq(Operation \cup {Shutdown})]
    /\ wk \in [Workers -> Worker]
    /\ \A w \in Workers:
         /\ Len(queue[w]) <= BatchMaxSize /\ Len(wk[w].ops) <= BatchMaxSize
         /\ wk[w].pc = "collect" => Len(wk[w].ops) < BatchMaxSize
         /\ InFlight(w) => wk[w].nonces \in [Signers -> Int]
TablesOK ==
    /\ nonceCache \in [Signers -> Int] /\ metaCache \subseteq Txs
    /\ lock \in Workers \cup {NoWorker} /\ busy \subseteq Txs
    /\ reader \in [pc: {"time", "poll", "wait", "waiting"}, after: Nat, since: BOOLEAN, seen: SUBSET Txs]
    /\ completions \subseteq [seq: Nat, tx: Txs] /\ nextSeq \in Nat \ {0}

Insert == [pc: {"idle", "assign", "list", "clean", "nonce", "write", "complete", "done"},
           i: Nat, last: Int, nonce: Int, orphans: SUBSET (Signers \X Int)]

LdbOK ==
    /\ locked \in [Signers -> Requests \cup {NoRequest}] /\ mux \in Requests \cup {NoRequest}
    /\ ins \in [Requests -> Insert]
    /\ \A r \in Requests: /\ ins[r].pc = "idle" => ins[r].i = 1
                          /\ ins[r].pc \notin {"idle", "done"} => ins[r].i \in 1..Size(r)
    /\ idx \subseteq Signers \X Nat \X Txs
    /\ \A s \in Signers: \E k \in Nat: \A e \in idx: e[1] = s => e[2] <= k

\* A stored transaction has a nonce; those of a signer are bounded.
RowsOK ==
    /\ rows \in [Txs -> [nonce: Int, status: {"None", "Pending", "Succeeded"}, hash: BOOLEAN]]
    /\ \A t \in Txs: Exists(t) => rows[t].nonce \in Nat
    /\ \A s \in Signers: \E k \in Nat: \A t \in Stored(s): rows[t].nonce <= k

Outcomes == {"idle", "waiting", "late", "ok", "conflict", "error", "lost"}
CommonOK ==
    /\ setup \in Setups
    /\ out = [r \in Requests |-> out[r]]
    /\ \A r \in Requests: out[r] \in [1..Size(r) -> Outcomes]
    /\ node \in [Signers -> Nat] /\ submitted \subseteq Signers \X Nat \X Txs
    /\ bounds \in [ops: Nat, trouble: Nat]

ShapeOK == CommonOK /\ RowsOK /\ BatchesOK /\ TablesOK /\ LdbOK

(***************************************************************************)
(* ... of the Postgres store                                               *)
(***************************************************************************)

\* An operation is with the worker that its hash key selects.
RoutedOK ==
    \A w \in Workers:
        /\ \A i \in DOMAIN wk[w].ops: Routine(wk[w].ops[i]) = w
        /\ \A i \in DOMAIN queue[w]: queue[w][i].kind # "shutdown" => Routine(queue[w][i]) = w

\* The handler of a transaction waits for one update or delete at a time, ...
Awaited(op) == op.kind \in {"update", "delete"}
OneAwaited ==
    \A w \in Workers:
        LET ops == wk[w].ops
            q == queue[w]
        IN  /\ \A i \in DOMAIN ops: Awaited(ops[i]) => ops[i].tx \in busy
            /\ \A i \in DOMAIN q: Awaited(q[i]) => q[i].tx \in busy
            /\ \A i, j \in DOMAIN ops: Awaited(ops[i]) /\ Awaited(ops[j]) /\ ops[i].tx = ops[j].tx => i = j
            /\ \A i, j \in DOMAIN q: Awaited(q[i]) /\ Awaited(q[j]) /\ q[i].tx = q[j].tx => i = j
            /\ \A i \in DOMAIN ops, j \in DOMAIN q: Awaited(ops[i]) /\ Awaited(q[j]) => ops[i].tx # q[j].tx

\* ... so that what is to be updated is stored.
UpdatedExist ==
    \A w \in Workers:
        /\ \A i \in DOMAIN wk[w].ops: wk[w].ops[i].kind = "update" => Exists(wk[w].ops[i].tx)
        /\ \A i \in DOMAIN queue[w]: queue[w][i].kind = "update" => Exists(queue[w][i].tx)

\* A nonce is beyond those stored and those the node has taken.
Beyond(n, s) == n \in Nat /\ n >= node[s] /\ \A t \in Stored(s): rows[t].nonce < n

NoncesOK ==
    /\ \A t, u \in Txs: Exists(t) /\ Exists(u) /\ SignerOf[t] = SignerOf[u] /\ rows[t].nonce = rows[u].nonce => t = u
    /\ \A e \in submitted: e[2] < node[e[1]]
    /\ \A e \in submitted, t \in Txs: Exists(t) /\ SignerOf[t] = e[1] /\ rows[t].nonce = e[2] => e[3] = t
    /\ \A s \in Signers: nonceCache[s] # -1 => Beyond(nonceCache[s], s)
    /\ \A w \in Workers, s \in Signers: InFlight(w) /\ ValidFor(wk[w], s) # {} =>
         /\ Beyond(wk[w].nonces[s], s)
         /\ nonceCache[s] # -1 => nonceCache[s] = wk[w].nonces[s] + Cardinality(ValidFor(wk[w], s))

\* Every nonce below this one that the node has not taken was given out.
Covered(n, s) ==
    \A m \in node[s]..(n - 1): <<s, m>> \in deleted \/ \E u \in Stored(s): rows[u].nonce = m

\* A batch that is about to commit inserts what is not there, and only once.
InsertsNew(b) ==
    /\ \A i \in ValidInserts(b): ~Exists(b.ops[i].tx) /\ b.ops[i].tx \notin TxsOf(b.ops, "delete")
    /\ \A i, j \in ValidInserts(b): b.ops[i].tx = b.ops[j].tx => i = j

\* A cached nonce is covered, unless the batch it was reserved for has not ended.
Reserved(s) == \E w \in Workers: wk[w].pc \in {"write", "commit", "failed"} /\ ValidFor(wk[w], s) # {}
GapsOK ==
    /\ NoNonceGap
    /\ \A w \in Workers: wk[w].pc = "commit" => InsertsNew(wk[w])
    /\ \A w \in Workers, s \in Signers: InFlight(w) /\ ValidFor(wk[w], s) # {} => Covered(wk[w].nonces[s], s)
    /\ \A s \in Signers: nonceCache[s] # -1 => Covered(nonceCache[s], s) \/ Reserved(s)

\* A batch that is about to commit completions has the lock and the highest numbers.
CompletionsOK ==
    /\ \A c \in completions: c.seq < nextSeq
    /\ \A c, d \in completions: c.seq = d.seq => c = d
    /\ reader.after = 0 \/ \E c \in completions: c.seq = reader.after
    /\ \A w \in Workers: wk[w].pc = "commit" /\ Completes(wk[w]) # {} =>
         /\ lock = w /\ wk[w].seqs >= 1 /\ \A c \in completions: c.seq < wk[w].seqs
         /\ wk[w].seqs + Cardinality(NewCompletions(wk[w])) <= nextSeq
    /\ CompletionsNotMissed

PostgresInv == setup.store = "postgres" => RoutedOK /\ OneAwaited /\ UpdatedExist /\ NoncesOK /\ GapsOK

(***************************************************************************)
(* ... and of the LevelDB store                                            *)
(***************************************************************************)

\* An insert that has locked the nonce of its signer is alone with it, and the
\* nonce it uses is beyond every one stored, unless an index record was lost, and
\* beyond every record of the index.
AboveStored(n, s) == \A t \in Stored(s): rows[t].nonce < n \/ <<s, rows[t].nonce>> \in lost
InsertOK(r) ==
    LET s == SignerOf[Current(r)]
    IN  /\ ins[r].pc \in {"list", "clean", "nonce", "write", "complete"} => locked[s] = r
        /\ ins[r].pc \in {"clean", "nonce"} =>
             /\ ins[r].last >= -1 /\ AboveStored(ins[r].last + 1, s) /\ Covered(ins[r].last + 1, s)
             /\ \A e \in idx: e[1] = s => e[2] <= ins[r].last \/ (ins[r].pc = "clean" /\ <<s, e[2]>> \in ins[r].orphans)
        /\ ins[r].pc = "write" =>
             /\ ins[r].nonce >= 0 /\ AboveStored(ins[r].nonce, s) /\ Covered(ins[r].nonce, s)
             /\ \A e \in idx: e[1] = s => e[2] < ins[r].nonce

\* The index has one record for a nonce, and those of the stored transactions.  A
\* record that outlived its transaction has a lower nonce than a later one.
LdbIndexOK ==
    /\ \A e \in idx: SignerOf[e[3]] = e[1] /\ (Exists(e[3]) => e[2] <= rows[e[3]].nonce)
    /\ \A e, f \in idx: e[1] = f[1] /\ e[2] = f[2] => e = f
    /\ \A t \in Txs: Exists(t) => <<SignerOf[t], rows[t].nonce>> \in lost \/ <<SignerOf[t], rows[t].nonce, t>> \in idx

\* What the node took is still there, or was deleted.
SubmittedOK ==
    \A e \in submitted: <<e[1], e[2]>> \in deleted \/ (Exists(e[3]) /\ SignerOf[e[3]] = e[1] /\ rows[e[3]].nonce = e[2])

LevelDBInv == setup.store = "leveldb" => LdbIndexOK /\ SubmittedOK /\ NoNonceGap /\ \A r \in Requests: InsertOK(r)

StoreInv == ShapeOK /\ CompletionsOK /\ PostgresInv /\ LevelDBInv

(***************************************************************************)
(* Positions and numbers                                                   *)
(***************************************************************************)

LEMMA Smallest == ASSUME NEW S \in SUBSET Nat, S # {} PROVE \E m \in S: \A n \in S: m <= n
<1>1. PICK x \in S: \A y \in S: ~ (<<y, x>> \in OpToRel(<, Nat))
  BY WFMin, NatLessThanWellFounded, Zenon
<1>2. \A y \in S: ~(y < x) BY <1>1 DEF OpToRel
<1> QED BY <1>2

\* The highest of some numbers that are bounded.
LEMMA Largest ==
    ASSUME NEW S \in SUBSET Nat, S # {}, NEW k \in Nat, \A n \in S: n <= k PROVE \E m \in S: \A n \in S: n <= m
<1> DEFINE T == {j \in Nat: \A n \in S: n <= j}
<1>1. T \in SUBSET Nat /\ T # {} OBVIOUS
<1>2. PICK j \in T: \A i \in T: j <= i BY <1>1, Smallest
<1>3. j \in S
  <2> SUFFICES ASSUME j \notin S PROVE FALSE OBVIOUS
  <2>1. PICK x \in S: TRUE OBVIOUS
  <2>2. j >= 1 /\ j \in Nat BY <1>2, <2>1
  <2>3. \A n \in S: n <= j - 1 BY <1>2
  <2>4. j - 1 \in T BY <2>2, <2>3
  <2> QED BY <1>2, <2>2, <2>4
<1> QED BY <1>2, <1>3

\* Before counts up to the size of the set, and tells its members apart.
LEMMA BeforeRank ==
    ASSUME NEW n \in Nat, NEW S \in SUBSET (1..n)
    PROVE  /\ IsFiniteSet(S) /\ Cardinality(S) \in Nat
           /\ \A i \in S: Before(S, i) \in Nat /\ Before(S, i) < Cardinality(S)
           /\ \A i, j \in S: i # j => Before(S, i) # Before(S, j)
<1>0. IsFiniteSet(1..n) BY FS_Interval
<1>1. IsFiniteSet(S) /\ Cardinality(S) \in Nat BY <1>0, FS_Subset, FS_CardinalityType
<1>2. ASSUME NEW i \in S PROVE Before(S, i) \in Nat /\ Before(S, i) < Cardinality(S)
  <2> DEFINE T == {j \in S: j < i}
  <2>1. T \in SUBSET S /\ T # S OBVIOUS
  <2>2. IsFiniteSet(T) /\ Cardinality(T) <= Cardinality(S) /\ Cardinality(T) # Cardinality(S) BY <1>1, <2>1, FS_Subset
  <2>3. Cardinality(T) \in Nat BY <2>2, FS_CardinalityType
  <2> HIDE DEF T
  <2>4. Cardinality(T) < Cardinality(S) BY <1>1, <2>2, <2>3
  <2> QED BY <2>3, <2>4 DEF Before, T
<1>3. ASSUME NEW i \in S, NEW j \in S, i < j PROVE Before(S, i) # Before(S, j)
  <2> DEFINE T == {k \in S: k < i}
             U == {k \in S: k < j}
  <2>0. \A k \in S: k \in Int OBVIOUS
  <2>a. \A k \in S: k < i => k < j BY <1>3, <2>0
  <2>1. T \in SUBSET U /\ U \in SUBSET S /\ i \in U BY <1>3, <2>a
  <2>b. i \notin T BY <2>0
  <2>2. IsFiniteSet(U) BY <1>1, <2>1, FS_Subset
  <2>3. Cardinality(T) # Cardinality(U) BY <2>1, <2>2, <2>b, FS_Subset
  <2> QED BY <2>3 DEF Before
<1>4. \A i, j \in S: i # j => i < j \/ j < i OBVIOUS
<1> QED BY <1>1, <1>2, <1>3, <1>4

\* What a setup says of the requests.
LEMMA SetupOK ==
    ASSUME setup \in Setups
    PROVE  /\ \A r \in Requests: Size(r) \in Nat /\ \A i \in 1..Size(r): TxAt(r, i) \in Txs
           /\ setup.kinds \subseteq Kinds \ {"insert"}
<1>1. ASSUME NEW r \in Requests PROVE Size(r) \in Nat /\ \A i \in 1..Size(r): TxAt(r, i) \in Txs
  <2>1. setup.inserts[r].txs \in Seq(Txs) BY SetupsAssumption
  <2> QED BY <2>1 DEF Size, TxAt
<1> QED BY <1>1, SetupsAssumption DEF Kinds

LEMMA NextStoredOK ==
    ASSUME RowsOK, NEW s \in Signers
    PROVE  /\ NextStored(s) \in Nat /\ \A t \in Stored(s): rows[t].nonce < NextStored(s)
           /\ NextStored(s) = 0 \/ \E t \in Stored(s): NextStored(s) = rows[t].nonce + 1
<1> DEFINE nonces == {rows[t].nonce: t \in Stored(s)}
           top == CHOOSE n \in nonces: \A m \in nonces: m <= n
<1>1. nonces \in SUBSET Nat BY DEF RowsOK, Stored
<1>2. PICK k \in Nat: \A n \in nonces: n <= k BY DEF RowsOK
<1>3. CASE nonces = {}
  <2>1. NextStored(s) = 0 BY <1>3 DEF NextStored
  <2> QED BY <1>3, <2>1
<1>4. CASE nonces # {}
  <2>1. \E n \in nonces: \A m \in nonces: m <= n
    <3> HIDE DEF nonces
    <3> QED BY <1>1, <1>2, <1>4, Largest
  <2>2. top \in nonces /\ \A m \in nonces: m <= top BY <2>1
  <2>3. NextStored(s) = 1 + top BY <1>4 DEF NextStored
  <2>4. \A t \in Stored(s): rows[t].nonce \in nonces OBVIOUS
  <2>a. \E t \in Stored(s): top = rows[t].nonce BY <2>2
  <2> HIDE DEF nonces, top
  <2>b. \E t \in Stored(s): NextStored(s) = rows[t].nonce + 1 BY <1>1, <2>2, <2>3, <2>a
  <2>5. top \in Nat BY <1>1, <2>2
  <2>6. \A t \in Stored(s): rows[t].nonce \in Nat /\ rows[t].nonce <= top BY <1>1, <2>2, <2>4
  <2>7. NextStored(s) \in Nat BY <2>3, <2>5
  <2>8. \A t \in Stored(s): rows[t].nonce < NextStored(s) BY <2>3, <2>5, <2>6
  <2> QED BY <2>7, <2>8, <2>b
<1> QED BY <1>3, <1>4

LEMMA NonceForOK ==
    ASSUME RowsOK, nonceCache \in [Signers -> Int], node \in [Signers -> Nat], NEW s \in Signers, NEW expired \in BOOLEAN
    PROVE  NonceFor(s, expired) \in Int
<1>1. NextStored(s) \in Nat BY NextStoredOK
<1> QED BY <1>1 DEF NonceFor

LEMMA LastNonceOK ==
    ASSUME LdbOK, RowsOK, NEW s \in Signers
    PROVE  /\ LastNonce(s) \in Int /\ LastNonce(s) >= -1
           /\ Resolved(s) # {} =>
                /\ LastEntry(s) \in Resolved(s) /\ \A f \in Resolved(s): f[2] <= LastEntry(s)[2]
                /\ LastNonce(s) = rows[LastEntry(s)[3]].nonce
           /\ Resolved(s) = {} => LastNonce(s) = -1
<1> DEFINE keys == {e[2]: e \in Resolved(s)}
<1>1. \A e \in Resolved(s): e \in Signers \X Nat \X Txs /\ Exists(e[3]) BY DEF LdbOK, Resolved
<1>2. keys \in SUBSET Nat BY <1>1
<1>3. PICK k \in Nat: \A n \in keys: n <= k
  <2>1. PICK k \in Nat: \A e \in idx: e[1] = s => e[2] <= k BY DEF LdbOK
  <2> QED BY <2>1 DEF Resolved
<1>4. CASE Resolved(s) = {} BY <1>4 DEF LastNonce
<1>5. CASE Resolved(s) # {}
  <2>1. keys # {} BY <1>5
  <2>2. PICK n \in keys: \A m \in keys: m <= n
    <3> HIDE DEF keys
    <3> QED BY <1>2, <1>3, <2>1, Largest
  <2>3. \E e \in Resolved(s): \A f \in Resolved(s): f[2] <= e[2] BY <2>2
  <2>4. LastEntry(s) \in Resolved(s) /\ \A f \in Resolved(s): f[2] <= LastEntry(s)[2] BY <2>3 DEF LastEntry
  <2>5. LastNonce(s) = rows[LastEntry(s)[3]].nonce BY <1>5 DEF LastNonce
  <2>6. LastEntry(s)[3] \in Txs /\ Exists(LastEntry(s)[3]) BY <1>1, <2>4
  <2>7. rows[LastEntry(s)[3]].nonce \in Nat BY <2>6 DEF RowsOK
  <2> QED BY <1>5, <2>4, <2>5, <2>7
<1> QED BY <1>4, <1>5

(***************************************************************************)
(* Type correctness                                                        *)
(***************************************************************************)

\* A worker goes on to another phase with its batch.
LEMMA MoveType ==
    ASSUME BatchesOK, NEW w \in Workers, NEW pc \in WorkerPCs \ {"collect"}, UNCHANGED queue, wk' = [wk EXCEPT ![w].pc = pc],
           pc \in {"write", "commit"} => wk[w].nonces \in [Signers -> Int]
    PROVE  BatchesOK'
<1>1. wk \in [Workers -> Worker] /\ queue \in [Workers -> Seq(Operation \cup {Shutdown})] BY DEF BatchesOK
<1>2. wk' \in [Workers -> Worker] BY <1>1 DEF Worker
<1>3. /\ \A v \in Workers: wk'[v].ops = wk[v].ops /\ wk'[v].nonces = wk[v].nonces
      /\ \A v \in Workers \ {w}: wk'[v].pc = wk[v].pc
      /\ wk'[w].pc = pc
  BY <1>1 DEF Worker
<1>4. ASSUME NEW v \in Workers
      PROVE  /\ Len(queue'[v]) <= BatchMaxSize /\ Len(wk'[v].ops) <= BatchMaxSize
             /\ wk'[v].pc = "collect" => Len(wk'[v].ops) < BatchMaxSize
             /\ InFlight(v)' => wk'[v].nonces \in [Signers -> Int]
  BY <1>3 DEF BatchesOK, InFlight
<1> QED BY <1>1, <1>2, <1>4 DEF BatchesOK

\* A batch takes on another form.
LEMMA BatchType ==
    ASSUME BatchesOK, NEW w \in Workers, NEW b \in Worker, wk' = [wk EXCEPT ![w] = b],
           queue' \in [Workers -> Seq(Operation \cup {Shutdown})], \A v \in Workers: Len(queue'[v]) <= BatchMaxSize,
           Len(b.ops) <= BatchMaxSize, b.pc = "collect" => Len(b.ops) < BatchMaxSize,
           b.pc \in {"write", "commit"} => b.nonces \in [Signers -> Int]
    PROVE  BatchesOK'
<1>1. wk' \in [Workers -> Worker] BY DEF BatchesOK
<1>2. \A v \in Workers \ {w}: wk'[v] = wk[v] BY DEF BatchesOK
<1>3. wk'[w] = b BY DEF BatchesOK
<1>4. ASSUME NEW v \in Workers
      PROVE  /\ Len(wk'[v].ops) <= BatchMaxSize
             /\ wk'[v].pc = "collect" => Len(wk'[v].ops) < BatchMaxSize
             /\ InFlight(v)' => wk'[v].nonces \in [Signers -> Int]
  BY <1>2, <1>3 DEF BatchesOK, InFlight
<1> QED BY <1>1, <1>4 DEF BatchesOK

LEMMA IdleType == \A pc \in WorkerPCs: IdleWorker(pc) \in Worker /\ IdleWorker(pc).ops = << >> /\ IdleWorker(pc).pc = pc
BY DEF IdleWorker, Worker

\* A queue that has room takes an operation.
LEMMA QueueType ==
    ASSUME BatchesOK, NEW w \in Workers, NEW op \in Operation \cup {Shutdown}, Len(queue[w]) < BatchMaxSize,
           queue' = [queue EXCEPT ![w] = Append(@, op)], UNCHANGED wk
    PROVE  BatchesOK'
<1>1. queue \in [Workers -> Seq(Operation \cup {Shutdown})] BY DEF BatchesOK
<1>2. queue[w] \in Seq(Operation \cup {Shutdown}) BY <1>1
<1>3. Append(queue[w], op) \in Seq(Operation \cup {Shutdown}) /\ Len(Append(queue[w], op)) = Len(queue[w]) + 1 BY <1>2
<1>4. queue' \in [Workers -> Seq(Operation \cup {Shutdown})] BY <1>1, <1>3
<1>5. BatchMaxSize \in Nat BY WriterAssumption
<1>6. \A v \in Workers: Len(queue'[v]) <= BatchMaxSize BY <1>1, <1>2, <1>3, <1>5 DEF BatchesOK
<1> QED BY <1>4, <1>6 DEF BatchesOK, InFlight

\* What does not change keeps its type.
LEMMA ShapeFrames ==
    ASSUME ShapeOK
    PROVE  /\ UNCHANGED <<setup, ldbVars>> => LdbOK'
           /\ UNCHANGED rows => RowsOK'
           /\ UNCHANGED <<queue, wk>> => BatchesOK'
           /\ UNCHANGED <<setup, out, node, submitted, bounds>> => CommonOK'
           /\ UNCHANGED <<cacheVars, dbVars, reader, busy>> => TablesOK'
           /\ Trouble \/ CountOp => bounds' \in [ops: Nat, trouble: Nat]
<1>1. UNCHANGED <<setup, ldbVars>> => LdbOK' BY DEF ShapeOK, LdbOK, ldbVars, Size
<1>2. UNCHANGED rows => RowsOK' BY DEF ShapeOK, RowsOK, Exists, Stored
<1>3. UNCHANGED <<queue, wk>> => BatchesOK' BY DEF ShapeOK, BatchesOK, InFlight
<1>4. UNCHANGED <<setup, out, node, submitted, bounds>> => CommonOK' BY DEF ShapeOK, CommonOK, Size
<1>5. UNCHANGED <<cacheVars, dbVars, reader, busy>> => TablesOK' BY DEF ShapeOK, TablesOK, cacheVars, dbVars
<1>6. Trouble \/ CountOp => bounds' \in [ops: Nat, trouble: Nat] BY DEF ShapeOK, CommonOK, Trouble, CountOp
<1> QED BY <1>1, <1>2, <1>3, <1>4, <1>5, <1>6

\* Answers that are outcomes.
LEMMA OutType ==
    ASSUME CommonOK, UNCHANGED <<setup, node, submitted>>, bounds' \in [ops: Nat, trouble: Nat],
           NEW o, o = [r \in Requests |-> [i \in 1..Size(r) |-> o[r][i]]], \A r \in Requests: \A i \in 1..Size(r): o[r][i] \in Outcomes,
           out' = o
    PROVE  CommonOK'
<1>1. \A r \in Requests: Size(r)' = Size(r) BY DEF Size
<1>2. \A r \in Requests: o[r] \in [1..Size(r) -> Outcomes] OBVIOUS
<1>3. o = [r \in Requests |-> o[r]] OBVIOUS
<1> QED BY <1>1, <1>2, <1>3 DEF CommonOK

\* What the requests and the handlers queue.
LEMMA InsertQueued ==
    ASSUME ShapeOK, NEW r \in Requests, QueueInsert(r)
    PROVE  \E i \in 1..Size(r): \E op \in Operation:
             /\ op.kind = "insert" /\ op.tx = TxAt(r, i) /\ op.arg = <<r, i>> /\ out[r][i] = "idle"
             /\ Routine(op) \in Workers /\ Queue(op)
             /\ \E x \in {"waiting", "late"}: out' = [out EXCEPT ![r][i] = x]
             /\ UNCHANGED <<setup, rows, node, submitted, deleted, bounds, wk, cacheVars, dbVars, reader, busy, stop>>
<1>1. PICK i \in 1..Size(r):
        /\ Queue(Op("insert", TxAt(r, i), <<r, i>>)) /\ out[r][i] = "idle"
        /\ out' = [out EXCEPT ![r][i] = IF stop = 0 THEN "waiting" ELSE "late"]
        /\ UNCHANGED <<setup, rows, node, submitted, deleted, bounds, wk, cacheVars, dbVars, reader, busy, stop>>
  BY DEF QueueInsert
<1>2. TxAt(r, i) \in Txs /\ Size(r) \in Nat BY SetupOK DEF ShapeOK, CommonOK
<1> DEFINE op == Op("insert", TxAt(r, i), <<r, i>>)
<1>3. op \in Operation /\ op.tx = TxAt(r, i) /\ op.kind = "insert" /\ op.arg = <<r, i>> BY <1>2 DEF Op, Operation, Kinds, Argument
<1>4. Routine(op) \in Workers BY <1>2, <1>3, WriterAssumption, SignerAssumption DEF Routine
<1>5. \E x \in {"waiting", "late"}: out' = [out EXCEPT ![r][i] = x] BY <1>1
<1>6. Queue(op) BY <1>1
<1> HIDE DEF op
<1> QED BY <1>1, <1>3, <1>4, <1>5, <1>6

LEMMA WriteQueued ==
    ASSUME ShapeOK, NEW t \in Txs, QueueWrite(t)
    PROVE  /\ \E op \in Operation:
                /\ op.kind # "insert" /\ op.tx = t
                /\ Routine(op) \in Workers /\ Queue(op)
                /\ busy' = IF op.kind \in {"update", "delete"} THEN busy \cup {t} ELSE busy
           /\ Exists(t) /\ t \notin busy /\ CountOp /\ UNCHANGED <<storeVars, wk, cacheVars, dbVars, reader, stop>>
<1>a. PICK kind \in setup.kinds: \E arg \in Args(kind):
        /\ Queue(Op(kind, t, arg))
        /\ busy' = IF kind \in {"update", "delete"} THEN busy \cup {t} ELSE busy
  BY DEF QueueWrite
<1>1. PICK arg \in Args(kind):
        /\ Queue(Op(kind, t, arg))
        /\ busy' = IF kind \in {"update", "delete"} THEN busy \cup {t} ELSE busy
  BY <1>a
<1>2. Exists(t) /\ t \notin busy /\ CountOp /\ UNCHANGED <<storeVars, wk, cacheVars, dbVars, reader, stop>> BY DEF QueueWrite
<1>3. kind \in Kinds \ {"insert"} BY <1>a, SetupOK DEF ShapeOK, CommonOK
<1>4. bounds.ops \in Nat BY DEF ShapeOK, CommonOK
<1>5. arg \in Argument
  <2>1. Args(kind) \subseteq Argument
    <3>1. CASE kind = "update" BY <3>1 DEF Args, Argument
    <3>2. CASE kind = "history" BY <3>2 DEF Args, Argument
    <3>3. CASE kind = "confirmation" BY <1>4, <3>3 DEF Args, Argument
    <3>4. CASE kind \in {"delete", "receipt"} BY <1>4, <3>4 DEF Args, Argument
    <3> QED BY <1>3, <3>1, <3>2, <3>3, <3>4 DEF Kinds
  <2> QED BY <1>1, <2>1
<1> DEFINE op == Op(kind, t, arg)
<1>6. op \in Operation /\ op.tx = t /\ op.kind = kind BY <1>3, <1>5 DEF Op, Operation
<1>7. Routine(op) \in Workers BY <1>3, <1>6, WriterAssumption, SignerAssumption DEF Routine
<1>8. Queue(op) BY <1>1
<1> HIDE DEF op
<1> QED BY <1>1, <1>2, <1>3, <1>6, <1>7, <1>8

LEMMA QueueSteps ==
    ASSUME ShapeOK, UNCHANGED ldbVars, NEW r, NEW t, (r \in Requests /\ QueueInsert(r)) \/ (t \in Txs /\ QueueWrite(t)) PROVE ShapeOK'
<1> USE DEF storeVars
<1>0. CommonOK /\ RowsOK /\ BatchesOK /\ TablesOK /\ LdbOK BY DEF ShapeOK
<1>1. ASSUME r \in Requests, QueueInsert(r) PROVE ShapeOK'
  <2>1. PICK i \in 1..Size(r), op \in Operation, x \in {"waiting", "late"}:
          /\ Routine(op) \in Workers /\ Queue(op) /\ out' = [out EXCEPT ![r][i] = x]
          /\ UNCHANGED <<setup, rows, node, submitted, deleted, bounds, wk, cacheVars, dbVars, reader, busy, stop>>
    BY <1>1, InsertQueued
  <2>2. BatchesOK' BY <1>0, <2>1, QueueType DEF Queue
  <2>3. CommonOK'
    <3>1. \A q \in Requests: out[q] \in [1..Size(q) -> Outcomes] BY <1>0 DEF CommonOK
    <3>2. out = [q \in Requests |-> out[q]] BY <1>0 DEF CommonOK
    <3>3. out' = [q \in Requests |-> IF q = r THEN [out[r] EXCEPT ![i] = x] ELSE out[q]] BY <1>1, <2>1, <3>2
    <3>4. [out[r] EXCEPT ![i] = x] \in [1..Size(r) -> Outcomes] BY <1>1, <3>1 DEF Outcomes
    <3>5. \A q \in Requests: out'[q] \in [1..Size(q) -> Outcomes] BY <3>1, <3>3, <3>4
    <3>6. out' = [q \in Requests |-> out'[q]] BY <3>3
    <3> QED BY <1>0, <2>1, <3>5, <3>6 DEF CommonOK, Size
  <2> QED BY <2>1, <2>2, <2>3, ShapeFrames DEF ShapeOK
<1>2. ASSUME t \in Txs, QueueWrite(t) PROVE ShapeOK'
  <2>1. PICK op \in Operation:
          /\ Routine(op) \in Workers /\ Queue(op)
          /\ busy' = IF op.kind \in {"update", "delete"} THEN busy \cup {t} ELSE busy
    BY <1>2, WriteQueued
  <2>2. CountOp /\ UNCHANGED <<storeVars, wk, cacheVars, dbVars, reader, stop>> BY <1>2, WriteQueued
  <2>3. BatchesOK' BY <1>0, <2>1, <2>2, QueueType DEF Queue
  <2>4. TablesOK' BY <1>0, <1>2, <2>1, <2>2 DEF TablesOK, cacheVars, dbVars
  <2>5. CommonOK' BY <1>0, <2>2, ShapeFrames DEF CommonOK, Size
  <2> QED BY <2>2, <2>3, <2>4, <2>5, ShapeFrames DEF ShapeOK
<1> QED BY <1>1, <1>2

\* The inserts of a batch have numbers that are all different.
LEMMA AssignedOK ==
    ASSUME ShapeOK, NEW w \in Workers, InFlight(w)
    PROVE  /\ \A s \in Signers: IsFiniteSet(ValidFor(wk[w], s)) /\ Cardinality(ValidFor(wk[w], s)) \in Nat
           /\ \A i \in ValidInserts(wk[w]):
                LET s == SignerOf[wk[w].ops[i].tx]
                    n == AssignedNonce(wk[w], i)
                IN  /\ wk[w].ops[i] \in Operation /\ s \in Signers /\ i \in ValidFor(wk[w], s)
                    /\ wk[w].nonces[s] \in Int
                    /\ n \in Int /\ n >= wk[w].nonces[s] /\ n < wk[w].nonces[s] + Cardinality(ValidFor(wk[w], s))
           /\ \A i, j \in ValidInserts(wk[w]):
                /\ SignerOf[wk[w].ops[i].tx] = SignerOf[wk[w].ops[j].tx]
                /\ AssignedNonce(wk[w], i) = AssignedNonce(wk[w], j)
                => i = j
<1> DEFINE b == wk[w]
<1>0. b \in Worker /\ b.nonces \in [Signers -> Int] BY DEF ShapeOK, BatchesOK
<1>1. b.ops \in Seq(Operation) BY <1>0 DEF Worker
<1>2. Len(b.ops) \in Nat /\ DOMAIN b.ops = 1..Len(b.ops) /\ \A i \in DOMAIN b.ops: b.ops[i] \in Operation BY <1>1
<1>3. \A s \in Signers: ValidFor(b, s) \in SUBSET (1..Len(b.ops)) BY <1>2 DEF ValidFor, ValidInserts
<1>4. \A s \in Signers: IsFiniteSet(ValidFor(b, s)) /\ Cardinality(ValidFor(b, s)) \in Nat BY <1>2, <1>3, BeforeRank
<1>5. ASSUME NEW i \in ValidInserts(b)
      PROVE  LET s == SignerOf[b.ops[i].tx]
                 n == AssignedNonce(b, i)
             IN  /\ b.ops[i] \in Operation /\ s \in Signers /\ i \in ValidFor(b, s) /\ b.nonces[s] \in Int
                 /\ n \in Int /\ n >= b.nonces[s] /\ n < b.nonces[s] + Cardinality(ValidFor(b, s))
  <2> DEFINE s == SignerOf[b.ops[i].tx]
  <2>1. b.ops[i] \in Operation BY <1>2 DEF ValidInserts
  <2>2. s \in Signers BY <2>1, SignerAssumption DEF Operation
  <2>3. i \in ValidFor(b, s) BY DEF ValidFor
  <2>4. Before(ValidFor(b, s), i) \in Nat /\ Before(ValidFor(b, s), i) < Cardinality(ValidFor(b, s))
    BY <1>2, <1>3, <2>2, <2>3, BeforeRank
  <2>5. AssignedNonce(b, i) = b.nonces[s] + Before(ValidFor(b, s), i) BY DEF AssignedNonce
  <2>6. b.nonces[s] \in Int /\ Cardinality(ValidFor(b, s)) \in Nat BY <1>0, <1>4, <2>2
  <2> HIDE DEF b, s
  <2>7. /\ AssignedNonce(b, i) \in Int /\ AssignedNonce(b, i) >= b.nonces[s]
        /\ AssignedNonce(b, i) < b.nonces[s] + Cardinality(ValidFor(b, s))
    BY <2>4, <2>5, <2>6
  <2> QED BY <2>1, <2>2, <2>3, <2>6, <2>7 DEF s
<1>6. ASSUME NEW i \in ValidInserts(b), NEW j \in ValidInserts(b), SignerOf[b.ops[i].tx] = SignerOf[b.ops[j].tx],
             AssignedNonce(b, i) = AssignedNonce(b, j)
      PROVE  i = j
  <2> DEFINE s == SignerOf[b.ops[i].tx]
             V == ValidFor(b, s)
  <2>1. s \in Signers /\ i \in V /\ j \in V /\ b.nonces[s] \in Int BY <1>5, <1>6
  <2>2. V \in SUBSET (1..Len(b.ops)) BY <1>3, <2>1
  <2>3. AssignedNonce(b, i) = b.nonces[s] + Before(V, i) /\ AssignedNonce(b, j) = b.nonces[s] + Before(V, j)
    BY <1>6 DEF AssignedNonce
  <2> HIDE DEF V, s, b
  <2>4. Before(V, i) \in Nat /\ Before(V, j) \in Nat BY <1>2, <2>1, <2>2, BeforeRank
  <2>a. b.nonces[s] + Before(V, i) = b.nonces[s] + Before(V, j) BY <1>6, <2>3
  <2>5. Before(V, i) = Before(V, j) BY <2>1, <2>4, <2>a
  <2> QED BY <1>2, <2>1, <2>2, <2>5, BeforeRank
<1> QED BY <1>4, <1>5, <1>6

LEMMA NewCompletionsOK ==
    ASSUME ShapeOK, NEW w \in Workers
    PROVE  LET new == NewCompletions(wk[w])
           IN  /\ IsFiniteSet(new) /\ Cardinality(new) \in Nat
               /\ \A i \in new: Before(new, i) \in Nat /\ Before(new, i) < Cardinality(new) /\ wk[w].ops[i].tx \in Txs
               /\ \A i, j \in new: i # j => Before(new, i) # Before(new, j)
<1>1. wk[w].ops \in Seq(Operation) BY DEF ShapeOK, BatchesOK, Worker
<1>2. Len(wk[w].ops) \in Nat /\ DOMAIN wk[w].ops = 1..Len(wk[w].ops) /\ \A i \in DOMAIN wk[w].ops: wk[w].ops[i] \in Operation
  BY <1>1
<1> DEFINE new == NewCompletions(wk[w])
<1>3. new \in SUBSET (1..Len(wk[w].ops)) BY <1>2 DEF NewCompletions, Completes
<1>4. \A i \in new: wk[w].ops[i].tx \in Txs BY <1>2, <1>3 DEF Operation
<1> HIDE DEF new
<1>5. /\ IsFiniteSet(new) /\ Cardinality(new) \in Nat
      /\ \A i \in new: Before(new, i) \in Nat /\ Before(new, i) < Cardinality(new)
      /\ \A i, j \in new: i # j => Before(new, i) # Before(new, j)
  BY <1>2, <1>3, BeforeRank
<1> QED BY <1>4, <1>5 DEF new

\* What becomes of a record when its batch commits.
LEMMA RowAfterOK ==
    ASSUME ShapeOK, UpdatedExist, NEW w \in Workers, wk[w].pc = "commit", NEW t \in Txs
    PROVE  LET n == RowAfter(wk[w], t)
           IN  /\ n \in [nonce: Int, status: {"None", "Pending", "Succeeded"}, hash: BOOLEAN]
               /\ t \in TxsOf(wk[w].ops, "delete") => n = NoRow
               /\ t \notin TxsOf(wk[w].ops, "delete") =>
                    \/ \E i \in ValidInserts(wk[w]): wk[w].ops[i].tx = t /\ n.nonce = AssignedNonce(wk[w], i)
                    \/ (\A i \in ValidInserts(wk[w]): wk[w].ops[i].tx # t) /\ IF Exists(t) THEN n.nonce = rows[t].nonce ELSE n = NoRow
<1> DEFINE b == wk[w]
           Row == [nonce: Int, status: {"None", "Pending", "Succeeded"}, hash: BOOLEAN]
           inserted == {i \in ValidInserts(b): b.ops[i].tx = t}
           row == IF inserted # {} THEN NewRow(AssignedNonce(b, CHOOSE i \in inserted: TRUE)) ELSE rows[t]
           sets(v) == \E op \in OpsOf(b.ops, "update"): op.tx = t /\ op.arg = v
           h == row.hash \/ sets("hash")
           n == [row EXCEPT !.hash = @ \/ sets("hash"), !.status = IF sets("Succeeded") THEN "Succeeded" ELSE @]
<1>0. rows[t] \in Row /\ NoRow \in Row BY DEF ShapeOK, RowsOK, NoRow
<1>1. RowAfter(b, t) = IF t \in TxsOf(b.ops, "delete") THEN NoRow ELSE n BY DEF RowAfter
<1>2. row \in Row
  <2>1. CASE inserted = {} BY <1>0, <2>1
  <2>2. CASE inserted # {}
    <3>1. (CHOOSE i \in inserted: TRUE) \in ValidInserts(b) BY <2>2
    <3>2. AssignedNonce(b, CHOOSE i \in inserted: TRUE) \in Int BY <3>1, AssignedOK DEF InFlight
    <3> QED BY <2>2, <3>2 DEF NewRow
  <2> QED BY <2>1, <2>2
<1>3. sets("hash") \in BOOLEAN /\ sets("Succeeded") \in BOOLEAN OBVIOUS
<1>4. n \in Row /\ n.nonce = row.nonce
  <2> HIDE DEF row, sets
  <2> QED BY <1>2, <1>3
<1>5. CASE t \in TxsOf(b.ops, "delete") BY <1>0, <1>1, <1>5
<1>6. CASE t \notin TxsOf(b.ops, "delete") /\ inserted # {}
  <2> DEFINE i == CHOOSE j \in inserted: TRUE
  <2>1. i \in ValidInserts(b) /\ b.ops[i].tx = t BY <1>6
  <2>2. row.nonce = AssignedNonce(b, i) BY <1>6 DEF NewRow
  <2>3. RowAfter(b, t) = n BY <1>1, <1>6
  <2> HIDE DEF n, row, i
  <2> QED BY <1>4, <1>6, <2>1, <2>2, <2>3
<1>7. CASE t \notin TxsOf(b.ops, "delete") /\ inserted = {} /\ Exists(t)
  <2>1. RowAfter(b, t) = n /\ row.nonce = rows[t].nonce BY <1>1, <1>7
  <2> HIDE DEF n, row
  <2> QED BY <1>4, <1>7, <2>1
<1>8. CASE t \notin TxsOf(b.ops, "delete") /\ inserted = {} /\ ~Exists(t)
  <2>1. ~sets("hash") /\ ~sets("Succeeded")
    <3>1. \A i \in DOMAIN b.ops: b.ops[i].kind = "update" => b.ops[i].tx # t BY <1>8 DEF UpdatedExist
    <3> QED BY <3>1 DEF OpsOf, Range
  <2>2. row = NoRow BY <1>8 DEF Exists
  <2>3. n = NoRow
    <3>1. sets("hash") = FALSE /\ sets("Succeeded") = FALSE BY <1>3, <2>1
    <3>2. n = [NoRow EXCEPT !.hash = @ \/ FALSE, !.status = IF FALSE THEN "Succeeded" ELSE @]
      <4> HIDE DEF row, sets
      <4> QED BY <2>2, <3>1
    <3> HIDE DEF n
    <3> QED BY <3>2 DEF NoRow
  <2> QED BY <1>0, <1>1, <1>8, <2>3
<1> QED BY <1>5, <1>6, <1>7, <1>8

\* Collect takes the next operation: it is not the one that asks to stop, unless it says so.
LEMMA CollectType ==
    ASSUME BatchesOK, NEW w \in Workers, Collect(w)
    PROVE  /\ BatchesOK'
           /\ DOMAIN queue[w] = 1..Len(queue[w]) /\ Len(queue[w]) \in Nat \ {0} /\ queue' = [queue EXCEPT ![w] = Tail(@)]
           /\ wk'[w].ops = IF queue[w][1].kind = "shutdown" THEN wk[w].ops ELSE Append(wk[w].ops, queue[w][1])
           /\ wk[w].pc = "collect" /\ wk'[w].pc \in {"collect", "prepare", "done"}
           /\ wk[w].ops \in Seq(Operation) /\ queue[w] \in Seq(Operation \cup {Shutdown})
           /\ queue[w][1].kind # "shutdown" => queue[w][1] \in Operation
           /\ \A v \in Workers \ {w}: wk'[v] = wk[v] /\ queue'[v] = queue[v]
<1> DEFINE op == Head(queue[w])
           ops == Append(wk[w].ops, op)
<1>0. /\ wk[w] \in Worker /\ wk[w].ops \in Seq(Operation) /\ queue[w] \in Seq(Operation \cup {Shutdown})
      /\ queue \in [Workers -> Seq(Operation \cup {Shutdown})] /\ wk \in [Workers -> Worker]
      /\ \A v \in Workers: Len(queue[v]) <= BatchMaxSize
      /\ wk[w].pc = "collect" => Len(wk[w].ops) < BatchMaxSize
  BY DEF BatchesOK, Worker
<1>1. /\ wk[w].pc = "collect" /\ queue[w] # << >> /\ queue' = [queue EXCEPT ![w] = Tail(@)]
      /\ op.kind = "shutdown" => wk' = [wk EXCEPT ![w] = [@ EXCEPT !.closing = TRUE, !.pc = IF wk[w].ops = << >> THEN "done" ELSE "prepare"]]
      /\ op.kind # "shutdown" => wk' = [wk EXCEPT ![w] = [@ EXCEPT !.ops = ops, !.pc = IF Len(ops) >= BatchMaxSize THEN "prepare" ELSE "collect"]]
  BY DEF Collect
<1>2. BatchMaxSize \in Nat \ {0} BY WriterAssumption
<1>3. Len(queue[w]) \in Nat \ {0} /\ DOMAIN queue[w] = 1..Len(queue[w]) /\ op = queue[w][1] /\ op \in Operation \cup {Shutdown}
  BY <1>0, <1>1
<1>4. Tail(queue[w]) \in Seq(Operation \cup {Shutdown}) /\ Len(Tail(queue[w])) = Len(queue[w]) - 1 BY <1>0, <1>1
<1>5. queue' \in [Workers -> Seq(Operation \cup {Shutdown})] BY <1>0, <1>1, <1>4
<1>6. \A v \in Workers: Len(queue'[v]) <= BatchMaxSize BY <1>0, <1>1, <1>2, <1>3, <1>4
<1>7. op.kind # "shutdown" => op \in Operation BY <1>3 DEF Shutdown
<1>8. CASE op.kind = "shutdown"
  <2> DEFINE b == [wk[w] EXCEPT !.closing = TRUE, !.pc = IF wk[w].ops = << >> THEN "done" ELSE "prepare"]
  <2>1. b \in Worker /\ b.ops = wk[w].ops /\ b.pc \in {"done", "prepare"} BY <1>0 DEF Worker, WorkerPCs
  <2>2. wk' = [wk EXCEPT ![w] = b] BY <1>1, <1>8
  <2> HIDE DEF b
  <2>3. Len(b.ops) <= BatchMaxSize BY <1>0, <1>1, <1>2, <2>1
  <2>4. BatchesOK' BY <1>5, <1>6, <2>1, <2>2, <2>3, BatchType
  <2>5. wk'[w] = b BY <1>0, <2>2
  <2>6. \A v \in Workers \ {w}: wk'[v] = wk[v] /\ queue'[v] = queue[v] BY <1>0, <1>1, <2>2
  <2> QED BY <1>0, <1>1, <1>3, <1>7, <1>8, <2>1, <2>4, <2>5, <2>6
<1>9. CASE op.kind # "shutdown"
  <2> DEFINE b == [wk[w] EXCEPT !.ops = ops, !.pc = IF Len(ops) >= BatchMaxSize THEN "prepare" ELSE "collect"]
  <2>1. ops \in Seq(Operation) /\ Len(ops) = Len(wk[w].ops) + 1 BY <1>0, <1>7, <1>9
  <2>a. wk' = [wk EXCEPT ![w] = b] BY <1>1, <1>9
  <2> HIDE DEF ops
  <2>2. b \in Worker /\ b.ops = ops /\ b.pc = IF Len(ops) >= BatchMaxSize THEN "prepare" ELSE "collect"
    BY <1>0, <2>1 DEF Worker, WorkerPCs
  <2> HIDE DEF b
  <2>3. Len(ops) \in Nat /\ Len(ops) <= BatchMaxSize BY <1>0, <1>1, <1>2, <2>1
  <2>b. (b.pc = "collect" => Len(b.ops) < BatchMaxSize) /\ b.pc \notin {"write", "commit"} BY <1>2, <2>2, <2>3
  <2>4. BatchesOK' BY <1>5, <1>6, <2>2, <2>3, <2>a, <2>b, BatchType
  <2>5. wk'[w] = b BY <1>0, <2>a
  <2>6. \A v \in Workers \ {w}: wk'[v] = wk[v] /\ queue'[v] = queue[v] BY <1>0, <1>1, <2>a
  <2>7. wk'[w].ops = Append(wk[w].ops, queue[w][1]) BY <1>3, <2>2, <2>5 DEF ops
  <2> QED BY <1>0, <1>1, <1>3, <1>7, <1>9, <2>2, <2>4, <2>5, <2>6, <2>7
<1> QED BY <1>8, <1>9

\* Prepare fills in the conflicts and the nonces of a batch.
LEMMA PrepareType ==
    ASSUME ShapeOK, NEW w \in Workers, NEW expired \in BOOLEAN, wk[w].pc = "prepare", UNCHANGED <<queue, rows>>,
           wk' = [wk EXCEPT ![w] = [[wk[w] EXCEPT !.conflicts = Conflicting(wk[w].ops)] EXCEPT !.pc = "write",
                         !.nonces = [s \in Signers |-> NonceFor(s, expired)]]]
    PROVE  /\ BatchesOK' /\ wk'[w].ops = wk[w].ops /\ wk'[w].nonces = [s \in Signers |-> NonceFor(s, expired)]
           /\ wk'[w].pc = "write" /\ wk'[w].conflicts = Conflicting(wk[w].ops)
           /\ \A v \in Workers \ {w}: wk'[v] = wk[v]
           /\ \A s \in Signers: NonceFor(s, expired) \in Int
<1> DEFINE N == [s \in Signers |-> NonceFor(s, expired)]
           C == Conflicting(wk[w].ops)
           b == [[wk[w] EXCEPT !.conflicts = C] EXCEPT !.pc = "write", !.nonces = N]
<1>0. wk[w] \in Worker /\ wk[w].ops \in Seq(Operation) /\ wk \in [Workers -> Worker] /\ BatchesOK BY DEF ShapeOK, BatchesOK, Worker
<1>1. \A s \in Signers: NonceFor(s, expired) \in Int BY NonceForOK DEF ShapeOK, TablesOK, CommonOK
<1>2. N \in [Signers -> Int] BY <1>1
<1>3. C \in SUBSET Argument
  <2>1. \A i \in DOMAIN wk[w].ops: wk[w].ops[i] \in Operation BY <1>0
  <2> QED BY <2>1 DEF Conflicting, OpsOf, Range, Operation
<1>4. wk' = [wk EXCEPT ![w] = b] OBVIOUS
<1> HIDE DEF N, C
<1>5. b \in Worker /\ b.pc = "write" /\ b.ops = wk[w].ops /\ b.nonces = N /\ b.conflicts = C BY <1>0, <1>2, <1>3 DEF Worker, WorkerPCs
<1> HIDE DEF b
<1>6. wk'[w] = b /\ \A v \in Workers \ {w}: wk'[v] = wk[v] BY <1>0, <1>4
<1>7. BatchesOK' BY <1>0, <1>2, <1>4, <1>5, BatchType DEF BatchesOK
<1> QED BY <1>1, <1>5, <1>6, <1>7 DEF N, C

\* The steps of a worker keep the types; the commit does because what is updated
\* exists, and because of the nonces that were assigned.
LEMMA WorkerShape ==
    ASSUME ShapeOK, UpdatedExist, NoncesOK, UNCHANGED ldbVars, NEW w \in Workers, WorkerStep(w) PROVE ShapeOK'
<1> USE DEF storeVars
<1>0. /\ CommonOK /\ RowsOK /\ BatchesOK /\ TablesOK /\ LdbOK /\ wk[w] \in Worker /\ wk \in [Workers -> Worker]
      /\ wk[w].ops \in Seq(Operation)
  BY DEF ShapeOK, BatchesOK, Worker
<1>1. CASE Collect(w)
  <2>1. UNCHANGED <<storeVars, cacheVars, dbVars, reader, busy, stop, bounds>> BY <1>1 DEF Collect
  <2> QED BY <1>0, <1>1, <2>1, CollectType, ShapeFrames DEF ShapeOK
<1>2. CASE BatchTimeout(w)
  <2>1. BatchesOK' BY <1>0, <1>2, MoveType DEF BatchTimeout, WorkerPCs
  <2> QED BY <1>2, <2>1, ShapeFrames DEF BatchTimeout, ShapeOK
<1>3. CASE Prepare(w)
  <2> DEFINE c == [wk[w] EXCEPT !.conflicts = Conflicting(wk[w].ops)]
             o == [r \in Requests |-> [i \in 1..Size(r) |-> IF <<r, i>> \in c.conflicts THEN "conflict" ELSE out[r][i]]]
  <2>1. PICK expired \in BOOLEAN:
          /\ wk' = [wk EXCEPT ![w] = [c EXCEPT !.pc = "write", !.nonces = [s \in Signers |-> NonceFor(s, expired)]]]
          /\ nonceCache' = [s \in Signers |->
               IF ValidFor(c, s) = {} THEN nonceCache[s] ELSE NonceFor(s, expired) + Cardinality(ValidFor(c, s))]
    BY <1>3 DEF Prepare
  <2>2. /\ wk[w].pc = "prepare" /\ out' = o
        /\ UNCHANGED <<setup, rows, node, submitted, deleted, queue, metaCache, dbVars, reader, busy, stop, bounds>>
    BY <1>3 DEF Prepare
  <2>3. BatchesOK' /\ \A s \in Signers: NonceFor(s, expired) \in Int BY <2>1, <2>2, PrepareType
  <2>4. \A s \in Signers: Cardinality(ValidFor(c, s)) \in Nat
    <3>1. c.ops = wk[w].ops BY <1>0 DEF Worker
    <3>2. Len(c.ops) \in Nat /\ DOMAIN c.ops = 1..Len(c.ops) BY <1>0, <3>1
    <3>3. \A s \in Signers: ValidFor(c, s) \in SUBSET (1..Len(c.ops)) BY <3>2 DEF ValidFor, ValidInserts
    <3> QED BY <3>2, <3>3, BeforeRank
  <2>5. CommonOK'
    <3>1. \A r \in Requests: out[r] \in [1..Size(r) -> Outcomes] BY <1>0 DEF CommonOK
    <3>2. \A r \in Requests: \A i \in 1..Size(r): o[r][i] \in Outcomes BY <3>1 DEF Outcomes
    <3>3. o = [r \in Requests |-> [i \in 1..Size(r) |-> o[r][i]]] OBVIOUS
    <3>4. bounds' \in [ops: Nat, trouble: Nat] BY <1>0, <2>2 DEF CommonOK
    <3> HIDE DEF o
    <3> QED BY <1>0, <2>2, <3>2, <3>3, <3>4, OutType
  <2>6. nonceCache' \in [Signers -> Int]
    <3> HIDE DEF c
    <3> QED BY <1>0, <2>1, <2>3, <2>4 DEF TablesOK
  <2>7. TablesOK' BY <1>0, <2>2, <2>6 DEF TablesOK, dbVars
  <2> QED BY <2>2, <2>3, <2>5, <2>7, ShapeFrames DEF ShapeOK
<1>4. CASE WriteBatch(w)
  <2>1. \/ wk' = [wk EXCEPT ![w].pc = "failed"] /\ UNCHANGED <<metaCache, nextSeq, lock>>
        \/ /\ metaCache' = metaCache \cup {wk[w].ops[i].tx: i \in ValidInserts(wk[w])}
           /\ lock' \in {w, lock} /\ nextSeq' = nextSeq + Cardinality(NewCompletions(wk[w]))
           /\ wk' = [wk EXCEPT ![w].pc = "commit", ![w].seqs = nextSeq]
    BY <1>4 DEF WriteBatch
  <2>2. /\ wk[w].pc = "write"
        /\ Trouble \/ UNCHANGED bounds
        /\ UNCHANGED <<storeVars, queue, nonceCache, tables, completions, reader, busy, stop>>
    BY <1>4 DEF WriteBatch
  <2>3. nextSeq \in Nat \ {0} /\ wk[w].nonces \in [Signers -> Int] BY <1>0, <2>2 DEF TablesOK, BatchesOK, InFlight
  <2>4. BatchesOK'
    <3>1. CASE wk' = [wk EXCEPT ![w].pc = "failed"] BY <1>0, <2>2, <3>1, MoveType DEF WorkerPCs
    <3>2. CASE wk' = [wk EXCEPT ![w].pc = "commit", ![w].seqs = nextSeq]
      <4> DEFINE b == [wk[w] EXCEPT !.pc = "commit", !.seqs = nextSeq]
      <4>1. b \in Worker /\ b.pc = "commit" /\ b.ops = wk[w].ops /\ b.nonces = wk[w].nonces BY <1>0, <2>3 DEF Worker, WorkerPCs
      <4>2. wk' = [wk EXCEPT ![w] = b] BY <1>0, <3>2
      <4> HIDE DEF b
      <4> QED BY <1>0, <2>2, <2>3, <4>1, <4>2, BatchType DEF BatchesOK
    <3> QED BY <2>1, <3>1, <3>2
  <2>5. TablesOK'
    <3>1. \A i \in ValidInserts(wk[w]): wk[w].ops[i].tx \in Txs
      <4>1. \A i \in DOMAIN wk[w].ops: wk[w].ops[i] \in Operation BY <1>0
      <4> QED BY <4>1 DEF ValidInserts, Operation
    <3>2. Cardinality(NewCompletions(wk[w])) \in Nat BY NewCompletionsOK
    <3>3. nextSeq' \in Nat \ {0} BY <2>1, <2>3, <3>2
    <3>4. metaCache' \subseteq Txs BY <1>0, <2>1, <3>1 DEF TablesOK
    <3> QED BY <1>0, <2>1, <2>2, <3>3, <3>4 DEF TablesOK
  <2>6. CommonOK' BY <1>0, <2>2, ShapeFrames DEF CommonOK, Size
  <2> QED BY <2>2, <2>4, <2>5, <2>6, ShapeFrames DEF ShapeOK
<1>5. CASE Commit(w)
  <2> DEFINE b == wk[w]
             new == NewCompletions(b)
             pc == IF Completes(b) = {} THEN "reply" ELSE "notify"
  <2>1. /\ b.pc = "commit" /\ rows' = [t \in Txs |-> RowAfter(b, t)]
        /\ completions' = completions \cup {[seq |-> b.seqs + Before(new, i), tx |-> b.ops[i].tx]: i \in new}
        /\ lock' = IF lock = w THEN NoWorker ELSE lock
        /\ wk' = [wk EXCEPT ![w].pc = pc]
        /\ UNCHANGED <<setup, out, node, submitted, queue, cacheVars, nextSeq, reader, busy, stop, bounds>>
    BY <1>5 DEF Commit
  <2>2. BatchesOK'
    <3>1. pc \in {"reply", "notify"} OBVIOUS
    <3> HIDE DEF pc
    <3> QED BY <1>0, <2>1, <3>1, MoveType DEF WorkerPCs
  <2>3. \A i \in new: Before(new, i) \in Nat /\ b.ops[i].tx \in Txs BY NewCompletionsOK
  <2>4. b.seqs \in Nat BY <1>0 DEF Worker
  <2>5. completions' \subseteq [seq: Nat, tx: Txs]
    <3> HIDE DEF new, b
    <3> QED BY <1>0, <2>1, <2>3, <2>4 DEF TablesOK
  <2>6. TablesOK' BY <1>0, <2>1, <2>5 DEF TablesOK, cacheVars
  <2>7. RowsOK'
    <3> DEFINE Row == [nonce: Int, status: {"None", "Pending", "Succeeded"}, hash: BOOLEAN]
    <3>1. ASSUME NEW t \in Txs
          PROVE  /\ rows'[t] \in Row
                 /\ \/ rows'[t] = NoRow
                    \/ \E i \in ValidInserts(b): b.ops[i].tx = t /\ rows'[t].nonce = AssignedNonce(b, i)
                    \/ Exists(t) /\ rows'[t].nonce = rows[t].nonce
      BY <2>1, RowAfterOK
    <3>2. ASSUME NEW i \in ValidInserts(b)
          PROVE  LET s == SignerOf[b.ops[i].tx]
                 IN  AssignedNonce(b, i) \in Nat /\ AssignedNonce(b, i) <= b.nonces[s] + Cardinality(ValidFor(b, s))
      <4> DEFINE s == SignerOf[b.ops[i].tx]
      <4>1. /\ s \in Signers /\ i \in ValidFor(b, s) /\ b.nonces[s] \in Int /\ Cardinality(ValidFor(b, s)) \in Nat
            /\ AssignedNonce(b, i) \in Int /\ AssignedNonce(b, i) >= b.nonces[s]
            /\ AssignedNonce(b, i) < b.nonces[s] + Cardinality(ValidFor(b, s))
        BY <2>1, AssignedOK DEF InFlight
      <4>2. b.nonces[s] \in Nat BY <2>1, <4>1 DEF NoncesOK, Beyond, InFlight
      <4> HIDE DEF s, b
      <4>3. AssignedNonce(b, i) \in Nat /\ AssignedNonce(b, i) <= b.nonces[s] + Cardinality(ValidFor(b, s)) BY <4>1, <4>2
      <4> QED BY <4>3 DEF s
    <3>3. \A t \in Txs: Exists(t)' => rows'[t].nonce \in Nat BY <1>0, <3>1, <3>2 DEF RowsOK, Exists, NoRow
    <3>4. ASSUME NEW s \in Signers PROVE \E k \in Nat: \A t \in Txs: Exists(t)' /\ SignerOf[t] = s => rows'[t].nonce <= k
      <4>1. PICK k \in Nat: \A t \in Stored(s): rows[t].nonce <= k BY <1>0 DEF RowsOK
      <4>2. CASE ValidFor(b, s) = {}
        <5>1. ASSUME NEW t \in Txs, Exists(t)', SignerOf[t] = s PROVE rows'[t].nonce <= k
          <6>1. ~\E i \in ValidInserts(b): b.ops[i].tx = t BY <4>2, <5>1 DEF ValidFor
          <6>2. Exists(t) /\ rows'[t].nonce = rows[t].nonce BY <3>1, <5>1, <6>1 DEF Exists, NoRow
          <6> QED BY <4>1, <5>1, <6>2 DEF Stored
        <5> QED BY <5>1
      <4>3. CASE ValidFor(b, s) # {}
        <5> DEFINE top == b.nonces[s] + Cardinality(ValidFor(b, s))
        <5>1. b.nonces[s] \in Nat BY <2>1, <4>3 DEF NoncesOK, Beyond, InFlight
        <5>2. Cardinality(ValidFor(b, s)) \in Nat BY <2>1, AssignedOK DEF InFlight
        <5>3. top \in Nat BY <5>1, <5>2
        <5>4. ASSUME NEW t \in Txs, Exists(t)', SignerOf[t] = s PROVE rows'[t].nonce <= top \/ rows'[t].nonce <= k
          <6>1. CASE \E i \in ValidInserts(b): b.ops[i].tx = t /\ rows'[t].nonce = AssignedNonce(b, i)
            BY <3>2, <5>4, <6>1
          <6>2. CASE Exists(t) /\ rows'[t].nonce = rows[t].nonce BY <4>1, <5>4, <6>2 DEF Stored
          <6> QED BY <3>1, <5>4, <6>1, <6>2 DEF Exists
        <5>5. k + top \in Nat /\ k <= k + top /\ top <= k + top BY <5>3
        <5>6. \A t \in Txs: Exists(t)' => rows'[t].nonce \in Nat BY <3>3
        <5> HIDE DEF top
        <5>7. \A t \in Txs: Exists(t)' /\ SignerOf[t] = s => rows'[t].nonce <= k + top BY <5>3, <5>4, <5>5, <5>6
        <5> QED BY <5>5, <5>7
      <4> QED BY <4>2, <4>3
    <3>5. rows' \in [Txs -> Row] BY <2>1, <3>1
    <3> QED BY <3>3, <3>4, <3>5 DEF RowsOK, Stored
  <2>8. CommonOK' BY <1>0, <2>1, ShapeFrames
  <2> QED BY <1>0, <2>1, <2>2, <2>6, <2>7, <2>8, ShapeFrames DEF ShapeOK
<1>6. CASE CommitFails(w)
  <2>1. BatchesOK' BY <1>0, <1>6, MoveType DEF CommitFails, WorkerPCs
  <2>2. CommonOK' BY <1>0, <1>6, ShapeFrames DEF CommitFails, CommonOK, Size
  <2>3. TablesOK' BY <1>0, <1>6 DEF CommitFails, TablesOK, cacheVars
  <2> QED BY <1>6, <2>1, <2>2, <2>3, ShapeFrames DEF CommitFails, ShapeOK
<1>7. CASE Notify(w)
  <2>1. BatchesOK' BY <1>0, <1>7, MoveType DEF Notify, WorkerPCs
  <2>2. TablesOK' BY <1>0, <1>7 DEF Notify, TablesOK, cacheVars, dbVars
  <2> QED BY <1>7, <2>1, <2>2, ShapeFrames DEF Notify, ShapeOK
<1>8. CASE Finish(w)
  <2> DEFINE b == wk[w]
             outcome == IF b.pc = "reply" THEN "ok" ELSE "error"
             o == Answered(b, outcome)
             pc == IF b.closing THEN "done" ELSE "collect"
  <2>1. /\ b.pc \in {"reply", "failed"} /\ out' = o
        /\ nonceCache' = IF b.pc = "failed" THEN Cleared(b) ELSE nonceCache
        /\ busy' = busy \ (TxsOf(b.ops, "update") \cup TxsOf(b.ops, "delete"))
        /\ wk' = [wk EXCEPT ![w] = IdleWorker(pc)]
        /\ UNCHANGED <<setup, rows, node, submitted, deleted, queue, metaCache, dbVars, reader, stop, bounds>>
    BY <1>8 DEF Finish
  <2>2. BatchesOK'
    <3>1. pc \in {"done", "collect"} OBVIOUS
    <3>2. IdleWorker(pc) \in Worker /\ IdleWorker(pc).ops = << >> /\ IdleWorker(pc).pc = pc BY <3>1, IdleType DEF WorkerPCs
    <3>3. Len(IdleWorker(pc).ops) = 0 BY <3>2
    <3>4. BatchMaxSize \in Nat \ {0} BY WriterAssumption
    <3> DEFINE d == IdleWorker(pc)
    <3>5. wk' = [wk EXCEPT ![w] = d] BY <2>1
    <3>6. d \in Worker /\ Len(d.ops) <= BatchMaxSize /\ Len(d.ops) < BatchMaxSize /\ d.pc \notin {"write", "commit"}
      BY <3>1, <3>2, <3>3, <3>4
    <3> HIDE DEF d
    <3> QED BY <1>0, <2>1, <3>5, <3>6, BatchType DEF BatchesOK
  <2>3. CommonOK'
    <3>1. \A r \in Requests: out[r] \in [1..Size(r) -> Outcomes] BY <1>0 DEF CommonOK
    <3>2. outcome \in Outcomes BY DEF Outcomes
    <3>3. o = [r \in Requests |-> [i \in 1..Size(r) |-> IF \E j \in ValidInserts(b): b.ops[j].arg = <<r, i>> THEN outcome ELSE out[r][i]]]
      BY DEF Answered
    <3> HIDE DEF o, outcome
    <3>4. \A r \in Requests: \A i \in 1..Size(r): o[r][i] \in Outcomes BY <3>1, <3>2, <3>3
    <3>5. o = [r \in Requests |-> [i \in 1..Size(r) |-> o[r][i]]] BY <3>3
    <3>6. bounds' \in [ops: Nat, trouble: Nat] BY <1>0, <2>1 DEF CommonOK
    <3> QED BY <1>0, <2>1, <3>4, <3>5, <3>6, OutType
  <2>4. TablesOK' BY <1>0, <2>1 DEF TablesOK, dbVars, Cleared
  <2> QED BY <2>1, <2>2, <2>3, <2>4, ShapeFrames DEF ShapeOK
<1> QED BY <1>1, <1>2, <1>3, <1>4, <1>5, <1>6, <1>7, <1>8 DEF WorkerStep

\* So do the reader, the caches and stop.
LEMMA OtherShape ==
    ASSUME ShapeOK, UNCHANGED ldbVars, Evict \/ ReaderStep \/ Close \/ StopWorker PROVE ShapeOK'
<1> USE DEF storeVars
<1>0. CommonOK /\ RowsOK /\ BatchesOK /\ TablesOK /\ LdbOK BY DEF ShapeOK
<1>1. CASE Evict
  <2>1. TablesOK' BY <1>0, <1>1 DEF Evict, TablesOK, dbVars
  <2>2. CommonOK' BY <1>0, <1>1, ShapeFrames DEF Evict, CommonOK, Size
  <2> QED BY <1>1, <2>1, <2>2, ShapeFrames DEF Evict, ShapeOK
<1>2. CASE ReadTime
  <2>1. TablesOK' BY <1>0, <1>2 DEF ReadTime, TablesOK, dbVars, cacheVars
  <2> QED BY <1>2, <2>1, ShapeFrames DEF ReadTime, ShapeOK
<1>3. CASE ListTxCompletions
  <2> DEFINE newer == {c \in completions: c.seq > reader.after}
             next == CHOOSE c \in newer: \A d \in newer: c.seq <= d.seq
  <2>1. /\ reader' = IF newer = {} THEN [reader EXCEPT !.pc = "wait"]
                     ELSE [reader EXCEPT !.pc = "time", !.after = next.seq, !.seen = @ \cup {next.tx}]
        /\ UNCHANGED <<storeVars, queue, wk, cacheVars, dbVars, busy, stop, bounds>>
    BY <1>3 DEF ListTxCompletions
  <2>2. newer # {} => next \in [seq: Nat, tx: Txs]
    <3> SUFFICES ASSUME newer # {} PROVE next \in [seq: Nat, tx: Txs] OBVIOUS
    <3> DEFINE seqs == {c.seq: c \in newer}
    <3>1. newer \subseteq [seq: Nat, tx: Txs] BY <1>0 DEF TablesOK
    <3>2. seqs \in SUBSET Nat /\ seqs # {} BY <3>1
    <3>3. PICK n \in seqs: \A m \in seqs: n <= m
      <4> HIDE DEF seqs
      <4> QED BY <3>2, Smallest
    <3>4. \E c \in newer: \A d \in newer: c.seq <= d.seq BY <3>3
    <3> QED BY <3>1, <3>4
  <2>3. reader' \in [pc: {"time", "poll", "wait", "waiting"}, after: Nat, since: BOOLEAN, seen: SUBSET Txs]
    <3> HIDE DEF newer, next
    <3> QED BY <1>0, <2>1, <2>2 DEF TablesOK
  <2>4. TablesOK' BY <1>0, <2>1, <2>3 DEF TablesOK, dbVars, cacheVars
  <2> QED BY <2>1, <2>4, ShapeFrames DEF ShapeOK
<1>4. CASE WaitTxCompletionUpdates
  <2>1. TablesOK' BY <1>0, <1>4 DEF WaitTxCompletionUpdates, TablesOK, dbVars, cacheVars
  <2> QED BY <1>4, <2>1, ShapeFrames DEF WaitTxCompletionUpdates, ShapeOK
<1>5. CASE Close
  <2>1. CommonOK' BY <1>0, <1>5, ShapeFrames DEF Close, CommonOK, Size
  <2> QED BY <1>5, <2>1, ShapeFrames DEF Close, ShapeOK
<1>6. CASE StopWorker
  <2> DEFINE w == WorkerSeq[stop]
  <2>1. UNCHANGED <<storeVars, wk, cacheVars, dbVars, reader, busy, bounds>> BY <1>6 DEF StopWorker
  <2>2. BatchesOK'
    <3>1. CASE UNCHANGED queue BY <2>1, <3>1, ShapeFrames
    <3>2. CASE ~UNCHANGED queue
      <4>1. Len(queue[w]) < BatchMaxSize /\ queue' = [queue EXCEPT ![w] = Append(@, Shutdown)] /\ w \in Workers
        <5>1. Len(queue[w]) < BatchMaxSize /\ queue' = [queue EXCEPT ![w] = Append(@, Shutdown)]
          BY <1>6, <3>2 DEF StopWorker, Shutdown
        <5>2. w \in Workers
          <6> SUFFICES ASSUME w \notin Workers PROVE FALSE OBVIOUS
          <6> QED BY <1>0, <3>2, <5>1 DEF BatchesOK
        <5> QED BY <5>1, <5>2
      <4> QED BY <1>0, <2>1, <4>1, QueueType
    <3> QED BY <3>1, <3>2
  <2> QED BY <2>1, <2>2, ShapeFrames DEF ShapeOK
<1> QED BY <1>1, <1>2, <1>3, <1>4, <1>5, <1>6 DEF ReaderStep

\* A request of the LevelDB store goes on.
LEMMA InsertType ==
    ASSUME ShapeOK, UNCHANGED setup, NEW r \in Requests, NEW x \in Insert, ins' = [ins EXCEPT ![r] = x],
           x.pc # "idle", x.pc # "done" => x.i \in 1..Size(r), idx' \subseteq idx,
           locked' \in [Signers -> Requests \cup {NoRequest}], mux' \in Requests \cup {NoRequest}
    PROVE  LdbOK'
<1>1. ins' \in [Requests -> Insert] BY DEF ShapeOK, LdbOK
<1>2. ASSUME NEW q \in Requests
      PROVE  /\ ins'[q].pc = "idle" => ins'[q].i = 1
             /\ ins'[q].pc \notin {"idle", "done"} => ins'[q].i \in 1..Size(q)
  <2>1. CASE q = r BY <2>1 DEF ShapeOK, LdbOK
  <2>2. CASE q # r BY <2>2 DEF ShapeOK, LdbOK
  <2> QED BY <2>1, <2>2
<1>3. idx' \subseteq Signers \X Nat \X Txs BY DEF ShapeOK, LdbOK
<1>4. \A s \in Signers: \E k \in Nat: \A e \in idx': e[1] = s => e[2] <= k BY DEF ShapeOK, LdbOK
<1> QED BY <1>1, <1>2, <1>3, <1>4 DEF LdbOK, Size

LEMMA CurrentOK ==
    ASSUME ShapeOK, NEW r \in Requests, ins[r].pc \notin {"idle", "done"}
    PROVE  /\ ins[r] \in Insert /\ ins[r].i \in 1..Size(r) /\ Size(r) \in Nat
           /\ Current(r) \in Txs /\ SignerOf[Current(r)] \in Signers
<1>1. ins[r] \in Insert /\ ins[r].i \in 1..Size(r) BY DEF ShapeOK, LdbOK
<1>2. Size(r) \in Nat /\ \A i \in 1..Size(r): TxAt(r, i) \in Txs BY SetupOK DEF ShapeOK, CommonOK
<1> QED BY <1>1, <1>2, SignerAssumption DEF Current

LEMMA OrphansOK == ASSUME LdbOK, NEW s \in Signers PROVE Orphans(s) \subseteq Signers \X Int
BY DEF LdbOK, Orphans

\* The requests keep the types; the nonce that is written is one.
LEMMA InsertShape ==
    ASSUME ShapeOK, UNCHANGED writerVars, NEW r \in Requests, InsertOK(r), BeginInsert(r) \/ InsertStep(r) PROVE ShapeOK'
<1> USE DEF storeVars
<1>0. CommonOK /\ RowsOK /\ BatchesOK /\ TablesOK /\ LdbOK BY DEF ShapeOK
<1>a. BatchesOK' /\ TablesOK' BY ShapeFrames DEF writerVars
<1>b. ins \in [Requests -> Insert] /\ locked \in [Signers -> Requests \cup {NoRequest}] /\ mux \in Requests \cup {NoRequest}
  BY <1>0 DEF LdbOK
<1>1. CASE BeginInsert(r)
  <2> DEFINE x == [ins[r] EXCEPT !.pc = "assign"]
  <2>1. ins[r].pc = "idle" /\ Size(r) > 0 /\ ins[r] \in Insert /\ ins[r].i = 1 BY <1>0, <1>1, <1>b DEF BeginInsert, LdbOK
  <2>2. Size(r) \in Nat BY <1>0, SetupOK DEF CommonOK
  <2>3. x \in Insert /\ x.pc = "assign" /\ x.i = 1 BY <2>1 DEF Insert
  <2>4. ins' = [ins EXCEPT ![r] = x] BY <1>1 DEF BeginInsert, Goto
  <2> HIDE DEF x
  <2>a. mux' \in {mux, r} /\ UNCHANGED <<setup, idx, locked>> BY <1>1 DEF BeginInsert
  <2>b. mux' \in Requests \cup {NoRequest} /\ x.i \in 1..Size(r) BY <1>b, <2>1, <2>2, <2>3, <2>a
  <2>5. LdbOK' BY <1>b, <2>3, <2>4, <2>a, <2>b, InsertType
  <2>6. CommonOK'
    <3>1. out' = [out EXCEPT ![r] = [i \in 1..Size(r) |-> "waiting"]] /\ UNCHANGED <<setup, node, submitted, bounds>>
      BY <1>1 DEF BeginInsert
    <3>2. out = [q \in Requests |-> out[q]] /\ \A q \in Requests: out[q] \in [1..Size(q) -> Outcomes] BY <1>0 DEF CommonOK
    <3>3. [i \in 1..Size(r) |-> "waiting"] \in [1..Size(r) -> Outcomes] BY DEF Outcomes
    <3> DEFINE y == [i \in 1..Size(r) |-> "waiting"]
    <3> HIDE DEF y
    <3>4. out' = [q \in Requests |-> IF q = r THEN y ELSE out[q]] BY <3>1, <3>2 DEF y
    <3>5. y \in [1..Size(r) -> Outcomes] BY <3>3 DEF y
    <3>6. \A q \in Requests: out'[q] \in [1..Size(q) -> Outcomes] BY <3>2, <3>4, <3>5
    <3>7. out' = [q \in Requests |-> out'[q]] BY <3>4
    <3> QED BY <1>0, <3>1, <3>6, <3>7 DEF CommonOK, Size
  <2> QED BY <1>1, <1>a, <2>5, <2>6, ShapeFrames DEF BeginInsert, ShapeOK
<1>2. CASE AssignAndLockNonce(r)
  <2> DEFINE x == [ins[r] EXCEPT !.pc = "list"]
  <2>1. ins[r].pc = "assign" BY <1>2 DEF AssignAndLockNonce
  <2>2. ins[r] \in Insert /\ ins[r].i \in 1..Size(r) /\ SignerOf[Current(r)] \in Signers BY <2>1, CurrentOK
  <2>3. x \in Insert /\ x.pc = "list" /\ x.i = ins[r].i BY <2>2 DEF Insert
  <2>4. ins' = [ins EXCEPT ![r] = x] BY <1>2 DEF AssignAndLockNonce, Goto
  <2>5. locked' \in [Signers -> Requests \cup {NoRequest}] BY <1>2, <1>b, <2>2 DEF AssignAndLockNonce
  <2> HIDE DEF x
  <2>6. LdbOK' BY <1>2, <1>b, <2>2, <2>3, <2>4, <2>5, InsertType DEF AssignAndLockNonce
  <2> QED BY <1>2, <1>a, <2>6, ShapeFrames DEF AssignAndLockNonce, ShapeOK
<1>3. CASE CalcNextNonce(r)
  <2> DEFINE s == SignerOf[Current(r)]
             now == [ins[r] EXCEPT !.last = LastNonce(s), !.pc = "nonce"]
             later == [now EXCEPT !.pc = "clean", !.orphans = Orphans(s)]
  <2>1. ins[r].pc = "list" /\ UNCHANGED <<storeVars, locked, mux, del, lister, bounds>> BY <1>3 DEF CalcNextNonce
  <2>2. ins[r] \in Insert /\ ins[r].i \in 1..Size(r) /\ s \in Signers BY <2>1, CurrentOK
  <2>3. LastNonce(s) \in Int /\ Orphans(s) \in SUBSET (Signers \X Int) BY <1>0, <2>2, LastNonceOK, OrphansOK
  <2>4. \/ DeleteKeys(Orphans(s)) /\ ins' = [ins EXCEPT ![r] = now]
        \/ UNCHANGED <<idx, lost>> /\ ins' = [ins EXCEPT ![r] = later]
    BY <1>3 DEF CalcNextNonce
  <2>5. idx' \subseteq idx BY <2>4 DEF DeleteKeys
  <2> HIDE DEF s
  <2>6. now \in Insert /\ now.pc = "nonce" /\ now.i = ins[r].i BY <2>2, <2>3 DEF Insert
  <2>7. later \in Insert /\ later.pc = "clean" /\ later.i = ins[r].i BY <2>3, <2>6 DEF Insert
  <2> HIDE DEF now, later
  <2>8. CASE ins' = [ins EXCEPT ![r] = now] BY <1>b, <2>1, <2>2, <2>5, <2>6, <2>8, <1>a, InsertType, ShapeFrames DEF ShapeOK
  <2>9. CASE ins' = [ins EXCEPT ![r] = later] BY <1>b, <2>1, <2>2, <2>5, <2>7, <2>9, <1>a, InsertType, ShapeFrames DEF ShapeOK
  <2> QED BY <2>4, <2>8, <2>9
<1>4. CASE CleanupOrphans(r)
  <2> DEFINE x == [ins[r] EXCEPT !.pc = "nonce", !.orphans = {}]
  <2>1. ins[r].pc = "clean" /\ UNCHANGED <<storeVars, locked, mux, del, lister, bounds>> /\ idx' \subseteq idx
    BY <1>4 DEF CleanupOrphans, DeleteKeys
  <2>2. ins[r] \in Insert /\ ins[r].i \in 1..Size(r) BY <2>1, CurrentOK
  <2>3. x \in Insert /\ x.pc = "nonce" /\ x.i = ins[r].i BY <2>2 DEF Insert
  <2>4. ins' = [ins EXCEPT ![r] = x] BY <1>4 DEF CleanupOrphans
  <2> HIDE DEF x
  <2> QED BY <1>a, <1>b, <2>1, <2>2, <2>3, <2>4, InsertType, ShapeFrames DEF ShapeOK
<1>5. CASE CalcNextNonceFromTxs(r)
  <2>1. ins[r].pc = "nonce" /\ UNCHANGED <<storeVars, idx, locked, mux, del, lister, lost, bounds>> BY <1>5 DEF CalcNextNonceFromTxs
  <2>2. ins[r] \in Insert /\ ins[r].i \in 1..Size(r) /\ SignerOf[Current(r)] \in Signers BY <2>1, CurrentOK
  <2>3. PICK fresh \in BOOLEAN:
          ins' = [ins EXCEPT ![r].pc = "write", ![r].nonce = NextNonce(ins[r].last, fresh, node[SignerOf[Current(r)]])]
    BY <1>5 DEF CalcNextNonceFromTxs
  <2> DEFINE n == NextNonce(ins[r].last, fresh, node[SignerOf[Current(r)]])
             x == [ins[r] EXCEPT !.pc = "write", !.nonce = n]
  <2>4. node[SignerOf[Current(r)]] \in Nat /\ ins[r].last \in Int BY <1>0, <2>2 DEF CommonOK, Insert
  <2>5. n \in Int BY <2>4 DEF NextNonce
  <2>6. ins' = [ins EXCEPT ![r] = x] BY <2>3
  <2> HIDE DEF n
  <2>7. x \in Insert /\ x.pc = "write" /\ x.i = ins[r].i BY <2>2, <2>5 DEF Insert
  <2> HIDE DEF x
  <2> QED BY <1>a, <1>b, <2>1, <2>2, <2>6, <2>7, InsertType, ShapeFrames DEF ShapeOK
<1>6. CASE WriteTransaction(r)
  <2> DEFINE t == Current(r)
             s == SignerOf[t]
             n == ins[r].nonce
             written == {e \in idx: <<e[1], e[2]>> # <<s, n>>} \cup {<<s, n, t>>}
             x == [ins[r] EXCEPT !.pc = "complete"]
  <2>1. PICK o \in WriteOutcomes(t):
          /\ idx' = IF o \in {"ok", "orphan"} THEN written ELSE idx
          /\ rows' = IF o = "ok" THEN [rows EXCEPT ![t] = NewRow(n)] ELSE rows
          /\ out' = [out EXCEPT ![r][ins[r].i] = IF o \in {"early", "orphan"} THEN "error" ELSE o]
          /\ IF o \in {"ok", "conflict"} THEN UNCHANGED bounds ELSE Trouble
    BY <1>6 DEF WriteTransaction
  <2>2. /\ ins[r].pc = "write" /\ UNCHANGED <<setup, node, submitted, deleted, locked, mux, del, lister, lost>>
        /\ ins' = [ins EXCEPT ![r] = x]
    BY <1>6 DEF WriteTransaction, Goto
  <2>3. ins[r] \in Insert /\ ins[r].i \in 1..Size(r) /\ t \in Txs /\ s \in Signers BY <2>2, CurrentOK
  <2>4. x \in Insert /\ x.pc = "complete" /\ x.i = ins[r].i BY <2>3 DEF Insert
  <2>5. n \in Nat BY <2>2, <2>3 DEF InsertOK, Insert
  <2>6. o \in {"ok", "early", "orphan", "conflict"} BY DEF WriteOutcomes
  <2> HIDE DEF x
  <2>7. LdbOK'
    <3> DEFINE old == {e \in idx: TRUE}
    <3>1. ins' \in [Requests -> Insert] BY <1>b, <2>2, <2>4
    <3>2. ASSUME NEW q \in Requests
          PROVE  /\ ins'[q].pc = "idle" => ins'[q].i = 1
                 /\ ins'[q].pc \notin {"idle", "done"} => ins'[q].i \in 1..Size(q)
      <4>1. CASE q = r BY <1>b, <2>2, <2>3, <2>4, <4>1
      <4>2. CASE q # r BY <1>0, <1>b, <2>2, <4>2 DEF LdbOK
      <4> QED BY <4>1, <4>2
    <3>3. idx' \subseteq idx \cup {<<s, n, t>>} BY <2>1
    <3>4. idx' \subseteq Signers \X Nat \X Txs BY <1>0, <2>3, <2>5, <3>3 DEF LdbOK
    <3>5. ASSUME NEW u \in Signers PROVE \E k \in Nat: \A e \in idx': e[1] = u => e[2] <= k
      <4>1. PICK k \in Nat: \A e \in idx: e[1] = u => e[2] <= k BY <1>0 DEF LdbOK
      <4>2. \A e \in idx: e[2] \in Nat BY <1>0 DEF LdbOK
      <4> HIDE DEF n, s, t
      <4>3. \A e \in idx': e[1] = u => e[2] <= k + n BY <2>5, <3>3, <4>1, <4>2
      <4>4. k + n \in Nat BY <2>5
      <4> QED BY <4>3, <4>4
    <3> QED BY <1>b, <2>2, <3>1, <3>2, <3>4, <3>5 DEF LdbOK, Size
  <2>8. RowsOK'
    <3>1. CASE UNCHANGED rows BY <3>1, ShapeFrames
    <3>2. CASE rows' = [rows EXCEPT ![t] = NewRow(n)]
      <4> DEFINE Row == [nonce: Int, status: {"None", "Pending", "Succeeded"}, hash: BOOLEAN]
      <4>1. NewRow(n) \in Row /\ NewRow(n).nonce = n BY <2>5 DEF NewRow
      <4>2. rows \in [Txs -> Row] BY <1>0 DEF RowsOK
      <4>3. rows' \in [Txs -> Row] /\ rows'[t] = NewRow(n) /\ \A u \in Txs \ {t}: rows'[u] = rows[u] BY <2>3, <3>2, <4>1, <4>2
      <4> HIDE DEF t, n
      <4>4. \A u \in Txs: Exists(u)' => rows'[u].nonce \in Nat BY <1>0, <2>5, <4>1, <4>3 DEF RowsOK, Exists
      <4>5. ASSUME NEW v \in Signers PROVE \E k \in Nat: \A u \in Txs: Exists(u)' /\ SignerOf[u] = v => rows'[u].nonce <= k
        <5>1. PICK k \in Nat: \A u \in Stored(v): rows[u].nonce <= k BY <1>0 DEF RowsOK
        <5>2. k + n \in Nat BY <2>5
        <5>3. ASSUME NEW u \in Txs, Exists(u)', SignerOf[u] = v PROVE rows'[u].nonce <= k + n
          <6>1. CASE u = t BY <2>5, <4>1, <4>3, <6>1
          <6>2. CASE u # t
            <7>1. rows'[u] = rows[u] /\ Exists(u) BY <4>3, <5>3, <6>2 DEF Exists
            <7>2. rows[u].nonce <= k /\ rows[u].nonce \in Nat BY <1>0, <5>1, <5>3, <7>1 DEF Stored, RowsOK
            <7> QED BY <2>5, <7>1, <7>2
          <6> QED BY <6>1, <6>2
        <5> QED BY <5>2, <5>3
      <4> QED BY <4>3, <4>4, <4>5 DEF RowsOK, Stored
    <3> QED BY <2>1, <3>1, <3>2
  <2>9. CommonOK'
    <3> DEFINE y == IF o \in {"early", "orphan"} THEN "error" ELSE o
               i == ins[r].i
    <3>1. y \in Outcomes /\ out' = [out EXCEPT ![r][i] = y] BY <2>1, <2>6 DEF Outcomes
    <3>2. i \in 1..Size(r) BY <2>3
    <3>3. bounds' \in [ops: Nat, trouble: Nat] BY <1>0, <2>1, ShapeFrames DEF CommonOK
    <3> HIDE DEF y, i
    <3>4. \A q \in Requests: out[q] \in [1..Size(q) -> Outcomes] BY <1>0 DEF CommonOK
    <3>5. out = [q \in Requests |-> out[q]] BY <1>0 DEF CommonOK
    <3>6. out' = [q \in Requests |-> IF q = r THEN [out[r] EXCEPT ![i] = y] ELSE out[q]] BY <3>1, <3>5
    <3>7. [out[r] EXCEPT ![i] = y] \in [1..Size(r) -> Outcomes] BY <3>1, <3>2, <3>4
    <3>8. \A q \in Requests: out'[q] \in [1..Size(q) -> Outcomes] BY <3>4, <3>6, <3>7
    <3>9. out' = [q \in Requests |-> out'[q]] BY <3>6
    <3> QED BY <1>0, <2>2, <3>3, <3>8, <3>9 DEF CommonOK, Size
  <2> QED BY <1>a, <2>7, <2>8, <2>9 DEF ShapeOK
<1>7. CASE Complete(r)
  <2> DEFINE done == ins[r].i = Size(r)
             x == [IdleInsert EXCEPT !.pc = IF done THEN "done" ELSE "assign", !.i = IF done THEN @ ELSE ins[r].i + 1]
  <2>1. /\ ins[r].pc = "complete" /\ UNCHANGED <<storeVars, idx, del, lister, lost, bounds>>
        /\ locked' = [locked EXCEPT ![SignerOf[Current(r)]] = NoRequest] /\ ins' = [ins EXCEPT ![r] = x]
        /\ mux' \in {NoRequest, mux}
    BY <1>7 DEF Complete
  <2>2. ins[r].i \in 1..Size(r) /\ Size(r) \in Nat /\ SignerOf[Current(r)] \in Signers BY <2>1, CurrentOK
  <2>3. x \in Insert /\ x.pc # "idle" /\ (x.pc # "done" => x.i \in 1..Size(r))
    <3> DEFINE p == IF done THEN "done" ELSE "assign"
               j == IF done THEN 1 ELSE ins[r].i + 1
    <3>1. p \in {"done", "assign"} /\ j \in Nat /\ (p # "done" => j \in 1..Size(r)) BY <2>2
    <3>2. IdleInsert \in Insert /\ IdleInsert.i = 1 BY DEF Insert, IdleInsert
    <3>3. x = [IdleInsert EXCEPT !.pc = p, !.i = j] BY <3>2
    <3> HIDE DEF x, p, j
    <3>4. x \in Insert /\ x.pc = p /\ x.i = j BY <3>1, <3>2, <3>3 DEF Insert
    <3> QED BY <3>1, <3>4
  <2>4. locked' \in [Signers -> Requests \cup {NoRequest}] /\ mux' \in Requests \cup {NoRequest} BY <1>b, <2>1, <2>2
  <2> HIDE DEF x
  <2> QED BY <1>a, <2>1, <2>3, <2>4, InsertType, ShapeFrames DEF ShapeOK
<1> QED BY <1>1, <1>2, <1>3, <1>4, <1>5, <1>6, <1>7 DEF InsertStep

LEMMA DeleteShape ==
    ASSUME ShapeOK, UNCHANGED writerVars, NEW t,
           (t \in Txs /\ DeleteTransaction(t)) \/ DeleteIndex \/ ListByNonce \/ ListCleansUp
    PROVE  ShapeOK'
<1> USE DEF storeVars
<1>0. CommonOK /\ RowsOK /\ BatchesOK /\ TablesOK /\ LdbOK BY DEF ShapeOK
<1>a. BatchesOK' /\ TablesOK' BY ShapeFrames DEF writerVars
<1>b. ASSUME UNCHANGED <<setup, locked, mux, ins>>, idx' \subseteq idx PROVE LdbOK'
  <2>1. idx' \subseteq Signers \X Nat \X Txs BY <1>0, <1>b DEF LdbOK
  <2>2. \A s \in Signers: \E k \in Nat: \A e \in idx': e[1] = s => e[2] <= k BY <1>0, <1>b DEF LdbOK
  <2> QED BY <1>0, <1>b, <2>1, <2>2 DEF LdbOK, Size
<1>1. ASSUME t \in Txs, DeleteTransaction(t) PROVE ShapeOK'
  <2>1. /\ rows' = [rows EXCEPT ![t] = NoRow] /\ CountOp
        /\ UNCHANGED <<setup, out, node, submitted, idx, locked, mux, ins, lister, lost>>
    BY <1>1 DEF DeleteTransaction
  <2>2. LdbOK' BY <1>b, <2>1
  <2>3. CommonOK' BY <1>0, <2>1, ShapeFrames DEF CommonOK, Size
  <2>4. RowsOK'
    <3> DEFINE Row == [nonce: Int, status: {"None", "Pending", "Succeeded"}, hash: BOOLEAN]
    <3>1. NoRow \in Row /\ rows \in [Txs -> Row] BY <1>0 DEF RowsOK, NoRow
    <3>2. rows' \in [Txs -> Row] /\ rows'[t] = NoRow /\ \A u \in Txs \ {t}: rows'[u] = rows[u] BY <1>1, <2>1, <3>1
    <3>3. \A u \in Txs: Exists(u)' => Exists(u) /\ rows'[u] = rows[u] BY <3>2 DEF Exists, NoRow
    <3>4. \A u \in Txs: Exists(u)' => rows'[u].nonce \in Nat BY <1>0, <3>3 DEF RowsOK
    <3>5. ASSUME NEW v \in Signers PROVE \E k \in Nat: \A u \in Txs: Exists(u)' /\ SignerOf[u] = v => rows'[u].nonce <= k
      <4>1. PICK k \in Nat: \A u \in Stored(v): rows[u].nonce <= k BY <1>0 DEF RowsOK
      <4> QED BY <3>3, <4>1 DEF Stored
    <3> QED BY <3>2, <3>4, <3>5 DEF RowsOK, Stored
  <2> QED BY <1>a, <2>2, <2>3, <2>4 DEF ShapeOK
<1>2. CASE DeleteIndex
  <2>1. idx' \subseteq idx /\ UNCHANGED <<storeVars, locked, mux, ins, lister, bounds>> BY <1>2 DEF DeleteIndex, DeleteKeys
  <2> QED BY <1>a, <1>b, <2>1, ShapeFrames DEF ShapeOK
<1>3. CASE ListByNonce
  <2>1. CountOp /\ UNCHANGED <<storeVars, idx, locked, mux, ins, del, lost>> BY <1>3 DEF ListByNonce
  <2>2. CommonOK' BY <1>0, <2>1, ShapeFrames DEF CommonOK, Size
  <2> QED BY <1>a, <1>b, <2>1, <2>2, ShapeFrames DEF ShapeOK
<1>4. CASE ListCleansUp
  <2>1. idx' \subseteq idx /\ UNCHANGED <<storeVars, locked, mux, ins, del, bounds>> BY <1>4 DEF ListCleansUp, DeleteKeys
  <2> QED BY <1>a, <1>b, <2>1, ShapeFrames DEF ShapeOK
<1> QED BY <1>1, <1>2, <1>3, <1>4

LEMMA InitShape == Init => ShapeOK
<1> SUFFICES ASSUME Init PROVE ShapeOK OBVIOUS
<1> USE DEF Init
<1>0. /\ setup \in Setups /\ rows = [t \in Txs |-> NoRow] /\ out = [r \in Requests |-> [i \in 1..Size(r) |-> "idle"]]
      /\ node = [s \in Signers |-> 0] /\ submitted = {} /\ bounds = [ops |-> setup.ops, trouble |-> setup.trouble]
  BY DEF StoreInit
<1>1. CommonOK
  <2>1. setup.ops \in Nat /\ setup.trouble \in Nat BY <1>0, SetupsAssumption
  <2>2. \A r \in Requests: out[r] \in [1..Size(r) -> Outcomes] BY <1>0 DEF Outcomes
  <2>3. out = [r \in Requests |-> out[r]] BY <1>0
  <2>4. bounds \in [ops: Nat, trouble: Nat] BY <1>0, <2>1
  <2> QED BY <1>0, <2>2, <2>3, <2>4 DEF CommonOK
<1>2. RowsOK
  <2>1. NoRow \in [nonce: Int, status: {"None", "Pending", "Succeeded"}, hash: BOOLEAN] BY DEF NoRow
  <2>2. \A t \in Txs: ~Exists(t) BY <1>0 DEF Exists
  <2>3. 0 \in Nat OBVIOUS
  <2> QED BY <1>0, <2>1, <2>2, <2>3 DEF RowsOK, Stored
<1>3. BatchesOK
  <2>1. queue = [w \in Workers |-> << >>] /\ wk = [w \in Workers |-> IdleWorker("collect")] BY DEF WriterInit
  <2>2. IdleWorker("collect") \in Worker /\ IdleWorker("collect").ops = << >> /\ IdleWorker("collect").pc = "collect"
    BY IdleType DEF WorkerPCs
  <2>3. BatchMaxSize \in Nat \ {0} BY WriterAssumption
  <2>4. << >> \in Seq(Operation \cup {Shutdown}) /\ Len(<< >>) = 0 OBVIOUS
  <2> QED BY <2>1, <2>2, <2>3, <2>4 DEF BatchesOK, InFlight
<1>4. TablesOK BY DEF WriterInit, TablesOK, IdleReader
<1>5. LdbOK
  <2>1. IdleInsert \in Insert /\ IdleInsert.pc = "idle" /\ IdleInsert.i = 1 BY DEF IdleInsert, Insert
  <2>2. 0 \in Nat OBVIOUS
  <2>3. /\ idx = {} /\ locked = [s \in Signers |-> NoRequest] /\ mux = NoRequest /\ ins = [r \in Requests |-> IdleInsert]
    BY DEF LdbInit
  <2> QED BY <2>1, <2>2, <2>3 DEF LdbOK
<1> QED BY <1>1, <1>2, <1>3, <1>4, <1>5 DEF ShapeOK

\* What a restart leaves.
LEMMA CrashShape ==
    ASSUME ShapeOK, Crash
    PROVE  /\ ShapeOK' /\ UNCHANGED <<setup, rows, node, submitted, deleted, completions, nextSeq, idx, lost>>
           /\ \A w \in Workers: wk'[w].ops = << >> /\ wk'[w].pc = "collect" /\ queue'[w] = << >>
           /\ \A s \in Signers: nonceCache'[s] = -1
           /\ \A r \in Requests: ins'[r].pc \in {"idle", "done"}
           /\ reader'.after = reader.after /\ reader'.seen = reader.seen
<1>0. CommonOK /\ RowsOK /\ BatchesOK /\ TablesOK /\ LdbOK BY DEF ShapeOK
<1>1. /\ Trouble /\ out' = Forgotten /\ UNCHANGED <<setup, rows, node, submitted, deleted, completions, nextSeq, idx, lost>>
      /\ queue' = [w \in Workers |-> << >>] /\ wk' = [w \in Workers |-> IdleWorker("collect")]
      /\ nonceCache' = [s \in Signers |-> -1] /\ metaCache' = {} /\ lock' = NoWorker /\ busy' = {}
      /\ reader' = [reader EXCEPT !.pc = "time"]
      /\ locked' = [s \in Signers |-> NoRequest] /\ mux' = NoRequest
      /\ ins' = [r \in Requests |-> IF ins[r].pc \in {"idle", "done"} THEN ins[r] ELSE [IdleInsert EXCEPT !.pc = "done"]]
  BY DEF Crash, WriterRestarts, LdbRestarts
<1>2. IdleWorker("collect") \in Worker /\ IdleWorker("collect").ops = << >> /\ IdleWorker("collect").pc = "collect"
  BY IdleType DEF WorkerPCs
<1>3. CommonOK'
  <2>1. bounds' \in [ops: Nat, trouble: Nat] BY <1>1, ShapeFrames
  <2>2. \A r \in Requests: out[r] \in [1..Size(r) -> Outcomes] BY <1>0 DEF CommonOK
  <2> DEFINE o == Forgotten
  <2>3. o = [r \in Requests |-> [i \in 1..Size(r) |-> IF out[r][i] = "waiting" THEN "lost" ELSE out[r][i]]] BY DEF Forgotten
  <2> HIDE DEF o
  <2>4. \A r \in Requests: \A i \in 1..Size(r): o[r][i] \in Outcomes BY <2>2, <2>3 DEF Outcomes
  <2>5. o = [r \in Requests |-> [i \in 1..Size(r) |-> o[r][i]]] BY <2>3
  <2>6. out' = o BY <1>1 DEF o
  <2> QED BY <1>0, <1>1, <2>1, <2>4, <2>5, <2>6, OutType
<1>4. RowsOK' BY <1>1, ShapeFrames
<1>5. BatchesOK'
  <2>1. BatchMaxSize \in Nat \ {0} BY WriterAssumption
  <2>2. << >> \in Seq(Operation \cup {Shutdown}) /\ Len(<< >>) = 0 OBVIOUS
  <2> QED BY <1>1, <1>2, <2>1, <2>2 DEF BatchesOK, InFlight
<1>6. TablesOK'
  <2>1. reader' \in [pc: {"time", "poll", "wait", "waiting"}, after: Nat, since: BOOLEAN, seen: SUBSET Txs]
    BY <1>0, <1>1 DEF TablesOK
  <2>2. nonceCache' \in [Signers -> Int] BY <1>1
  <2> QED BY <1>0, <1>1, <2>1, <2>2 DEF TablesOK
<1>7. \A r \in Requests: ins'[r] \in Insert /\ ins'[r].pc \in {"idle", "done"} /\ (ins'[r].pc = "idle" => ins'[r].i = 1)
  <2> SUFFICES ASSUME NEW r \in Requests
               PROVE  ins'[r] \in Insert /\ ins'[r].pc \in {"idle", "done"} /\ (ins'[r].pc = "idle" => ins'[r].i = 1)
    OBVIOUS
  <2>1. CASE ins[r].pc \in {"idle", "done"} BY <1>0, <1>1, <2>1 DEF LdbOK
  <2>2. CASE ins[r].pc \notin {"idle", "done"}
    <3> DEFINE x == [IdleInsert EXCEPT !.pc = "done"]
    <3>1. x \in Insert /\ x.pc = "done" BY DEF IdleInsert, Insert
    <3>2. ins'[r] = x BY <1>1, <2>2
    <3> HIDE DEF x
    <3> QED BY <3>1, <3>2
  <2> QED BY <2>1, <2>2
<1>8. LdbOK'
  <2>1. DOMAIN ins' = Requests /\ ins' \in [Requests -> Insert] BY <1>1, <1>7
  <2> QED BY <1>0, <1>1, <1>7, <2>1 DEF LdbOK
<1>9. reader'.after = reader.after /\ reader'.seen = reader.seen BY <1>0, <1>1 DEF TablesOK
<1> QED BY <1>1, <1>2, <1>3, <1>4, <1>5, <1>6, <1>7, <1>8, <1>9 DEF ShapeOK

LEMMA SubmitShape ==
    ASSUME ShapeOK, NEW t \in Txs, Submit(t), UNCHANGED <<writerVars, ldbVars>>
    PROVE  /\ ShapeOK' /\ SignerOf[t] \in Signers /\ node' = [node EXCEPT ![SignerOf[t]] = @ + 1]
           /\ \A s \in Signers: node'[s] >= node[s]
<1>0. CommonOK BY DEF ShapeOK
<1>1. SignerOf[t] \in Signers BY SignerAssumption
<1>2. rows[t].nonce \in Nat BY DEF Submit, ShapeOK, RowsOK
<1>3. node' = [node EXCEPT ![SignerOf[t]] = @ + 1] /\ node \in [Signers -> Nat] BY <1>0 DEF Submit, CommonOK
<1>4. node' \in [Signers -> Nat] /\ \A s \in Signers: node'[s] >= node[s] BY <1>1, <1>3
<1>5. submitted' \subseteq Signers \X Nat \X Txs BY <1>0, <1>1, <1>2 DEF Submit, CommonOK
<1>6. CommonOK' BY <1>0, <1>4, <1>5 DEF Submit, CommonOK, Size
<1> QED BY <1>1, <1>3, <1>4, <1>6, ShapeFrames DEF ShapeOK, Submit, writerVars

(***************************************************************************)
(* Postgres: where the operations are                                      *)
(***************************************************************************)

LEMMA SameOps ==
    ASSUME RoutedOK, OneAwaited, UNCHANGED <<queue, busy>>, \A v \in Workers: wk'[v].ops = wk[v].ops
    PROVE  RoutedOK' /\ OneAwaited'
<1>1. RoutedOK' BY DEF RoutedOK, Routine
<1>2. OneAwaited' BY DEF OneAwaited, Awaited
<1> QED BY <1>1, <1>2

\* The types of the operations.
LEMMA OpsTyped ==
    ASSUME ShapeOK, NEW w \in Workers
    PROVE  /\ wk[w] \in Worker /\ wk[w].ops \in Seq(Operation) /\ queue[w] \in Seq(Operation \cup {Shutdown})
           /\ Len(wk[w].ops) \in Nat /\ DOMAIN wk[w].ops = 1..Len(wk[w].ops) /\ \A i \in DOMAIN wk[w].ops: wk[w].ops[i] \in Operation
           /\ Len(queue[w]) \in Nat /\ DOMAIN queue[w] = 1..Len(queue[w])
           /\ \A i \in DOMAIN queue[w]: /\ queue[w][i] \in Operation \cup {Shutdown}
                                        /\ queue[w][i].kind # "shutdown" => queue[w][i] \in Operation
<1>1. wk[w] \in Worker /\ queue[w] \in Seq(Operation \cup {Shutdown}) BY DEF ShapeOK, BatchesOK
<1>2. wk[w].ops \in Seq(Operation) BY <1>1 DEF Worker
<1>3. \A op \in Operation \cup {Shutdown}: op.kind # "shutdown" => op \in Operation BY DEF Shutdown
<1>4. \A i \in DOMAIN queue[w]: queue[w][i] \in Operation \cup {Shutdown} BY <1>1
<1> QED BY <1>1, <1>2, <1>3, <1>4

LEMMA SameUpdates ==
    ASSUME ShapeOK, UpdatedExist, UNCHANGED queue, \A v \in Workers: wk'[v].ops = wk[v].ops, \A t \in Txs: Exists(t) => Exists(t)'
    PROVE  UpdatedExist'
<1> SUFFICES ASSUME NEW w \in Workers
             PROVE  /\ \A i \in DOMAIN wk[w].ops: wk[w].ops[i].kind = "update" => Exists(wk[w].ops[i].tx)'
                    /\ \A i \in DOMAIN queue[w]: queue[w][i].kind = "update" => Exists(queue[w][i].tx)'
  BY DEF UpdatedExist, Exists
<1>1. \A i \in DOMAIN wk[w].ops: wk[w].ops[i].tx \in Txs BY OpsTyped DEF Operation
<1>2. \A i \in DOMAIN queue[w]: queue[w][i].kind = "update" => queue[w][i].tx \in Txs BY OpsTyped DEF Operation
<1> QED BY <1>1, <1>2 DEF UpdatedExist

\* A queue takes an operation.
LEMMA QueueOps ==
    ASSUME ShapeOK, RoutedOK, OneAwaited, UpdatedExist, NEW w \in Workers, NEW op \in Operation \cup {Shutdown},
           op.kind # "shutdown" => w = Routine(op), Awaited(op) => op.tx \notin busy /\ Exists(op.tx),
           queue' = [queue EXCEPT ![w] = Append(@, op)], UNCHANGED <<wk, rows>>,
           busy' = IF Awaited(op) THEN busy \cup {op.tx} ELSE busy
    PROVE  RoutedOK' /\ OneAwaited' /\ UpdatedExist'
<1> DEFINE n == Len(queue[w])
<1>0. queue \in [Workers -> Seq(Operation \cup {Shutdown})] BY DEF ShapeOK, BatchesOK
<1>1. queue[w] \in Seq(Operation \cup {Shutdown}) /\ n \in Nat /\ DOMAIN queue[w] = 1..n BY OpsTyped
<1>2. queue'[w] = Append(queue[w], op) /\ \A v \in Workers \ {w}: queue'[v] = queue[v] BY <1>0
<1>3. /\ DOMAIN queue'[w] = 1..(n + 1) /\ \A i \in 1..n: queue'[w][i] = queue[w][i]
      /\ queue'[w][n + 1] = op
  BY <1>1, <1>2
<1> HIDE DEF n
<1>4. ASSUME NEW v \in Workers, NEW i \in DOMAIN queue'[v]
      PROVE  (i \in DOMAIN queue[v] /\ queue'[v][i] = queue[v][i]) \/ (v = w /\ i = n + 1 /\ i \notin DOMAIN queue[v] /\ queue'[v][i] = op)
  <2>1. CASE v # w BY <1>2, <1>4, <2>1
  <2>2. CASE v = w BY <1>1, <1>3, <1>4, <2>2
  <2> QED BY <2>1, <2>2
<1>5. RoutedOK'
  <2>1. ASSUME NEW v \in Workers, NEW i \in DOMAIN queue'[v], queue'[v][i].kind # "shutdown" PROVE Routine(queue'[v][i]) = v
    BY <1>4, <2>1 DEF RoutedOK
  <2>2. \A v \in Workers: \A i \in DOMAIN wk[v].ops: Routine(wk[v].ops[i]) = v BY DEF RoutedOK
  <2> QED BY <2>1, <2>2 DEF RoutedOK, Routine
<1>6. OneAwaited'
  <2> SUFFICES ASSUME NEW v \in Workers
               PROVE  LET ops == wk[v].ops
                          q == queue'[v]
                      IN  /\ \A i \in DOMAIN ops: Awaited(ops[i]) => ops[i].tx \in busy'
                          /\ \A i \in DOMAIN q: Awaited(q[i]) => q[i].tx \in busy'
                          /\ \A i, j \in DOMAIN ops: Awaited(ops[i]) /\ Awaited(ops[j]) /\ ops[i].tx = ops[j].tx => i = j
                          /\ \A i, j \in DOMAIN q: Awaited(q[i]) /\ Awaited(q[j]) /\ q[i].tx = q[j].tx => i = j
                          /\ \A i \in DOMAIN ops, j \in DOMAIN q: Awaited(ops[i]) /\ Awaited(q[j]) => ops[i].tx # q[j].tx
    BY DEF OneAwaited, Awaited
  <2>1. busy \subseteq busy' /\ (Awaited(op) => op.tx \in busy') OBVIOUS
  <2>2. /\ \A i \in DOMAIN wk[v].ops: Awaited(wk[v].ops[i]) => wk[v].ops[i].tx \in busy
        /\ \A i \in DOMAIN queue[v]: Awaited(queue[v][i]) => queue[v][i].tx \in busy
        /\ \A i, j \in DOMAIN wk[v].ops: Awaited(wk[v].ops[i]) /\ Awaited(wk[v].ops[j]) /\ wk[v].ops[i].tx = wk[v].ops[j].tx => i = j
        /\ \A i, j \in DOMAIN queue[v]: Awaited(queue[v][i]) /\ Awaited(queue[v][j]) /\ queue[v][i].tx = queue[v][j].tx => i = j
        /\ \A i \in DOMAIN wk[v].ops, j \in DOMAIN queue[v]: Awaited(wk[v].ops[i]) /\ Awaited(queue[v][j]) => wk[v].ops[i].tx # queue[v][j].tx
    BY DEF OneAwaited
  <2> HIDE DEF Awaited
  <2>3. \A i \in DOMAIN queue'[v]: Awaited(queue'[v][i]) => queue'[v][i].tx \in busy' BY <1>4, <2>1, <2>2
  <2>4. ASSUME NEW i \in DOMAIN queue'[v], NEW j \in DOMAIN queue'[v], Awaited(queue'[v][i]), Awaited(queue'[v][j]),
               queue'[v][i].tx = queue'[v][j].tx
        PROVE  i = j
    <3>1. CASE queue'[v][i] = op /\ i \notin DOMAIN queue[v] BY <1>4, <2>2, <2>4, <3>1
    <3>2. CASE queue'[v][j] = op /\ j \notin DOMAIN queue[v] BY <1>4, <2>2, <2>4, <3>2
    <3>3. CASE i \in DOMAIN queue[v] /\ j \in DOMAIN queue[v] BY <1>4, <2>2, <2>4, <3>3
    <3> QED BY <1>4, <3>1, <3>2, <3>3
  <2>5. \A i \in DOMAIN wk[v].ops, j \in DOMAIN queue'[v]: Awaited(wk[v].ops[i]) /\ Awaited(queue'[v][j]) => wk[v].ops[i].tx # queue'[v][j].tx
    BY <1>4, <2>2
  <2> QED BY <2>1, <2>2, <2>3, <2>4, <2>5
<1>7. UpdatedExist'
  <2>1. \A v \in Workers: \A i \in DOMAIN queue'[v]: queue'[v][i].kind = "update" => Exists(queue'[v][i].tx)
    BY <1>4 DEF UpdatedExist, Awaited
  <2>2. \A v \in Workers: \A i \in DOMAIN wk[v].ops: wk[v].ops[i].kind = "update" => Exists(wk[v].ops[i].tx) BY DEF UpdatedExist
  <2> QED BY <2>1, <2>2 DEF UpdatedExist, Exists
<1> QED BY <1>5, <1>6, <1>7

\* A worker takes an operation from its queue.
LEMMA CollectOps ==
    ASSUME ShapeOK, RoutedOK, OneAwaited, UpdatedExist, NEW w \in Workers, Collect(w)
    PROVE  RoutedOK' /\ OneAwaited' /\ UpdatedExist'
<1> DEFINE n == Len(wk[w].ops)
           op == queue[w][1]
<1>0. /\ DOMAIN queue[w] = 1..Len(queue[w]) /\ Len(queue[w]) \in Nat \ {0} /\ queue' = [queue EXCEPT ![w] = Tail(@)]
      /\ wk'[w].ops = IF op.kind = "shutdown" THEN wk[w].ops ELSE Append(wk[w].ops, op)
      /\ op.kind # "shutdown" => op \in Operation
      /\ \A v \in Workers \ {w}: wk'[v] = wk[v] /\ queue'[v] = queue[v]
  BY CollectType DEF ShapeOK
<1>1. wk[w].ops \in Seq(Operation) /\ n \in Nat /\ DOMAIN wk[w].ops = 1..n /\ queue[w] \in Seq(Operation \cup {Shutdown}) BY OpsTyped
<1>2. queue'[w] = Tail(queue[w]) /\ queue[w] # << >>
  <2>1. queue \in [Workers -> Seq(Operation \cup {Shutdown})] BY DEF ShapeOK, BatchesOK
  <2> QED BY <1>0, <2>1 DEF Collect
<1>3. UNCHANGED <<rows, busy>> BY DEF Collect, storeVars
<1>4. ASSUME NEW v \in Workers, NEW i \in DOMAIN queue'[v]
      PROVE  IF v = w THEN i + 1 \in DOMAIN queue[v] /\ i + 1 # 1 /\ queue'[v][i] = queue[v][i + 1] /\ i \in Int
                      ELSE i \in DOMAIN queue[v] /\ queue'[v][i] = queue[v][i]
  <2>1. CASE v # w BY <1>0, <1>4, <2>1
  <2>2. CASE v = w
    <3>1. DOMAIN Tail(queue[w]) = 1..(Len(queue[w]) - 1) /\ \A k \in 1..(Len(queue[w]) - 1): Tail(queue[w])[k] = queue[w][k + 1]
      BY <1>1, <1>2
    <3>2. i \in 1..(Len(queue[w]) - 1) /\ queue'[w][i] = queue[w][i + 1] BY <1>2, <1>4, <2>2, <3>1
    <3>3. i + 1 \in 1..Len(queue[w]) /\ i + 1 # 1 /\ i \in Int BY <1>0, <3>2
    <3> QED BY <1>0, <2>2, <3>2, <3>3
  <2> QED BY <2>1, <2>2
<1>5. ASSUME NEW v \in Workers, NEW i \in DOMAIN wk'[v].ops
      PROVE  \/ i \in DOMAIN wk[v].ops /\ wk'[v].ops[i] = wk[v].ops[i]
             \/ v = w /\ i = n + 1 /\ i \notin DOMAIN wk[v].ops /\ wk'[v].ops[i] = op /\ op.kind # "shutdown"
  <2>1. CASE v # w BY <1>0, <1>5, <2>1
  <2>2. CASE v = w /\ op.kind = "shutdown" BY <1>0, <1>5, <2>2
  <2>3. CASE v = w /\ op.kind # "shutdown"
    <3>1. wk'[w].ops = Append(wk[w].ops, op) /\ op \in Operation BY <1>0, <2>3
    <3> HIDE DEF op
    <3>2. DOMAIN wk'[w].ops = 1..(n + 1) /\ (\A k \in 1..n: wk'[w].ops[k] = wk[w].ops[k]) /\ wk'[w].ops[n + 1] = op
      BY <1>1, <3>1
    <3> QED BY <1>1, <1>5, <2>3, <3>2
  <2> QED BY <2>1, <2>2, <2>3
<1>6. 1 \in DOMAIN queue[w] BY <1>0
<1> HIDE DEF n, op
<1>7. RoutedOK'
  <2>1. \A v \in Workers: \A i \in DOMAIN queue'[v]: queue'[v][i].kind # "shutdown" => Routine(queue'[v][i]) = v
    BY <1>4 DEF RoutedOK
  <2>2. \A v \in Workers: \A i \in DOMAIN wk'[v].ops: Routine(wk'[v].ops[i]) = v BY <1>5, <1>6 DEF RoutedOK, op
  <2> QED BY <2>1, <2>2 DEF RoutedOK, Routine
<1>8. UpdatedExist'
  <2>1. \A v \in Workers: \A i \in DOMAIN queue'[v]: queue'[v][i].kind = "update" => Exists(queue'[v][i].tx) BY <1>4 DEF UpdatedExist
  <2>2. \A v \in Workers: \A i \in DOMAIN wk'[v].ops: wk'[v].ops[i].kind = "update" => Exists(wk'[v].ops[i].tx)
    BY <1>5, <1>6 DEF UpdatedExist, op
  <2> QED BY <1>3, <2>1, <2>2 DEF UpdatedExist, Exists
<1>9. OneAwaited'
  <2> SUFFICES ASSUME NEW v \in Workers
               PROVE  LET ops == wk'[v].ops
                          q == queue'[v]
                      IN  /\ \A i \in DOMAIN ops: Awaited(ops[i]) => ops[i].tx \in busy
                          /\ \A i \in DOMAIN q: Awaited(q[i]) => q[i].tx \in busy
                          /\ \A i, j \in DOMAIN ops: Awaited(ops[i]) /\ Awaited(ops[j]) /\ ops[i].tx = ops[j].tx => i = j
                          /\ \A i, j \in DOMAIN q: Awaited(q[i]) /\ Awaited(q[j]) /\ q[i].tx = q[j].tx => i = j
                          /\ \A i \in DOMAIN ops, j \in DOMAIN q: Awaited(ops[i]) /\ Awaited(q[j]) => ops[i].tx # q[j].tx
    BY <1>3 DEF OneAwaited, Awaited
  <2>2. /\ \A i \in DOMAIN wk[v].ops: Awaited(wk[v].ops[i]) => wk[v].ops[i].tx \in busy
        /\ \A i \in DOMAIN queue[v]: Awaited(queue[v][i]) => queue[v][i].tx \in busy
        /\ \A i, j \in DOMAIN wk[v].ops: Awaited(wk[v].ops[i]) /\ Awaited(wk[v].ops[j]) /\ wk[v].ops[i].tx = wk[v].ops[j].tx => i = j
        /\ \A i, j \in DOMAIN queue[v]: Awaited(queue[v][i]) /\ Awaited(queue[v][j]) /\ queue[v][i].tx = queue[v][j].tx => i = j
        /\ \A i \in DOMAIN wk[v].ops, j \in DOMAIN queue[v]: Awaited(wk[v].ops[i]) /\ Awaited(queue[v][j]) => wk[v].ops[i].tx # queue[v][j].tx
    BY DEF OneAwaited
  <2>3. \A i \in DOMAIN queue'[v]: Awaited(queue'[v][i]) => queue'[v][i].tx \in busy BY <1>4, <2>2
  <2>4. \A i \in DOMAIN wk'[v].ops: Awaited(wk'[v].ops[i]) => wk'[v].ops[i].tx \in busy BY <1>5, <1>6, <2>2 DEF op
  <2>5. ASSUME NEW i \in DOMAIN queue'[v], NEW j \in DOMAIN queue'[v], Awaited(queue'[v][i]), Awaited(queue'[v][j]),
               queue'[v][i].tx = queue'[v][j].tx
        PROVE  i = j
    <3>1. CASE v = w
      <4>1. i + 1 = j + 1 /\ i \in Int /\ j \in Int BY <1>4, <2>2, <2>5, <3>1
      <4> QED BY <4>1
    <3>2. CASE v # w BY <1>4, <2>2, <2>5, <3>2
    <3> QED BY <3>1, <3>2
  <2>6. ASSUME NEW i \in DOMAIN wk'[v].ops, NEW j \in DOMAIN wk'[v].ops, Awaited(wk'[v].ops[i]), Awaited(wk'[v].ops[j]),
               wk'[v].ops[i].tx = wk'[v].ops[j].tx
        PROVE  i = j
    <3>1. CASE i \in DOMAIN wk[v].ops /\ j \in DOMAIN wk[v].ops
      <4>1. wk'[v].ops[i] = wk[v].ops[i] /\ wk'[v].ops[j] = wk[v].ops[j] BY <1>5, <3>1
      <4> QED BY <2>2, <2>6, <3>1, <4>1
    <3>2. CASE i \notin DOMAIN wk[v].ops /\ j \notin DOMAIN wk[v].ops BY <1>5, <2>6, <3>2
    <3>3. CASE i \in DOMAIN wk[v].ops /\ j \notin DOMAIN wk[v].ops
      <4>1. v = w /\ wk'[v].ops[i] = wk[v].ops[i] /\ wk'[v].ops[j] = queue[v][1] BY <1>5, <2>6, <3>3 DEF op
      <4> QED BY <1>6, <2>2, <2>6, <3>3, <4>1
    <3>4. CASE i \notin DOMAIN wk[v].ops /\ j \in DOMAIN wk[v].ops
      <4>1. v = w /\ wk'[v].ops[j] = wk[v].ops[j] /\ wk'[v].ops[i] = queue[v][1] BY <1>5, <2>6, <3>4 DEF op
      <4> QED BY <1>6, <2>2, <2>6, <3>4, <4>1
    <3> QED BY <3>1, <3>2, <3>3, <3>4
  <2>7. ASSUME NEW i \in DOMAIN wk'[v].ops, NEW j \in DOMAIN queue'[v], Awaited(wk'[v].ops[i]), Awaited(queue'[v][j])
        PROVE  wk'[v].ops[i].tx # queue'[v][j].tx
    <3>1. CASE v # w BY <1>4, <1>5, <2>2, <2>7, <3>1
    <3>2. CASE v = w /\ i \in DOMAIN wk[v].ops /\ wk'[v].ops[i] = wk[v].ops[i] BY <1>4, <2>2, <2>7, <3>2
    <3>3. CASE v = w /\ wk'[v].ops[i] = queue[v][1]
      <4>1. j + 1 \in DOMAIN queue[v] /\ j + 1 # 1 /\ queue'[v][j] = queue[v][j + 1] /\ 1 \in DOMAIN queue[v] BY <1>4, <1>6, <2>7, <3>3
      <4> QED BY <2>2, <2>7, <3>3, <4>1
    <3> QED BY <1>5, <2>7, <3>1, <3>2, <3>3 DEF op
  <2> QED BY <2>3, <2>4, <2>5, <2>6, <2>7
<1> QED BY <1>7, <1>8, <1>9

\* A batch ends: nothing else is awaited for what it has answered.
LEMMA FinishOps ==
    ASSUME ShapeOK, RoutedOK, OneAwaited, UpdatedExist, NEW w \in Workers, Finish(w)
    PROVE  RoutedOK' /\ OneAwaited' /\ UpdatedExist'
<1> DEFINE b == wk[w]
           pc == IF b.closing THEN "done" ELSE "collect"
           gone == TxsOf(b.ops, "update") \cup TxsOf(b.ops, "delete")
<1>0. /\ busy' = busy \ gone /\ wk' = [wk EXCEPT ![w] = IdleWorker(pc)] /\ UNCHANGED <<rows, queue>>
  BY DEF Finish
<1>1. pc \in WorkerPCs BY DEF WorkerPCs
<1>2. wk'[w].ops = << >> /\ \A v \in Workers \ {w}: wk'[v] = wk[v] BY <1>0, <1>1, IdleType DEF ShapeOK, BatchesOK
<1>3. DOMAIN wk'[w].ops = {} BY <1>2
<1>4. ASSUME NEW t \in gone PROVE t \in Txs /\ WorkerOf[t] = w /\ \E i \in DOMAIN b.ops: Awaited(b.ops[i]) /\ b.ops[i].tx = t
  <2>1. PICK i \in DOMAIN b.ops: b.ops[i].kind \in {"update", "delete"} /\ b.ops[i].tx = t BY <1>4 DEF TxsOf, OpsOf, Range
  <2>2. b.ops[i] \in Operation /\ Routine(b.ops[i]) = w BY <2>1, OpsTyped DEF RoutedOK
  <2> QED BY <2>1, <2>2 DEF Awaited, Routine, Operation
<1> HIDE DEF gone, pc, b
<1>5. \A v \in Workers: \A i \in DOMAIN wk'[v].ops: v # w /\ wk'[v].ops = wk[v].ops BY <1>2, <1>3
<1>6. RoutedOK' BY <1>0, <1>5 DEF RoutedOK, Routine
<1>7. UpdatedExist'
  <2>1. \A v \in Workers: \A i \in DOMAIN wk'[v].ops: wk'[v].ops[i].kind = "update" => Exists(wk'[v].ops[i].tx)
    BY <1>5 DEF UpdatedExist
  <2>2. \A v \in Workers: \A i \in DOMAIN queue[v]: queue[v][i].kind = "update" => Exists(queue[v][i].tx) BY DEF UpdatedExist
  <2> QED BY <1>0, <2>1, <2>2 DEF UpdatedExist, Exists
<1>8. ASSUME NEW v \in Workers, NEW i \in DOMAIN queue[v], Awaited(queue[v][i]) PROVE queue[v][i].tx \notin gone
  <2> SUFFICES ASSUME queue[v][i].tx \in gone PROVE FALSE OBVIOUS
  <2>1. queue[v][i].kind # "shutdown" /\ Routine(queue[v][i]) = v /\ Routine(queue[v][i]) = WorkerOf[queue[v][i].tx]
    BY <1>8 DEF Awaited, RoutedOK, Routine
  <2>2. v = w BY <1>4, <2>1
  <2>3. PICK j \in DOMAIN b.ops: Awaited(b.ops[j]) /\ b.ops[j].tx = queue[v][i].tx BY <1>4
  <2> QED BY <1>8, <2>2, <2>3 DEF OneAwaited, b
<1>9. ASSUME NEW v \in Workers, v # w, NEW i \in DOMAIN wk[v].ops, Awaited(wk[v].ops[i]) PROVE wk[v].ops[i].tx \notin gone
  <2>1. Routine(wk[v].ops[i]) = v /\ Routine(wk[v].ops[i]) = WorkerOf[wk[v].ops[i].tx] BY <1>9 DEF Awaited, RoutedOK, Routine
  <2> QED BY <1>4, <1>9, <2>1
<1>10. OneAwaited'
  <2> SUFFICES ASSUME NEW v \in Workers
               PROVE  LET ops == wk'[v].ops
                          q == queue[v]
                      IN  /\ \A i \in DOMAIN ops: Awaited(ops[i]) => ops[i].tx \in busy'
                          /\ \A i \in DOMAIN q: Awaited(q[i]) => q[i].tx \in busy'
                          /\ \A i, j \in DOMAIN ops: Awaited(ops[i]) /\ Awaited(ops[j]) /\ ops[i].tx = ops[j].tx => i = j
                          /\ \A i, j \in DOMAIN q: Awaited(q[i]) /\ Awaited(q[j]) /\ q[i].tx = q[j].tx => i = j
                          /\ \A i \in DOMAIN ops, j \in DOMAIN q: Awaited(ops[i]) /\ Awaited(q[j]) => ops[i].tx # q[j].tx
    BY <1>0 DEF OneAwaited, Awaited
  <2>1. /\ \A i \in DOMAIN wk[v].ops: Awaited(wk[v].ops[i]) => wk[v].ops[i].tx \in busy
        /\ \A i \in DOMAIN queue[v]: Awaited(queue[v][i]) => queue[v][i].tx \in busy
        /\ \A i, j \in DOMAIN wk[v].ops: Awaited(wk[v].ops[i]) /\ Awaited(wk[v].ops[j]) /\ wk[v].ops[i].tx = wk[v].ops[j].tx => i = j
        /\ \A i, j \in DOMAIN queue[v]: Awaited(queue[v][i]) /\ Awaited(queue[v][j]) /\ queue[v][i].tx = queue[v][j].tx => i = j
        /\ \A i \in DOMAIN wk[v].ops, j \in DOMAIN queue[v]: Awaited(wk[v].ops[i]) /\ Awaited(queue[v][j]) => wk[v].ops[i].tx # queue[v][j].tx
    BY DEF OneAwaited
  <2>2. \A i \in DOMAIN queue[v]: Awaited(queue[v][i]) => queue[v][i].tx \in busy' BY <1>0, <1>8, <2>1
  <2>3. CASE v = w BY <1>3, <2>1, <2>2, <2>3
  <2>4. CASE v # w
    <3>1. wk'[v] = wk[v] BY <1>2, <2>4
    <3>2. \A i \in DOMAIN wk[v].ops: Awaited(wk[v].ops[i]) => wk[v].ops[i].tx \in busy' BY <1>0, <1>9, <2>1, <2>4
    <3> QED BY <2>1, <2>2, <3>1, <3>2
  <2> QED BY <2>3, <2>4
<1> QED BY <1>6, <1>7, <1>10

\* What a commit does to the records.
LEMMA CommitRows ==
    ASSUME ShapeOK, UpdatedExist, NoncesOK, NEW w \in Workers, Commit(w), InsertsNew(wk[w])
    PROVE  LET b == wk[w]
               gone == TxsOf(b.ops, "delete")
           IN  /\ \A i \in ValidInserts(b):
                    /\ rows'[b.ops[i].tx] # NoRow /\ rows'[b.ops[i].tx].nonce = AssignedNonce(b, i)
                    /\ b.nonces[SignerOf[b.ops[i].tx]] \in Nat /\ AssignedNonce(b, i) \in Nat
               /\ \A t \in Txs: Exists(t) /\ t \in gone => ~Exists(t)' /\ <<SignerOf[t], rows[t].nonce>> \in deleted'
               /\ \A t \in Txs: Exists(t) /\ t \notin gone => Exists(t)' /\ rows'[t].nonce = rows[t].nonce
               /\ \A t \in Txs: Exists(t)' =>
                    (Exists(t) /\ t \notin gone) \/ \E i \in ValidInserts(b): b.ops[i].tx = t
               /\ deleted \subseteq deleted'
<1> DEFINE b == wk[w]
           gone == TxsOf(b.ops, "delete")
<1>0. b.pc = "commit" /\ InFlight(w) BY DEF Commit, InFlight
<1>1. /\ \A t \in Txs: rows'[t] = RowAfter(b, t)
      /\ deleted' = deleted \cup {<<SignerOf[t], rows[t].nonce>>: t \in gone}
  BY DEF Commit
<1>2. ASSUME NEW t \in Txs
      PROVE  /\ t \in gone => rows'[t] = NoRow
             /\ t \notin gone =>
                  \/ \E i \in ValidInserts(b): b.ops[i].tx = t /\ rows'[t].nonce = AssignedNonce(b, i)
                  \/ (\A i \in ValidInserts(b): b.ops[i].tx # t) /\ IF Exists(t) THEN rows'[t].nonce = rows[t].nonce ELSE rows'[t] = NoRow
  BY <1>0, <1>1, RowAfterOK
<1>3. ASSUME NEW i \in ValidInserts(b)
      PROVE  b.nonces[SignerOf[b.ops[i].tx]] \in Nat /\ AssignedNonce(b, i) \in Nat /\ b.ops[i].tx \in Txs
  <2> DEFINE s == SignerOf[b.ops[i].tx]
  <2>1. /\ b.ops[i] \in Operation /\ s \in Signers /\ i \in ValidFor(b, s)
        /\ AssignedNonce(b, i) \in Int /\ AssignedNonce(b, i) >= b.nonces[s]
    BY <1>0, AssignedOK
  <2>2. b.nonces[s] \in Nat BY <1>0, <2>1 DEF NoncesOK, Beyond
  <2> HIDE DEF s, b
  <2>3. AssignedNonce(b, i) \in Nat BY <2>1, <2>2
  <2> QED BY <2>1, <2>2, <2>3 DEF Operation, s
<1>4. \A n \in Nat: n # -1 OBVIOUS
<1>5. ASSUME NEW i \in ValidInserts(b) PROVE rows'[b.ops[i].tx] # NoRow /\ rows'[b.ops[i].tx].nonce = AssignedNonce(b, i)
  <2> DEFINE t == b.ops[i].tx
  <2>1. t \in Txs /\ t \notin gone BY <1>3 DEF InsertsNew
  <2>2. PICK j \in ValidInserts(b): b.ops[j].tx = t /\ rows'[t].nonce = AssignedNonce(b, j) BY <1>2, <2>1
  <2>3. j = i BY <2>2 DEF InsertsNew
  <2>4. rows'[t].nonce \in Nat /\ rows'[t].nonce = AssignedNonce(b, i) BY <1>3, <2>2, <2>3
  <2> HIDE DEF t, b
  <2>5. rows'[t] # NoRow BY <1>4, <2>4 DEF NoRow
  <2> QED BY <2>4, <2>5 DEF t
<1>6. ASSUME NEW t \in Txs, Exists(t), t \notin gone PROVE Exists(t)' /\ rows'[t].nonce = rows[t].nonce
  <2>1. \A i \in ValidInserts(b): b.ops[i].tx # t BY <1>6 DEF InsertsNew
  <2>2. rows'[t].nonce = rows[t].nonce BY <1>2, <1>6, <2>1
  <2>3. rows[t].nonce \in Nat BY <1>6 DEF ShapeOK, RowsOK
  <2>4. rows'[t] # NoRow BY <1>4, <2>2, <2>3 DEF NoRow
  <2> QED BY <2>2, <2>4 DEF Exists
<1>7. ASSUME NEW t \in Txs, Exists(t), t \in gone PROVE ~Exists(t)' /\ <<SignerOf[t], rows[t].nonce>> \in deleted'
  BY <1>1, <1>2, <1>7 DEF Exists
<1>8. ASSUME NEW t \in Txs, Exists(t)' PROVE (Exists(t) /\ t \notin gone) \/ \E i \in ValidInserts(b): b.ops[i].tx = t
  BY <1>2, <1>8 DEF Exists
<1>9. deleted \subseteq deleted' BY <1>1
<1> QED BY <1>3, <1>5, <1>6, <1>7, <1>8, <1>9

\* What is updated is not deleted by anyone meanwhile.
LEMMA CommitOps ==
    ASSUME ShapeOK, RoutedOK, OneAwaited, UpdatedExist, NoncesOK, NEW w \in Workers, Commit(w), InsertsNew(wk[w])
    PROVE  RoutedOK' /\ OneAwaited' /\ UpdatedExist' /\ \A v \in Workers: wk'[v].ops = wk[v].ops /\ wk'[v].conflicts = wk[v].conflicts
<1> DEFINE b == wk[w]
           gone == TxsOf(b.ops, "delete")
           pc == IF Completes(b) = {} THEN "reply" ELSE "notify"
<1>0. wk' = [wk EXCEPT ![w].pc = pc] /\ UNCHANGED <<queue, busy>> BY DEF Commit
<1>1. \A v \in Workers: wk'[v].ops = wk[v].ops /\ wk'[v].conflicts = wk[v].conflicts
  <2>1. wk \in [Workers -> Worker] BY DEF ShapeOK, BatchesOK
  <2> HIDE DEF pc
  <2> QED BY <1>0, <2>1 DEF Worker
<1>2. \A t \in Txs: Exists(t) /\ t \notin gone => rows'[t] # NoRow BY CommitRows DEF Exists
<1>3. ASSUME NEW t \in gone PROVE WorkerOf[t] = w /\ \E i \in DOMAIN b.ops: b.ops[i].kind = "delete" /\ Awaited(b.ops[i]) /\ b.ops[i].tx = t
  <2>1. PICK i \in DOMAIN b.ops: b.ops[i].kind = "delete" /\ b.ops[i].tx = t BY <1>3 DEF TxsOf, OpsOf, Range
  <2> QED BY <2>1 DEF Awaited, RoutedOK, Routine
<1> HIDE DEF gone
<1>4. UpdatedExist'
  <2> SUFFICES ASSUME NEW v \in Workers
               PROVE  /\ \A i \in DOMAIN wk[v].ops: wk[v].ops[i].kind = "update" => rows'[wk[v].ops[i].tx] # NoRow
                      /\ \A i \in DOMAIN queue[v]: queue[v][i].kind = "update" => rows'[queue[v][i].tx] # NoRow
    BY <1>0, <1>1 DEF UpdatedExist, Exists
  <2>1. ASSUME NEW i \in DOMAIN wk[v].ops, wk[v].ops[i].kind = "update" PROVE rows'[wk[v].ops[i].tx] # NoRow
    <3>1. wk[v].ops[i].tx \in Txs /\ Exists(wk[v].ops[i].tx) BY <2>1, OpsTyped DEF Operation, UpdatedExist
    <3>2. wk[v].ops[i].tx \notin gone
      <4> SUFFICES ASSUME wk[v].ops[i].tx \in gone PROVE FALSE OBVIOUS
      <4>1. v = w BY <1>3, <2>1 DEF RoutedOK, Routine
      <4>2. PICK j \in DOMAIN b.ops: b.ops[j].kind = "delete" /\ Awaited(b.ops[j]) /\ b.ops[j].tx = wk[v].ops[i].tx BY <1>3
      <4>3. i = j BY <2>1, <4>1, <4>2 DEF OneAwaited, Awaited
      <4> QED BY <2>1, <4>1, <4>2, <4>3
    <3> QED BY <1>2, <3>1, <3>2
  <2>2. ASSUME NEW i \in DOMAIN queue[v], queue[v][i].kind = "update" PROVE rows'[queue[v][i].tx] # NoRow
    <3>1. queue[v][i].tx \in Txs /\ Exists(queue[v][i].tx) BY <2>2, OpsTyped DEF Operation, UpdatedExist
    <3>2. queue[v][i].tx \notin gone
      <4> SUFFICES ASSUME queue[v][i].tx \in gone PROVE FALSE OBVIOUS
      <4>1. v = w BY <1>3, <2>2 DEF RoutedOK, Routine
      <4>2. PICK j \in DOMAIN b.ops: b.ops[j].kind = "delete" /\ Awaited(b.ops[j]) /\ b.ops[j].tx = queue[v][i].tx BY <1>3
      <4> QED BY <2>2, <4>1, <4>2 DEF OneAwaited, Awaited
    <3> QED BY <1>2, <3>1, <3>2
  <2> QED BY <2>1, <2>2
<1> QED BY <1>0, <1>1, <1>4, SameOps

\* A worker goes on with the batch it has.
LEMMA Moves ==
    ASSUME ShapeOK, NEW w \in Workers, BatchTimeout(w) \/ WriteBatch(w) \/ Commit(w) \/ CommitFails(w) \/ Notify(w)
    PROVE  /\ \A v \in Workers: /\ wk'[v].ops = wk[v].ops /\ wk'[v].conflicts = wk[v].conflicts
                                /\ wk'[v].nonces = wk[v].nonces
           /\ \A v \in Workers \ {w}: wk'[v] = wk[v]
           /\ BatchTimeout(w) => wk[w].pc = "collect" /\ wk'[w].pc = "prepare"
           /\ WriteBatch(w) => wk[w].pc = "write" /\ wk'[w].pc \in {"commit", "failed"}
           /\ Commit(w) => wk[w].pc = "commit" /\ wk'[w].pc \in {"reply", "notify"}
           /\ CommitFails(w) => wk[w].pc = "commit" /\ wk'[w].pc = "failed"
           /\ Notify(w) => wk[w].pc = "notify" /\ wk'[w].pc = "reply"
           /\ UNCHANGED <<queue, busy, nonceCache, node, submitted, setup>>
<1> USE DEF storeVars, cacheVars
<1>0. wk \in [Workers -> Worker] BY DEF ShapeOK, BatchesOK
<1>a. ASSUME NEW pc, wk' = [wk EXCEPT ![w].pc = pc]
      PROVE  /\ \A v \in Workers: /\ wk'[v].ops = wk[v].ops /\ wk'[v].conflicts = wk[v].conflicts
                                  /\ wk'[v].nonces = wk[v].nonces
             /\ wk'[w].pc = pc /\ \A v \in Workers \ {w}: wk'[v] = wk[v]
  BY <1>0, <1>a DEF Worker
<1>b. ASSUME wk' = [wk EXCEPT ![w].pc = "commit", ![w].seqs = nextSeq]
      PROVE  /\ \A v \in Workers: /\ wk'[v].ops = wk[v].ops /\ wk'[v].conflicts = wk[v].conflicts
                                  /\ wk'[v].nonces = wk[v].nonces
             /\ wk'[w].pc = "commit" /\ \A v \in Workers \ {w}: wk'[v] = wk[v]
  BY <1>0, <1>b DEF Worker
<1>1. CASE BatchTimeout(w)
  <2>1. wk' = [wk EXCEPT ![w].pc = "prepare"] /\ wk[w].pc = "collect" /\ UNCHANGED <<queue, busy, nonceCache, node, submitted, setup>>
    BY <1>1 DEF BatchTimeout
  <2>2. wk'[w].pc = "prepare" BY <1>a, <2>1
  <2> QED BY <1>a, <2>1, <2>2 DEF WriteBatch, Commit, CommitFails, Notify
<1>2. CASE WriteBatch(w)
  <2>1. /\ wk[w].pc = "write" /\ UNCHANGED <<queue, busy, nonceCache, node, submitted, setup>>
        /\ wk' = [wk EXCEPT ![w].pc = "failed"] \/ wk' = [wk EXCEPT ![w].pc = "commit", ![w].seqs = nextSeq]
    BY <1>2 DEF WriteBatch
  <2>2. CASE wk' = [wk EXCEPT ![w].pc = "failed"]
    <3>1. wk'[w].pc = "failed" BY <1>a, <2>2
    <3> QED BY <1>a, <2>1, <2>2, <3>1 DEF BatchTimeout, Commit, CommitFails, Notify
  <2>3. CASE wk' = [wk EXCEPT ![w].pc = "commit", ![w].seqs = nextSeq]
    BY <1>b, <2>1, <2>3 DEF BatchTimeout, Commit, CommitFails, Notify
  <2> QED BY <2>1, <2>2, <2>3
<1>3. CASE Commit(w)
  <2> DEFINE pc == IF Completes(wk[w]) = {} THEN "reply" ELSE "notify"
  <2>1. wk' = [wk EXCEPT ![w].pc = pc] /\ wk[w].pc = "commit" /\ UNCHANGED <<queue, busy, nonceCache, node, submitted, setup>>
    BY <1>3 DEF Commit
  <2>2. pc \in {"reply", "notify"} OBVIOUS
  <2> HIDE DEF pc
  <2>3. wk'[w].pc = pc BY <1>a, <2>1
  <2> QED BY <1>a, <2>1, <2>2, <2>3 DEF BatchTimeout, WriteBatch, CommitFails, Notify
<1>4. CASE CommitFails(w)
  <2>1. wk' = [wk EXCEPT ![w].pc = "failed"] /\ wk[w].pc = "commit" /\ UNCHANGED <<queue, busy, nonceCache, node, submitted, setup>>
    BY <1>4 DEF CommitFails
  <2>2. wk'[w].pc = "failed" BY <1>a, <2>1
  <2>3. ~Commit(w)
    <3> SUFFICES ASSUME Commit(w) PROVE FALSE OBVIOUS
    <3> DEFINE pc == IF Completes(wk[w]) = {} THEN "reply" ELSE "notify"
    <3>1. wk' = [wk EXCEPT ![w].pc = pc] BY DEF Commit
    <3>2. pc \in {"reply", "notify"} OBVIOUS
    <3> HIDE DEF pc
    <3>3. wk'[w].pc = pc BY <1>a, <3>1
    <3> QED BY <2>2, <3>2, <3>3
  <2> QED BY <1>a, <2>1, <2>2, <2>3 DEF BatchTimeout, WriteBatch, Notify
<1>5. CASE Notify(w)
  <2>1. wk' = [wk EXCEPT ![w].pc = "reply"] /\ wk[w].pc = "notify" /\ UNCHANGED <<queue, busy, nonceCache, node, submitted, setup>>
    BY <1>5 DEF Notify
  <2>2. wk'[w].pc = "reply" BY <1>a, <2>1
  <2> QED BY <1>a, <2>1, <2>2 DEF BatchTimeout, WriteBatch, Commit, CommitFails
<1> QED BY <1>1, <1>2, <1>3, <1>4, <1>5

LEMMA PrepareMoves ==
    ASSUME ShapeOK, NEW w \in Workers, Prepare(w)
    PROVE  /\ \A v \in Workers: wk'[v].ops = wk[v].ops
           /\ \A v \in Workers \ {w}: wk'[v] = wk[v]
           /\ wk[w].pc = "prepare" /\ wk'[w].pc = "write"
           /\ UNCHANGED <<queue, busy, node, submitted, setup, rows, deleted>>
           /\ \E expired \in BOOLEAN:
                /\ wk'[w].nonces = [s \in Signers |-> NonceFor(s, expired)]
                /\ nonceCache' = [s \in Signers |->
                     IF ValidFor(wk'[w], s) = {} THEN nonceCache[s] ELSE NonceFor(s, expired) + Cardinality(ValidFor(wk'[w], s))]
<1> DEFINE c == [wk[w] EXCEPT !.conflicts = Conflicting(wk[w].ops)]
<1>0. wk[w] \in Worker BY OpsTyped
<1>1. PICK expired \in BOOLEAN:
        /\ wk' = [wk EXCEPT ![w] = [c EXCEPT !.pc = "write", !.nonces = [s \in Signers |-> NonceFor(s, expired)]]]
        /\ nonceCache' = [s \in Signers |->
             IF ValidFor(c, s) = {} THEN nonceCache[s] ELSE NonceFor(s, expired) + Cardinality(ValidFor(c, s))]
  BY DEF Prepare
<1>2. wk[w].pc = "prepare" /\ UNCHANGED <<queue, busy, node, submitted, setup, rows, deleted>> BY DEF Prepare
<1>3. /\ wk'[w].ops = wk[w].ops /\ wk'[w].nonces = [s \in Signers |-> NonceFor(s, expired)]
      /\ wk'[w].pc = "write" /\ wk'[w].conflicts = Conflicting(wk[w].ops) /\ \A v \in Workers \ {w}: wk'[v] = wk[v]
  BY <1>1, <1>2, PrepareType
<1>4. c.ops = wk[w].ops /\ c.conflicts = Conflicting(wk[w].ops) BY <1>0 DEF Worker
<1> HIDE DEF c
<1>5. \A s \in Signers: ValidFor(wk'[w], s) = ValidFor(c, s) BY <1>3, <1>4 DEF ValidFor, ValidInserts
<1>6. nonceCache' = [s \in Signers |->
         IF ValidFor(wk'[w], s) = {} THEN nonceCache[s] ELSE NonceFor(s, expired) + Cardinality(ValidFor(wk'[w], s))]
  BY <1>1, <1>5
<1> QED BY <1>2, <1>3, <1>6

\* No step of the writer breaks this.
LEMMA OpsStep ==
    ASSUME ShapeOK, RoutedOK, OneAwaited, UpdatedExist, NoncesOK, GapsOK, NEW r, NEW t, NEW w,
           \/ (r \in Requests /\ QueueInsert(r)) \/ (t \in Txs /\ QueueWrite(t)) \/ (w \in Workers /\ WorkerStep(w))
           \/ Evict \/ ReaderStep \/ Close \/ StopWorker
    PROVE  RoutedOK' /\ OneAwaited' /\ UpdatedExist'
<1> USE DEF storeVars
<1>a. ASSUME UNCHANGED <<queue, busy, rows>>, \A v \in Workers: wk'[v].ops = wk[v].ops PROVE RoutedOK' /\ OneAwaited' /\ UpdatedExist'
  <2>1. \A u \in Txs: Exists(u) => Exists(u)' BY <1>a DEF Exists
  <2> QED BY <1>a, <2>1, SameOps, SameUpdates
<1>1. ASSUME r \in Requests, QueueInsert(r) PROVE RoutedOK' /\ OneAwaited' /\ UpdatedExist'
  <2>1. PICK i \in 1..Size(r), op \in Operation: op.kind = "insert" /\ Routine(op) \in Workers /\ Queue(op) /\ UNCHANGED <<rows, wk, busy>>
    BY <1>1, InsertQueued
  <2>2. ~Awaited(op) BY <2>1 DEF Awaited
  <2> QED BY <2>1, <2>2, QueueOps DEF Queue
<1>2. ASSUME t \in Txs, QueueWrite(t) PROVE RoutedOK' /\ OneAwaited' /\ UpdatedExist'
  <2>1. PICK op \in Operation:
          /\ op.tx = t /\ Routine(op) \in Workers /\ Queue(op)
          /\ busy' = IF op.kind \in {"update", "delete"} THEN busy \cup {t} ELSE busy
    BY <1>2, WriteQueued
  <2>2. Exists(t) /\ t \notin busy /\ UNCHANGED <<rows, wk>> BY <1>2, WriteQueued
  <2>3. busy' = IF Awaited(op) THEN busy \cup {op.tx} ELSE busy BY <2>1 DEF Awaited
  <2> QED BY <2>1, <2>2, <2>3, QueueOps DEF Queue
<1>3. ASSUME w \in Workers, WorkerStep(w) PROVE RoutedOK' /\ OneAwaited' /\ UpdatedExist'
  <2>1. CASE Collect(w) BY <1>3, <2>1, CollectOps
  <2>2. CASE Finish(w) BY <1>3, <2>2, FinishOps
  <2>3. CASE Prepare(w) BY <1>3, <1>a, <2>3, PrepareMoves
  <2>4. CASE Commit(w) BY <1>3, <2>4, CommitOps, Moves DEF GapsOK
  <2>5. CASE BatchTimeout(w) \/ WriteBatch(w) \/ CommitFails(w) \/ Notify(w)
    <3>1. UNCHANGED rows BY <2>5 DEF BatchTimeout, WriteBatch, CommitFails, Notify
    <3> QED BY <1>3, <1>a, <2>5, <3>1, Moves
  <2> QED BY <1>3, <2>1, <2>2, <2>3, <2>4, <2>5 DEF WorkerStep
<1>4. CASE Evict \/ ReaderStep \/ Close
  BY <1>4, <1>a DEF Evict, ReaderStep, ReadTime, ListTxCompletions, WaitTxCompletionUpdates, Close
<1>5. CASE StopWorker
  <2> DEFINE v == WorkerSeq[stop]
  <2>1. UNCHANGED <<rows, wk, busy>> BY <1>5 DEF StopWorker
  <2>2. CASE UNCHANGED queue BY <1>a, <2>1, <2>2
  <2>3. CASE ~UNCHANGED queue
    <3>1. queue' = [queue EXCEPT ![v] = Append(@, Shutdown)] BY <1>5, <2>3 DEF StopWorker, Shutdown
    <3>2. v \in Workers
      <4> SUFFICES ASSUME v \notin Workers PROVE FALSE OBVIOUS
      <4> QED BY <2>3, <3>1 DEF ShapeOK, BatchesOK
    <3>3. Shutdown.kind = "shutdown" /\ ~Awaited(Shutdown) BY DEF Shutdown, Awaited
    <3> QED BY <2>1, <3>1, <3>2, <3>3, QueueOps
  <2> QED BY <2>2, <2>3
<1> QED BY <1>1, <1>2, <1>3, <1>4, <1>5

(***************************************************************************)
(* Postgres: the nonces                                                    *)
(***************************************************************************)

\* Every number below the size of a set is the rank of one of its members.
LEMMA RankOnto ==
    ASSUME NEW n \in Nat, NEW S \in SUBSET (1..n), NEW k \in Nat, k < Cardinality(S)
    PROVE  \E i \in S: Before(S, i) = k
<1> SUFFICES ASSUME \A i \in S: Before(S, i) # k PROVE FALSE OBVIOUS
<1> DEFINE c == Cardinality(S)
           T == (0..(c - 1)) \ {k}
           f == [i \in S |-> Before(S, i)]
<1>1. /\ IsFiniteSet(S) /\ c \in Nat
      /\ \A i \in S: Before(S, i) \in Nat /\ Before(S, i) < c
      /\ \A i, j \in S: i # j => Before(S, i) # Before(S, j)
  BY BeforeRank
<1> HIDE DEF c
<1>2. k < c /\ c - 1 \in Int BY <1>1 DEF c
<1>3. IsFiniteSet(0..(c - 1)) /\ Cardinality(0..(c - 1)) = c BY <1>1, <1>2, FS_Interval
<1>4. k \in 0..(c - 1) BY <1>1, <1>2
<1>5. IsFiniteSet(T) /\ Cardinality(T) = c - 1 BY <1>3, <1>4, FS_RemoveElement, ZenonT(60)
<1>6. Cardinality(T) < Cardinality(S) BY <1>1, <1>5 DEF c
<1>7. f \in [S -> T] BY <1>1
<1>8. \A i, j \in S: i # j => f[i] # f[j] BY <1>1
<1> HIDE DEF f, T
<1>9. \E x, y \in S: x # y /\ f[x] = f[y] BY <1>1, <1>5, <1>6, <1>7, FS_PigeonHole
<1> QED BY <1>8, <1>9

LEMMA SameValid ==
    ASSUME NEW b, NEW c, b.ops = c.ops, b.conflicts = c.conflicts
    PROVE  ValidInserts(b) = ValidInserts(c) /\ \A s: ValidFor(b, s) = ValidFor(c, s)
BY DEF ValidInserts, ValidFor

\* Inserts of a signer are with one worker.
LEMMA SignerOnce ==
    ASSUME ShapeOK, RoutedOK, NEW w \in Workers, NEW i \in ValidInserts(wk[w])
    PROVE  /\ wk[w].ops[i] \in Operation /\ wk[w].ops[i].tx \in Txs /\ SignerOf[wk[w].ops[i].tx] \in Signers
           /\ w = WorkerOf[SignerOf[wk[w].ops[i].tx]]
<1>1. i \in DOMAIN wk[w].ops /\ wk[w].ops[i].kind = "insert" BY DEF ValidInserts
<1>2. wk[w].ops[i] \in Operation /\ Routine(wk[w].ops[i]) = w BY <1>1, OpsTyped DEF RoutedOK
<1> QED BY <1>1, <1>2, SignerAssumption DEF Routine, Operation

\* Nothing happens to the records, and batches only end.
LEMMA NoncesFrame ==
    ASSUME ShapeOK, NoncesOK, GapsOK, UNCHANGED <<rows, node, submitted, deleted>>,
           \A s \in Signers: nonceCache'[s] = nonceCache[s] \/ nonceCache'[s] = -1,
           \A v \in Workers: InFlight(v)' =>
              /\ InFlight(v) /\ wk'[v].ops = wk[v].ops /\ wk'[v].conflicts = wk[v].conflicts /\ wk'[v].nonces = wk[v].nonces
              /\ wk'[v].pc = "commit" => InsertsNew(wk[v]),
           \A s \in Signers: Reserved(s) /\ nonceCache'[s] # -1 => Reserved(s)'
    PROVE  NoncesOK' /\ GapsOK'
<1>1. ASSUME NEW v \in Workers, InFlight(v)'
      PROVE  /\ InFlight(v) /\ wk'[v].nonces = wk[v].nonces /\ ValidInserts(wk'[v]) = ValidInserts(wk[v])
             /\ \A s: ValidFor(wk'[v], s) = ValidFor(wk[v], s)
  BY <1>1, SameValid
<1>2. \A s \in Signers: \A n: (Beyond(n, s) => Beyond(n, s)') /\ (Covered(n, s) => Covered(n, s)')
  BY DEF Beyond, Covered, Stored, Exists
<1>3. NoncesOK'
  <2>1. \A s \in Signers: nonceCache'[s] # -1 => nonceCache'[s] = nonceCache[s] /\ Beyond(nonceCache[s], s)' BY <1>2 DEF NoncesOK
  <2>2. ASSUME NEW v \in Workers, NEW s \in Signers, InFlight(v)', ValidFor(wk'[v], s) # {}
        PROVE  /\ Beyond(wk[v].nonces[s], s) /\ wk'[v].nonces[s] = wk[v].nonces[s]
               /\ nonceCache'[s] # -1 => nonceCache'[s] = wk'[v].nonces[s] + Cardinality(ValidFor(wk'[v], s))
    BY <1>1, <2>1, <2>2 DEF NoncesOK
  <2> QED BY <2>1, <2>2, SMTT(30) DEF NoncesOK, Beyond, Exists, Stored
<1>4. GapsOK'
  <2>1. NoNonceGap' BY DEF GapsOK, NoNonceGap, Exists, Stored
  <2>2. ASSUME NEW v \in Workers, wk'[v].pc = "commit" PROVE InsertsNew(wk[v])'
    <3>1. InFlight(v)' BY <2>2 DEF InFlight
    <3>2. wk'[v].ops = wk[v].ops /\ ValidInserts(wk'[v]) = ValidInserts(wk[v]) /\ InsertsNew(wk[v]) BY <1>1, <2>2, <3>1
    <3> QED BY <3>2 DEF InsertsNew, Exists, TxsOf, OpsOf
  <2>3. ASSUME NEW v \in Workers, NEW s \in Signers, InFlight(v)', ValidFor(wk'[v], s) # {}
        PROVE  wk'[v].nonces[s] = wk[v].nonces[s] /\ Covered(wk[v].nonces[s], s)
    BY <1>1, <2>3 DEF GapsOK
  <2>4. \A s \in Signers: nonceCache'[s] # -1 => nonceCache'[s] = nonceCache[s] /\ (Covered(nonceCache[s], s) \/ Reserved(s)')
    BY DEF GapsOK
  <2>5. \A v \in Workers: wk'[v].pc = "commit" => InsertsNew(wk[v])' BY <2>2
  <2>6. \A v \in Workers, s \in Signers: InFlight(v)' /\ ValidFor(wk[v], s)' # {} => Covered(wk[v].nonces[s], s)'
    BY <2>3 DEF Covered, Stored, Exists
  <2>7. \A s \in Signers: nonceCache'[s] # -1 => Covered(nonceCache[s], s)' \/ Reserved(s)'
    BY <2>4 DEF Covered, Stored, Exists
  <2> QED BY <2>1, <2>5, <2>6, <2>7 DEF GapsOK
<1> QED BY <1>3, <1>4

LEMMA RoutedValid ==
    ASSUME ShapeOK, RoutedOK, NEW v \in Workers, NEW b, b.ops = wk[v].ops, NEW s \in Signers, ValidFor(b, s) # {}
    PROVE  v = WorkerOf[s]
<1>1. PICK i \in DOMAIN wk[v].ops: wk[v].ops[i].kind = "insert" /\ SignerOf[wk[v].ops[i].tx] = s BY DEF ValidFor, ValidInserts
<1> QED BY <1>1 DEF RoutedOK, Routine

\* assignNonces gives a nonce beyond the others, and without a gap.
LEMMA NonceForBeyond ==
    ASSUME ShapeOK, NoncesOK, NoNonceGap, NEW s \in Signers, nonceCache[s] # -1 => Covered(nonceCache[s], s), NEW expired \in BOOLEAN
    PROVE  Beyond(NonceFor(s, expired), s) /\ Covered(NonceFor(s, expired), s)
<1> DEFINE n == NextStored(s)
           c == nonceCache[s]
           N == NonceFor(s, expired)
<1>0. node[s] \in Nat /\ c \in Int BY DEF ShapeOK, CommonOK, TablesOK
<1>1. /\ n \in Nat /\ \A t \in Stored(s): rows[t].nonce < n
      /\ n = 0 \/ \E t \in Stored(s): n = rows[t].nonce + 1
  BY NextStoredOK DEF ShapeOK
<1>a. \A t \in Stored(s): rows[t].nonce \in Nat /\ Exists(t) /\ t \in Txs /\ SignerOf[t] = s BY DEF ShapeOK, RowsOK, Stored
<1>2. Covered(n, s)
  <2>1. CASE n = 0 BY <1>0, <2>1 DEF Covered
  <2>2. CASE n # 0
    <3>1. PICK t \in Stored(s): n = rows[t].nonce + 1 BY <1>1, <2>2
    <3>2. Covered(rows[t].nonce, s) BY <1>a DEF NoNonceGap, Covered
    <3> HIDE DEF n
    <3>3. \A m \in node[s]..(n - 1): m \in node[s]..(rows[t].nonce - 1) \/ m = rows[t].nonce BY <1>0, <1>a, <3>1
    <3> QED BY <3>2, <3>3 DEF Covered
  <2> QED BY <2>1, <2>2
<1>3. Covered(node[s], s) BY <1>0 DEF Covered
<1>4. c # -1 => Beyond(c, s) /\ Covered(c, s) BY DEF NoncesOK
<1>6. \/ N = c /\ c # -1
      \/ /\ N >= node[s]
         /\ c = -1 => N >= n /\ N \in {n, node[s]}
         /\ c # -1 => N >= c /\ N \in {c, node[s]}
  <2> HIDE DEF n
  <2> QED BY <1>0, <1>1 DEF NonceFor, n
<1> HIDE DEF n, N, c
<1>7. CASE N = c /\ c # -1 BY <1>4, <1>7 DEF N
<1>8. CASE c = -1 /\ N >= node[s] /\ N >= n /\ N \in {n, node[s]}
  <2>1. N \in Nat /\ \A t \in Stored(s): rows[t].nonce < N BY <1>0, <1>1, <1>8, <1>a
  <2>2. Covered(N, s) BY <1>2, <1>3, <1>8
  <2> QED BY <1>8, <2>1, <2>2 DEF N, Beyond
<1>9. CASE c # -1 /\ N >= node[s] /\ N >= c /\ N \in {c, node[s]}
  <2>1. c \in Nat /\ \A t \in Stored(s): rows[t].nonce < c BY <1>4, <1>9 DEF Beyond
  <2>2. N \in Nat /\ \A t \in Stored(s): rows[t].nonce < N BY <1>0, <1>9, <1>a, <2>1
  <2>3. Covered(N, s) BY <1>3, <1>4, <1>9
  <2> QED BY <1>9, <2>2, <2>3 DEF N, Beyond
<1> QED BY <1>6, <1>7, <1>8, <1>9

LEMMA PrepareNonces ==
    ASSUME ShapeOK, RoutedOK, NoncesOK, GapsOK, NEW w \in Workers, Prepare(w)
    PROVE  NoncesOK' /\ GapsOK'
<1>0. /\ \A v \in Workers: wk'[v].ops = wk[v].ops
      /\ \A v \in Workers \ {w}: wk'[v] = wk[v]
      /\ wk[w].pc = "prepare" /\ wk'[w].pc = "write"
      /\ UNCHANGED <<node, submitted, rows, deleted>>
  BY PrepareMoves
<1>1. PICK expired \in BOOLEAN:
        /\ wk'[w].nonces = [s \in Signers |-> NonceFor(s, expired)]
        /\ nonceCache' = [s \in Signers |->
             IF ValidFor(wk'[w], s) = {} THEN nonceCache[s] ELSE NonceFor(s, expired) + Cardinality(ValidFor(wk'[w], s))]
  BY PrepareMoves
<1> DEFINE V(s) == ValidFor(wk'[w], s)
           N(s) == NonceFor(s, expired)
<1>2. \A s \in Signers: Cardinality(V(s)) \in Nat
  <2>1. Len(wk[w].ops) \in Nat /\ DOMAIN wk'[w].ops = 1..Len(wk[w].ops) BY <1>0, OpsTyped
  <2>2. \A s \in Signers: V(s) \in SUBSET (1..Len(wk[w].ops)) BY <2>1 DEF ValidFor, ValidInserts
  <2> HIDE DEF V
  <2> QED BY <2>1, <2>2, BeforeRank
<1>3. ASSUME NEW s \in Signers, V(s) # {}, NEW v \in Workers, ValidFor(wk[v], s) # {} PROVE v = w
  <2>1. v = WorkerOf[s] BY <1>3, RoutedValid
  <2>2. w = WorkerOf[s] BY <1>0, <1>3, RoutedValid
  <2> QED BY <2>1, <2>2
<1>4. ASSUME NEW s \in Signers, V(s) # {} PROVE Beyond(N(s), s) /\ Covered(N(s), s)
  <2>1. ~Reserved(s) BY <1>0, <1>3, <1>4 DEF Reserved
  <2> QED BY <2>1, NonceForBeyond DEF GapsOK
<1>5. \A s \in Signers: \A n: (Beyond(n, s) <=> Beyond(n, s)') /\ (Covered(n, s) <=> Covered(n, s)')
  BY <1>0 DEF Beyond, Covered, Stored, Exists
<1>6. ASSUME NEW s \in Signers
      PROVE  /\ V(s) = {} => nonceCache'[s] = nonceCache[s]
             /\ V(s) # {} => nonceCache'[s] = N(s) + Cardinality(V(s)) /\ wk'[w].nonces[s] = N(s)
  BY <1>1
<1> HIDE DEF N
<1>7. ASSUME NEW s \in Signers, nonceCache'[s] # -1 PROVE Beyond(nonceCache'[s], s)
  <2>1. CASE V(s) = {} BY <1>6, <1>7, <2>1 DEF NoncesOK
  <2>2. CASE V(s) # {}
    <3>1. Beyond(N(s), s) /\ nonceCache'[s] = N(s) + Cardinality(V(s)) BY <1>4, <1>6, <2>2
    <3>2. Cardinality(V(s)) \in Nat BY <1>2
    <3>3. N(s) \in Nat /\ node[s] \in Nat BY <3>1 DEF Beyond, ShapeOK, CommonOK
    <3>4. \A t \in Stored(s): rows[t].nonce \in Nat BY DEF ShapeOK, RowsOK, Stored
    <3> HIDE DEF V
    <3>5. nonceCache'[s] \in Nat /\ nonceCache'[s] >= N(s) BY <3>1, <3>2, <3>3
    <3> QED BY <3>1, <3>3, <3>4, <3>5 DEF Beyond
  <2> QED BY <2>1, <2>2
<1>8. ASSUME NEW v \in Workers, NEW s \in Signers, InFlight(v)', ValidFor(wk'[v], s) # {}
      PROVE  /\ Beyond(wk'[v].nonces[s], s) /\ Covered(wk'[v].nonces[s], s)
             /\ nonceCache'[s] # -1 => nonceCache'[s] = wk'[v].nonces[s] + Cardinality(ValidFor(wk'[v], s))
  <2>1. CASE v = w BY <1>4, <1>6, <1>8, <2>1
  <2>2. CASE v # w
    <3>1. wk'[v] = wk[v] /\ InFlight(v) BY <1>0, <1>8, <2>2 DEF InFlight
    <3>2. V(s) = {} BY <1>3, <1>8, <2>2, <3>1
    <3>3. nonceCache'[s] = nonceCache[s] BY <1>6, <3>2
    <3> HIDE DEF V
    <3> QED BY <1>8, <3>1, <3>3 DEF NoncesOK, GapsOK
  <2> QED BY <2>1, <2>2
<1>9. NoncesOK'
  <2>1. \A s \in Signers: nonceCache'[s] # -1 => Beyond(nonceCache[s], s)' BY <1>0, <1>7 DEF Beyond, Stored, Exists
  <2>2. \A v \in Workers, s \in Signers: InFlight(v)' /\ ValidFor(wk[v], s)' # {} =>
          /\ Beyond(wk[v].nonces[s], s)'
          /\ nonceCache'[s] # -1 => nonceCache'[s] = wk'[v].nonces[s] + Cardinality(ValidFor(wk'[v], s))
    BY <1>0, <1>8 DEF Beyond, Stored, Exists
  <2> HIDE DEF V
  <2> QED BY <1>0, <2>1, <2>2 DEF NoncesOK, Exists
<1>10. GapsOK'
  <2>1. NoNonceGap' BY <1>0 DEF GapsOK, NoNonceGap, Exists, Stored
  <2>2. ASSUME NEW v \in Workers, wk'[v].pc = "commit" PROVE InsertsNew(wk[v])'
    <3>1. v # w /\ wk'[v] = wk[v] /\ InsertsNew(wk[v]) BY <1>0, <2>2 DEF GapsOK
    <3> QED BY <1>0, <3>1 DEF InsertsNew, Exists
  <2>3. \A v \in Workers, s \in Signers: InFlight(v)' /\ ValidFor(wk[v], s)' # {} => Covered(wk[v].nonces[s], s)'
    BY <1>0, <1>8 DEF Covered, Stored, Exists
  <2>4. ASSUME NEW s \in Signers, nonceCache'[s] # -1 PROVE Covered(nonceCache[s], s)' \/ Reserved(s)'
    <3>1. CASE V(s) # {} BY <1>0, <3>1 DEF Reserved
    <3>2. CASE V(s) = {}
      <4>1. nonceCache'[s] = nonceCache[s] BY <1>6, <3>2
      <4>2. Reserved(s) => Reserved(s)' BY <1>0 DEF Reserved
      <4>3. Covered(nonceCache[s], s) \/ Reserved(s) BY <2>4, <4>1 DEF GapsOK
      <4> QED BY <1>0, <4>1, <4>2, <4>3 DEF Covered, Stored, Exists
    <3> QED BY <3>1, <3>2
  <2> QED BY <2>1, <2>2, <2>3, <2>4 DEF GapsOK
<1> QED BY <1>9, <1>10

\* What was covered stays so while deleted nonces are remembered.
LEMMA CoveredStays ==
    ASSUME NEW s \in Signers, NEW n, node[s] \in Int, node'[s] \in Int, n \in Int, node'[s] >= node[s], deleted \subseteq deleted', Covered(n, s),
           \A u \in Stored(s): <<s, rows[u].nonce>> \in deleted' \/ (Exists(u)' /\ rows'[u].nonce = rows[u].nonce)
    PROVE  \A m \in node'[s]..(n - 1): <<s, m>> \in deleted' \/ \E u \in Txs: Exists(u)' /\ SignerOf[u] = s /\ rows'[u].nonce = m
<1> SUFFICES ASSUME NEW m \in node'[s]..(n - 1) PROVE <<s, m>> \in deleted' \/ \E u \in Txs: Exists(u)' /\ SignerOf[u] = s /\ rows'[u].nonce = m
  OBVIOUS
<1>1. m \in node[s]..(n - 1) OBVIOUS
<1>2. CASE <<s, m>> \in deleted BY <1>2
<1>3. CASE <<s, m>> \notin deleted
  <2>1. PICK u \in Stored(s): rows[u].nonce = m BY <1>1, <1>3 DEF Covered
  <2> QED BY <2>1 DEF Stored
<1> QED BY <1>2, <1>3

LEMMA CommitNonces ==
    ASSUME ShapeOK, RoutedOK, UpdatedExist, NoncesOK, GapsOK, NEW w \in Workers, Commit(w)
    PROVE  NoncesOK' /\ GapsOK'
<1> DEFINE b == wk[w]
           gone == TxsOf(b.ops, "delete")
           V(s) == ValidFor(b, s)
<1>0. /\ \A v \in Workers: wk'[v].ops = wk[v].ops /\ wk'[v].conflicts = wk[v].conflicts /\ wk'[v].nonces = wk[v].nonces
      /\ \A v \in Workers \ {w}: wk'[v] = wk[v]
      /\ wk[w].pc = "commit" /\ wk'[w].pc \in {"reply", "notify"}
      /\ UNCHANGED <<nonceCache, node, submitted>>
  BY Moves
<1>1. InsertsNew(b) /\ InFlight(w) BY <1>0 DEF GapsOK, InFlight
<1>2. /\ \A i \in ValidInserts(b):
           /\ rows'[b.ops[i].tx] # NoRow /\ rows'[b.ops[i].tx].nonce = AssignedNonce(b, i)
           /\ b.nonces[SignerOf[b.ops[i].tx]] \in Nat /\ AssignedNonce(b, i) \in Nat
      /\ \A t \in Txs: Exists(t) /\ t \in gone => ~Exists(t)' /\ <<SignerOf[t], rows[t].nonce>> \in deleted'
      /\ \A t \in Txs: Exists(t) /\ t \notin gone => Exists(t)' /\ rows'[t].nonce = rows[t].nonce
      /\ \A t \in Txs: Exists(t)' => (Exists(t) /\ t \notin gone) \/ \E i \in ValidInserts(b): b.ops[i].tx = t
      /\ deleted \subseteq deleted'
  BY <1>1, CommitRows
<1>3. /\ \A s \in Signers: IsFiniteSet(V(s)) /\ Cardinality(V(s)) \in Nat
      /\ \A i \in ValidInserts(b):
           LET s == SignerOf[b.ops[i].tx]
               n == AssignedNonce(b, i)
           IN  /\ b.ops[i] \in Operation /\ s \in Signers /\ i \in V(s) /\ b.nonces[s] \in Int
               /\ n \in Int /\ n >= b.nonces[s] /\ n < b.nonces[s] + Cardinality(V(s))
      /\ \A i, j \in ValidInserts(b):
           SignerOf[b.ops[i].tx] = SignerOf[b.ops[j].tx] /\ AssignedNonce(b, i) = AssignedNonce(b, j) => i = j
  BY <1>1, AssignedOK
<1>4. \A t \in Txs: Exists(t) => rows[t].nonce \in Nat BY DEF ShapeOK, RowsOK
<1>5. \A s \in Signers: node[s] \in Nat BY DEF ShapeOK, CommonOK
\* A record after the commit was there, or is one of the inserted ones.
<1>6. ASSUME NEW t \in Txs, Exists(t)'
      PROVE  \/ Exists(t) /\ rows'[t].nonce = rows[t].nonce
             \/ \E i \in ValidInserts(b): /\ b.ops[i].tx = t /\ rows'[t].nonce = AssignedNonce(b, i)
                                          /\ Beyond(b.nonces[SignerOf[t]], SignerOf[t]) /\ i \in V(SignerOf[t]) /\ SignerOf[t] \in Signers
                                          /\ AssignedNonce(b, i) \in Nat /\ AssignedNonce(b, i) >= b.nonces[SignerOf[t]]
                                          /\ AssignedNonce(b, i) < b.nonces[SignerOf[t]] + Cardinality(V(SignerOf[t]))
  <2>1. CASE Exists(t) /\ t \notin gone BY <1>2, <2>1
  <2>2. CASE \E i \in ValidInserts(b): b.ops[i].tx = t
    <3>1. PICK i \in ValidInserts(b): b.ops[i].tx = t BY <2>2
    <3>2. /\ rows'[t].nonce = AssignedNonce(b, i) /\ AssignedNonce(b, i) \in Nat /\ SignerOf[t] \in Signers /\ i \in V(SignerOf[t])
          /\ AssignedNonce(b, i) >= b.nonces[SignerOf[t]]
          /\ AssignedNonce(b, i) < b.nonces[SignerOf[t]] + Cardinality(V(SignerOf[t]))
      BY <1>2, <1>3, <3>1
    <3>3. Beyond(b.nonces[SignerOf[t]], SignerOf[t]) BY <1>1, <3>2 DEF NoncesOK
    <3> QED BY <3>1, <3>2, <3>3
  <2> QED BY <1>2, <1>6, <2>1, <2>2
<1>7. ASSUME NEW s \in Signers, NEW u \in Stored(s)
      PROVE  <<s, rows[u].nonce>> \in deleted' \/ (Exists(u)' /\ rows'[u].nonce = rows[u].nonce)
  <2>1. u \in Txs /\ Exists(u) /\ SignerOf[u] = s BY DEF Stored
  <2> QED BY <1>2, <2>1
<1>8. ASSUME NEW s \in Signers, NEW n \in Nat, Beyond(n, s), V(s) # {} => n >= b.nonces[s] + Cardinality(V(s))
      PROVE  \A t \in Txs: Exists(t)' /\ SignerOf[t] = s => rows'[t].nonce < n
  <2> SUFFICES ASSUME NEW t \in Txs, Exists(t)', SignerOf[t] = s PROVE rows'[t].nonce < n OBVIOUS
  <2>1. CASE Exists(t) /\ rows'[t].nonce = rows[t].nonce BY <1>8, <2>1 DEF Beyond, Stored
  <2>2. CASE \E i \in ValidInserts(b): /\ i \in V(s) /\ rows'[t].nonce = AssignedNonce(b, i) /\ AssignedNonce(b, i) \in Nat
                                       /\ AssignedNonce(b, i) < b.nonces[s] + Cardinality(V(s)) /\ Beyond(b.nonces[s], s)
    <3>1. PICK i \in ValidInserts(b): /\ i \in V(s) /\ rows'[t].nonce = AssignedNonce(b, i) /\ AssignedNonce(b, i) \in Nat
                                      /\ AssignedNonce(b, i) < b.nonces[s] + Cardinality(V(s)) /\ Beyond(b.nonces[s], s)
      BY <2>2
    <3>2. n >= b.nonces[s] + Cardinality(V(s)) BY <1>8, <3>1
    <3>3. b.nonces[s] \in Nat /\ Cardinality(V(s)) \in Nat BY <1>3, <3>1 DEF Beyond
    <3> HIDE DEF V, b
    <3> QED BY <3>1, <3>2, <3>3
  <2> QED BY <1>6, <2>1, <2>2
<1> HIDE DEF gone
<1>9. \A s \in Signers: \A n: n \in Int /\ Covered(n, s) =>
        \A m \in node[s]..(n - 1): <<s, m>> \in deleted' \/ \E u \in Txs: Exists(u)' /\ SignerOf[u] = s /\ rows'[u].nonce = m
  <2> SUFFICES ASSUME NEW s \in Signers, NEW n, n \in Int, Covered(n, s)
               PROVE  \A m \in node[s]..(n - 1): <<s, m>> \in deleted' \/ \E u \in Txs: Exists(u)' /\ SignerOf[u] = s /\ rows'[u].nonce = m
    OBVIOUS
  <2>1. node[s] \in Int /\ node'[s] = node[s] /\ node'[s] >= node[s] BY <1>0, <1>5
  <2>2. \A u \in Stored(s): <<s, rows[u].nonce>> \in deleted' \/ (Exists(u)' /\ rows'[u].nonce = rows[u].nonce) BY <1>7
  <2>3. \A m \in node'[s]..(n - 1): <<s, m>> \in deleted' \/ \E u \in Txs: Exists(u)' /\ SignerOf[u] = s /\ rows'[u].nonce = m
    BY <1>2, <2>1, <2>2, CoveredStays
  <2> QED BY <2>1, <2>3
\* The inserted nonces leave no gap.
<1>10. ASSUME NEW s \in Signers, V(s) # {}, NEW m \in node[s]..(b.nonces[s] + Cardinality(V(s)) - 1)
       PROVE  <<s, m>> \in deleted' \/ \E u \in Txs: Exists(u)' /\ SignerOf[u] = s /\ rows'[u].nonce = m
  <2>0. Beyond(b.nonces[s], s) /\ Covered(b.nonces[s], s) BY <1>1, <1>10 DEF NoncesOK, GapsOK
  <2>1. b.nonces[s] \in Nat /\ Cardinality(V(s)) \in Nat /\ node[s] \in Nat BY <1>3, <1>5, <2>0 DEF Beyond
  <2>2. CASE m < b.nonces[s]
    <3>1. m \in node[s]..(b.nonces[s] - 1) BY <2>1, <2>2
    <3>2. b.nonces[s] \in Int BY <2>1
    <3> QED BY <1>9, <2>0, <3>1, <3>2
  <2>3. CASE m >= b.nonces[s]
    <3> DEFINE k == m - b.nonces[s]
    <3> HIDE DEF V, b
    <3>1. k \in Nat /\ k < Cardinality(V(s)) /\ m = b.nonces[s] + k BY <2>1, <2>3
    <3>2. V(s) \in SUBSET (1..Len(b.ops)) /\ Len(b.ops) \in Nat BY OpsTyped DEF V, b, ValidFor, ValidInserts
    <3> HIDE DEF k
    <3>3. PICK i \in V(s): Before(V(s), i) = k BY <3>1, <3>2, RankOnto
    <3>4. i \in ValidInserts(b) /\ SignerOf[b.ops[i].tx] = s BY <3>3 DEF V, ValidFor
    <3>5. AssignedNonce(b, i) = b.nonces[s] + Before(V(s), i) BY <3>4 DEF AssignedNonce, V
    <3>6. b.ops[i].tx \in Txs BY <1>3, <3>4 DEF Operation
    <3>7. rows'[b.ops[i].tx] # NoRow /\ rows'[b.ops[i].tx].nonce = m BY <1>2, <3>1, <3>3, <3>4, <3>5
    <3> DEFINE u == b.ops[i].tx
    <3>8. u \in Txs /\ SignerOf[u] = s /\ rows'[u] # NoRow /\ rows'[u].nonce = m BY <3>4, <3>6, <3>7
    <3> HIDE DEF u
    <3> QED BY <3>8 DEF Exists
  <2> QED BY <2>1, <2>2, <2>3
\* The others, in flight, have no nonces of these signers.
<1>11. ASSUME NEW v \in Workers, NEW s \in Signers, InFlight(v)', ValidFor(wk'[v], s) # {}
       PROVE  v # w /\ wk'[v] = wk[v] /\ InFlight(v) /\ ValidFor(wk[v], s) # {} /\ V(s) = {}
  <2>1. v # w BY <1>0, <1>11 DEF InFlight
  <2>2. wk'[v] = wk[v] BY <1>0, <2>1
  <2>3. InFlight(v) BY <1>11, <2>2 DEF InFlight
  <2>4. V(s) = {} BY <1>11, <2>1, <2>2, RoutedValid
  <2> QED BY <1>11, <2>1, <2>2, <2>3, <2>4
<1>12. NoncesOK'
  <2>1. ASSUME NEW t \in Txs, NEW u \in Txs, Exists(t)', Exists(u)', SignerOf[t] = SignerOf[u], rows'[t].nonce = rows'[u].nonce PROVE t = u
    <3>1. CASE Exists(t) /\ rows'[t].nonce = rows[t].nonce /\ Exists(u) /\ rows'[u].nonce = rows[u].nonce BY <2>1, <3>1 DEF NoncesOK
    <3>2. CASE (\E i \in ValidInserts(b): b.ops[i].tx = t /\ rows'[t].nonce = AssignedNonce(b, i))
               /\ \E i \in ValidInserts(b): b.ops[i].tx = u /\ rows'[u].nonce = AssignedNonce(b, i)
      BY <1>3, <2>1, <3>2
    <3>3. ASSUME NEW x \in Txs, NEW y \in Txs, SignerOf[x] = SignerOf[y], Exists(x), rows'[x].nonce = rows[x].nonce, rows'[x].nonce = rows'[y].nonce,
                 NEW i \in ValidInserts(b), rows'[y].nonce = AssignedNonce(b, i), Beyond(b.nonces[SignerOf[y]], SignerOf[y]),
                 AssignedNonce(b, i) \in Nat, AssignedNonce(b, i) >= b.nonces[SignerOf[y]]
          PROVE  FALSE
      <4>1. rows[x].nonce < b.nonces[SignerOf[y]] /\ b.nonces[SignerOf[y]] \in Nat BY <3>3 DEF Beyond, Stored
      <4>2. rows[x].nonce \in Nat BY <1>4, <3>3
      <4> HIDE DEF b
      <4> QED BY <3>3, <4>1, <4>2
    <3> QED BY <1>6, <2>1, <3>1, <3>2, <3>3
  <2>2. ASSUME NEW e \in submitted, NEW t \in Txs, Exists(t)', SignerOf[t] = e[1], rows'[t].nonce = e[2] PROVE e[3] = t
    <3>1. CASE Exists(t) /\ rows'[t].nonce = rows[t].nonce BY <2>2, <3>1 DEF NoncesOK
    <3>2. CASE ~(Exists(t) /\ rows'[t].nonce = rows[t].nonce)
      <4>1. PICK i \in ValidInserts(b): /\ rows'[t].nonce = AssignedNonce(b, i) /\ Beyond(b.nonces[SignerOf[t]], SignerOf[t])
                                        /\ AssignedNonce(b, i) \in Nat /\ AssignedNonce(b, i) >= b.nonces[SignerOf[t]]
        BY <1>6, <2>2, <3>2
      <4>2. e[2] < node[e[1]] /\ node[e[1]] \in Nat /\ e[2] \in Nat
        <5>1. e \in Signers \X Nat \X Txs BY DEF ShapeOK, CommonOK
        <5> QED BY <1>5, <5>1 DEF NoncesOK
      <4>3. b.nonces[e[1]] \in Nat /\ b.nonces[e[1]] >= node[e[1]] BY <2>2, <4>1 DEF Beyond
      <4> HIDE DEF b
      <4> QED BY <2>2, <4>1, <4>2, <4>3
    <3> QED BY <3>1, <3>2
  <2>3. ASSUME NEW s \in Signers, nonceCache[s] # -1 PROVE nonceCache[s] \in Nat /\ nonceCache[s] >= node[s] /\ \A t \in Txs: Exists(t)' /\ SignerOf[t] = s => rows'[t].nonce < nonceCache[s]
    <3>1. Beyond(nonceCache[s], s) /\ nonceCache[s] \in Nat BY <2>3 DEF NoncesOK, Beyond
    <3>2. V(s) # {} => nonceCache[s] = b.nonces[s] + Cardinality(V(s)) BY <1>1, <2>3 DEF NoncesOK
    <3>3. V(s) # {} => nonceCache[s] >= b.nonces[s] + Cardinality(V(s)) BY <3>1, <3>2
    <3> QED BY <1>8, <3>1, <3>3 DEF Beyond
  <2>4. ASSUME NEW v \in Workers, NEW s \in Signers, InFlight(v)', ValidFor(wk'[v], s) # {}
        PROVE  /\ wk'[v].nonces[s] \in Nat /\ wk'[v].nonces[s] >= node[s]
               /\ \A t \in Txs: Exists(t)' /\ SignerOf[t] = s => rows'[t].nonce < wk'[v].nonces[s]
               /\ nonceCache[s] # -1 => nonceCache[s] = wk'[v].nonces[s] + Cardinality(ValidFor(wk'[v], s))
    <3>1. wk'[v] = wk[v] /\ InFlight(v) /\ ValidFor(wk[v], s) # {} /\ V(s) = {} BY <1>11, <2>4
    <3>2. /\ Beyond(wk[v].nonces[s], s) /\ wk[v].nonces[s] \in Nat
          /\ nonceCache[s] # -1 => nonceCache[s] = wk[v].nonces[s] + Cardinality(ValidFor(wk[v], s))
      BY <3>1 DEF NoncesOK, Beyond
    <3> QED BY <1>8, <3>1, <3>2 DEF Beyond
  <2>5. \A s \in Signers: nonceCache'[s] # -1 => Beyond(nonceCache[s], s)' BY <1>0, <2>3 DEF Beyond, Stored
  <2>6. \A v \in Workers, s \in Signers: InFlight(v)' /\ ValidFor(wk[v], s)' # {} =>
          /\ Beyond(wk[v].nonces[s], s)'
          /\ nonceCache'[s] # -1 => nonceCache'[s] = wk'[v].nonces[s] + Cardinality(ValidFor(wk'[v], s))
    BY <1>0, <2>4 DEF Beyond, Stored
  <2>7. \A e \in submitted: e[2] < node[e[1]] BY DEF NoncesOK
  <2> QED BY <1>0, <2>1, <2>2, <2>5, <2>6, <2>7 DEF NoncesOK
<1>13. GapsOK'
  <2>1. ASSUME NEW t \in Txs, Exists(t)'
        PROVE  \A m \in node[SignerOf[t]]..(rows'[t].nonce - 1):
                 <<SignerOf[t], m>> \in deleted' \/ \E u \in Txs: Exists(u)' /\ SignerOf[u] = SignerOf[t] /\ rows'[u].nonce = m
    <3> DEFINE s == SignerOf[t]
    <3>0. s \in Signers /\ node[s] \in Nat BY <1>5, SignerAssumption
    <3>1. CASE Exists(t) /\ rows'[t].nonce = rows[t].nonce
      <4>1. Covered(rows[t].nonce, s) /\ rows[t].nonce \in Int BY <1>4, <3>1 DEF GapsOK, NoNonceGap, Covered
      <4> QED BY <1>9, <3>0, <3>1, <4>1
    <3>2. CASE ~(Exists(t) /\ rows'[t].nonce = rows[t].nonce)
      <4>1. PICK i \in ValidInserts(b): /\ rows'[t].nonce = AssignedNonce(b, i) /\ i \in V(s) /\ AssignedNonce(b, i) \in Nat
                                        /\ AssignedNonce(b, i) < b.nonces[s] + Cardinality(V(s)) /\ Beyond(b.nonces[s], s)
        BY <1>6, <2>1, <3>2
      <4>2. b.nonces[s] \in Nat /\ Cardinality(V(s)) \in Nat /\ V(s) # {} BY <1>3, <3>0, <4>1 DEF Beyond
      <4>3. ASSUME NEW m \in node[s]..(rows'[t].nonce - 1) PROVE m \in node[s]..(b.nonces[s] + Cardinality(V(s)) - 1)
        <5> HIDE DEF V, b, s
        <5> QED BY <3>0, <4>1, <4>2
      <4> QED BY <1>10, <3>0, <4>2, <4>3
    <3> QED BY <3>1, <3>2
  <2>2. NoNonceGap' BY <1>0, <2>1 DEF NoNonceGap, Stored
  <2>3. ASSUME NEW v \in Workers, wk'[v].pc = "commit" PROVE InsertsNew(wk[v])'
    <3>1. v # w BY <1>0, <2>3
    <3>2. wk'[v] = wk[v] /\ InsertsNew(wk[v]) BY <1>0, <2>3, <3>1 DEF GapsOK
    <3>3. ASSUME NEW i \in ValidInserts(wk[v]) PROVE rows'[wk[v].ops[i].tx] = NoRow
      <4>1. PICK t \in Txs: t = wk[v].ops[i].tx BY SignerOnce
      <4>2. v = WorkerOf[SignerOf[t]] BY <4>1, SignerOnce
      <4>3. ~Exists(t) BY <3>2, <4>1 DEF InsertsNew
      <4>4. \A j \in ValidInserts(b): b.ops[j].tx # t BY <3>1, <4>2, SignerOnce
      <4>5. ~Exists(t)' BY <1>2, <4>3, <4>4
      <4> QED BY <4>1, <4>5 DEF Exists
    <3> QED BY <3>2, <3>3 DEF InsertsNew, Exists
  <2>4. ASSUME NEW v \in Workers, NEW s \in Signers, InFlight(v)', ValidFor(wk'[v], s) # {}
        PROVE  \A m \in node[s]..(wk'[v].nonces[s] - 1): <<s, m>> \in deleted' \/ \E u \in Txs: Exists(u)' /\ SignerOf[u] = s /\ rows'[u].nonce = m
    <3>1. wk'[v] = wk[v] /\ InFlight(v) /\ ValidFor(wk[v], s) # {} BY <1>11, <2>4
    <3>2. Covered(wk[v].nonces[s], s) /\ wk[v].nonces[s] \in Int BY <3>1 DEF GapsOK, NoncesOK, Beyond
    <3> QED BY <1>9, <3>1, <3>2
  <2>5. \A v \in Workers, s \in Signers: InFlight(v)' /\ ValidFor(wk[v], s)' # {} => Covered(wk[v].nonces[s], s)'
    BY <1>0, <2>4 DEF Covered, Stored
  <2>6. ASSUME NEW s \in Signers, nonceCache'[s] # -1 PROVE Covered(nonceCache[s], s)' \/ Reserved(s)'
    <3>1. nonceCache'[s] = nonceCache[s] /\ nonceCache[s] \in Int BY <1>0 DEF ShapeOK, TablesOK
    <3>2. CASE V(s) # {}
      <4>1. nonceCache[s] = b.nonces[s] + Cardinality(V(s)) BY <1>1, <2>6, <3>1, <3>2 DEF NoncesOK
      <4>2. \A m \in node[s]..(nonceCache[s] - 1): <<s, m>> \in deleted' \/ \E u \in Txs: Exists(u)' /\ SignerOf[u] = s /\ rows'[u].nonce = m
        <5> TAKE m \in node[s]..(nonceCache[s] - 1)
        <5>0. b.nonces[s] \in Int /\ Cardinality(V(s)) \in Int /\ node[s] \in Int BY <1>1, <1>3, <1>5, <3>2, SMTT(30) DEF NoncesOK, Beyond
        <5> HIDE DEF V, b
        <5>1. m \in node[s]..(b.nonces[s] + Cardinality(V(s)) - 1) BY <3>1, <4>1, <5>0
        <5> QED BY <1>10, <3>2, <5>1
      <4> HIDE DEF V
      <4> QED BY <1>0, <3>1, <4>2 DEF Covered, Stored
    <3>3. CASE V(s) = {} /\ Reserved(s)
      <4>1. PICK v \in Workers: wk[v].pc \in {"write", "commit", "failed"} /\ ValidFor(wk[v], s) # {} BY <3>3 DEF Reserved
      <4>2. v # w BY <3>3, <4>1
      <4>3. wk'[v] = wk[v] BY <1>0, <4>2
      <4> HIDE DEF V
      <4> QED BY <4>1, <4>3 DEF Reserved
    <3>4. CASE Covered(nonceCache[s], s)
      <4>1. \A m \in node[s]..(nonceCache[s] - 1): <<s, m>> \in deleted' \/ \E u \in Txs: Exists(u)' /\ SignerOf[u] = s /\ rows'[u].nonce = m
        BY <1>9, <3>1, <3>4
      <4> QED BY <1>0, <3>1, <4>1 DEF Covered, Stored
    <3> QED BY <2>6, <3>1, <3>2, <3>3, <3>4 DEF GapsOK
  <2> QED BY <2>2, <2>3, <2>5, <2>6 DEF GapsOK
<1> QED BY <1>12, <1>13

\* What the node takes was the lowest nonce it had not taken.
LEMMA SubmitNonces ==
    ASSUME ShapeOK, NoncesOK, GapsOK, NEW t \in Txs, Submit(t), UNCHANGED <<writerVars, ldbVars>>
    PROVE  NoncesOK' /\ GapsOK'
<1> DEFINE x == SignerOf[t]
<1>0. x \in Signers BY SignerAssumption
<1>1. /\ Exists(t) /\ rows[t].nonce = node[x] /\ node' = [node EXCEPT ![x] = @ + 1]
      /\ submitted' = submitted \cup {<<x, node[x], t>>} /\ UNCHANGED <<rows, deleted>>
  BY DEF Submit
<1>2. UNCHANGED <<wk, nonceCache>> BY DEF writerVars, cacheVars
<1>3. node \in [Signers -> Nat] /\ submitted \subseteq Signers \X Nat \X Txs BY DEF ShapeOK, CommonOK
<1> HIDE DEF x
<1>4. /\ \A s \in Signers: node[s] \in Nat /\ node'[s] \in Nat /\ node'[s] >= node[s]
      /\ \A s \in Signers \ {x}: node'[s] = node[s]
      /\ node'[x] = node[x] + 1
  BY <1>0, <1>1, <1>3
<1>5. \A u \in Txs: Exists(u)' <=> Exists(u) BY <1>1 DEF Exists
<1>a. \A u \in Txs: Exists(u) => rows[u].nonce \in Nat BY DEF ShapeOK, RowsOK
<1>6. ASSUME NEW s \in Signers, NEW n, Beyond(n, s) PROVE Beyond(n, s)'
  <2>1. n \in Nat /\ n >= node[s] /\ \A u \in Stored(s): rows[u].nonce < n BY <1>6 DEF Beyond
  <2>2. n >= node'[s]
    <3>1. CASE s # x BY <1>4, <2>1, <3>1
    <3>2. CASE s = x
      <4>1. node[x] < n BY <1>1, <2>1, <3>2 DEF Stored, x
      <4> QED BY <1>0, <1>4, <2>1, <3>2, <4>1
    <3> QED BY <3>1, <3>2
  <2>3. \A u \in Stored(s): rows'[u].nonce < n BY <1>1, <2>1
  <2> QED BY <1>5, <2>1, <2>2, <2>3 DEF Beyond, Stored
<1>7. ASSUME NEW s \in Signers, NEW n \in Int, Covered(n, s) PROVE Covered(n, s)'
  <2>1. \A m \in node'[s]..(n - 1): m \in node[s]..(n - 1) BY <1>4
  <2> QED BY <1>1, <1>5, <1>7, <2>1 DEF Covered, Stored
<1>8. NoncesOK'
  <2>1. \A u, v \in Txs: Exists(u)' /\ Exists(v)' /\ SignerOf[u] = SignerOf[v] /\ rows'[u].nonce = rows'[v].nonce => u = v
    BY <1>1, <1>5 DEF NoncesOK
  <2>2. ASSUME NEW e \in submitted' PROVE e[2] < node'[e[1]]
    <3>1. CASE e \in submitted
      <4>1. e[1] \in Signers /\ e[2] \in Nat /\ e[2] < node[e[1]] BY <1>3, <3>1 DEF NoncesOK
      <4> QED BY <1>4, <4>1
    <3>2. CASE e = <<x, node[x], t>> BY <1>0, <1>4, <3>2
    <3> QED BY <1>1, <3>1, <3>2
  <2>3. ASSUME NEW e \in submitted', NEW u \in Txs, Exists(u)', SignerOf[u] = e[1], rows'[u].nonce = e[2] PROVE e[3] = u
    <3>1. CASE e \in submitted BY <1>1, <1>5, <2>3, <3>1 DEF NoncesOK
    <3>2. CASE e = <<x, node[x], t>>
      <4>1. SignerOf[u] = SignerOf[t] /\ rows[u].nonce = rows[t].nonce /\ Exists(u) BY <1>1, <1>5, <2>3, <3>2 DEF x
      <4>2. u = t BY <1>1, <4>1 DEF NoncesOK
      <4> QED BY <3>2, <4>2
    <3> QED BY <1>1, <3>1, <3>2
  <2>4. ASSUME NEW s \in Signers, nonceCache'[s] # -1 PROVE Beyond(nonceCache[s], s)'
    <3> DEFINE n == nonceCache[s]
    <3>1. Beyond(n, s) /\ nonceCache'[s] = n BY <1>2, <2>4 DEF NoncesOK
    <3> HIDE DEF n
    <3>2. PICK m: m = n OBVIOUS
    <3>3. Beyond(m, s)' BY <1>6, <3>1, <3>2
    <3> QED BY <3>1, <3>2, <3>3 DEF Beyond
  <2>5. ASSUME NEW v \in Workers, NEW s \in Signers, InFlight(v)', ValidFor(wk[v], s)' # {}
        PROVE  /\ Beyond(wk[v].nonces[s], s)'
               /\ nonceCache'[s] # -1 => nonceCache'[s] = wk'[v].nonces[s] + Cardinality(ValidFor(wk'[v], s))
    <3>0. wk'[v] = wk[v] /\ InFlight(v) /\ ValidFor(wk[v], s) # {} BY <1>2, <2>5 DEF InFlight, ValidFor, ValidInserts
    <3>1. /\ Beyond(wk[v].nonces[s], s) /\ wk'[v] = wk[v]
          /\ nonceCache'[s] # -1 => nonceCache'[s] = wk'[v].nonces[s] + Cardinality(ValidFor(wk'[v], s))
      BY <1>2, <3>0 DEF NoncesOK
    <3>2. PICK m: m = wk[v].nonces[s] OBVIOUS
    <3>3. Beyond(m, s)' BY <1>6, <3>1, <3>2
    <3> QED BY <3>1, <3>2, <3>3 DEF Beyond
  <2> QED BY <2>1, <2>2, <2>3, <2>4, <2>5 DEF NoncesOK
<1>9. GapsOK'
  <2>1. NoNonceGap'
    <3> SUFFICES ASSUME NEW u \in Txs, Exists(u)'
                 PROVE  \A n \in node'[SignerOf[u]]..(rows'[u].nonce - 1):
                          <<SignerOf[u], n>> \in deleted' \/ \E v \in Stored(SignerOf[u])': rows'[v].nonce = n
      BY DEF NoNonceGap
    <3>1. PICK m: m = rows[u].nonce OBVIOUS
    <3>2. m \in Int /\ Exists(u) /\ SignerOf[u] \in Signers BY <1>5, <1>a, <3>1, SignerAssumption
    <3>3. Covered(m, SignerOf[u]) BY <3>1, <3>2 DEF GapsOK, NoNonceGap, Covered
    <3>4. Covered(m, SignerOf[u])' BY <1>7, <3>2, <3>3
    <3> QED BY <1>1, <3>1, <3>4 DEF Covered
  <2>2. \A v \in Workers: wk'[v].pc = "commit" => InsertsNew(wk[v])'
    BY <1>1, <1>2 DEF GapsOK, InsertsNew, Exists, ValidInserts
  <2>3. ASSUME NEW v \in Workers, NEW s \in Signers, InFlight(v)', ValidFor(wk[v], s)' # {} PROVE Covered(wk[v].nonces[s], s)'
    <3>0. wk'[v] = wk[v] /\ InFlight(v) /\ ValidFor(wk[v], s) # {} BY <1>2, <2>3 DEF InFlight, ValidFor, ValidInserts
    <3>1. Covered(wk[v].nonces[s], s) /\ wk'[v] = wk[v] /\ wk[v].nonces[s] \in Int BY <3>0 DEF GapsOK, NoncesOK, Beyond
    <3>2. PICK m: m = wk[v].nonces[s] OBVIOUS
    <3>3. Covered(m, s)' BY <1>7, <3>1, <3>2
    <3> QED BY <3>1, <3>2, <3>3 DEF Covered
  <2>4. ASSUME NEW s \in Signers, nonceCache'[s] # -1 PROVE Covered(nonceCache[s], s)' \/ Reserved(s)'
    <3>1. Reserved(s) => Reserved(s)' BY <1>2 DEF Reserved, ValidFor, ValidInserts
    <3>2. nonceCache'[s] = nonceCache[s] /\ nonceCache[s] \in Int BY <1>2 DEF ShapeOK, TablesOK
    <3>3. CASE Covered(nonceCache[s], s)
      <4>1. PICK m: m = nonceCache[s] OBVIOUS
      <4>2. Covered(m, s)' BY <1>7, <3>2, <3>3, <4>1
      <4> QED BY <3>2, <4>1, <4>2 DEF Covered
    <3> QED BY <2>4, <3>1, <3>2, <3>3 DEF GapsOK
  <2> QED BY <2>1, <2>2, <2>3, <2>4 DEF GapsOK
<1> QED BY <1>8, <1>9

\* A batch whose rows the database has taken inserts what is new.
LEMMA WriteInsertsNew ==
    ASSUME ShapeOK, NEW w \in Workers, ~Refused(wk[w])
    PROVE  InsertsNew(wk[w])
<1> DEFINE b == wk[w]
<1>1. \A i, j \in ValidInserts(b): b.ops[i].tx = b.ops[j].tx => i = j BY DEF Refused
<1>2. \A i \in ValidInserts(b): ~Exists(b.ops[i].tx) BY DEF Refused
<1>3. \A t \in TxsOf(b.ops, "delete"): Exists(t) BY DEF Refused
<1> QED BY <1>1, <1>2, <1>3 DEF InsertsNew

\* No step of the writer breaks this.
LEMMA NoncesStep ==
    ASSUME ShapeOK, RoutedOK, UpdatedExist, NoncesOK, GapsOK, NEW r, NEW t, NEW w,
           \/ (r \in Requests /\ QueueInsert(r)) \/ (t \in Txs /\ QueueWrite(t)) \/ (w \in Workers /\ WorkerStep(w))
           \/ Evict \/ ReaderStep \/ Close \/ StopWorker
    PROVE  NoncesOK' /\ GapsOK'
<1> USE DEF storeVars, cacheVars
<1>0. wk \in [Workers -> Worker] /\ nonceCache \in [Signers -> Int] BY DEF ShapeOK, BatchesOK, TablesOK
\* Steps that leave the batches alone ...
<1>a. ASSUME UNCHANGED <<rows, node, submitted, deleted, wk>>,
             \A s \in Signers: nonceCache'[s] = nonceCache[s] \/ nonceCache'[s] = -1
      PROVE  NoncesOK' /\ GapsOK'
  <2>1. \A v \in Workers: InFlight(v)' =>
              /\ InFlight(v) /\ wk'[v].ops = wk[v].ops /\ wk'[v].conflicts = wk[v].conflicts /\ wk'[v].nonces = wk[v].nonces
              /\ wk'[v].pc = "commit" => InsertsNew(wk[v])
    BY <1>a DEF InFlight, GapsOK
  <2>2. \A s \in Signers: Reserved(s) /\ nonceCache'[s] # -1 => Reserved(s)' BY <1>a DEF Reserved, ValidFor, ValidInserts
  <2> QED BY <1>a, <2>1, <2>2, NoncesFrame
\* ... and those that move one of them on.
<1>b. ASSUME w \in Workers, UNCHANGED <<rows, node, submitted, deleted, nonceCache>>,
             \A v \in Workers \ {w}: wk'[v] = wk[v],
             ~InFlight(w)' \/ /\ InFlight(w) /\ wk'[w].ops = wk[w].ops /\ wk'[w].conflicts = wk[w].conflicts /\ wk'[w].nonces = wk[w].nonces
                              /\ wk'[w].pc = "commit" => InsertsNew(wk[w]),
             \/ wk[w].pc \notin {"write", "commit", "failed"}
             \/ wk'[w].pc \in {"write", "commit", "failed"} /\ wk'[w].ops = wk[w].ops /\ wk'[w].conflicts = wk[w].conflicts
      PROVE  NoncesOK' /\ GapsOK'
  <2>1. ASSUME NEW v \in Workers, InFlight(v)'
        PROVE /\ InFlight(v) /\ wk'[v].ops = wk[v].ops /\ wk'[v].conflicts = wk[v].conflicts /\ wk'[v].nonces = wk[v].nonces
              /\ wk'[v].pc = "commit" => InsertsNew(wk[v])
    <3>1. CASE v = w BY <1>b, <2>1, <3>1
    <3>2. CASE v # w
      <4>1. wk'[v] = wk[v] BY <1>b, <3>2
      <4> QED BY <2>1, <4>1 DEF InFlight, GapsOK
    <3> QED BY <3>1, <3>2
  <2>2. ASSUME NEW s \in Signers, Reserved(s) PROVE Reserved(s)'
    <3>1. PICK v \in Workers: wk[v].pc \in {"write", "commit", "failed"} /\ ValidFor(wk[v], s) # {} BY <2>2 DEF Reserved
    <3>2. wk'[v].pc \in {"write", "commit", "failed"} /\ wk'[v].ops = wk[v].ops /\ wk'[v].conflicts = wk[v].conflicts
      BY <1>b, <3>1
    <3>3. ValidFor(wk'[v], s) # {} BY <3>1, <3>2, SameValid
    <3> QED BY <3>2, <3>3 DEF Reserved
  <2>3. \A s \in Signers: nonceCache'[s] = nonceCache[s] \/ nonceCache'[s] = -1 BY <1>b
  <2>4. UNCHANGED <<rows, node, submitted, deleted>> BY <1>b
  <2> QED BY <2>1, <2>2, <2>3, <2>4, NoncesFrame
<1>1. CASE r \in Requests /\ QueueInsert(r) BY <1>1, <1>a DEF QueueInsert
<1>2. CASE t \in Txs /\ QueueWrite(t) BY <1>2, <1>a DEF QueueWrite
<1>3. CASE w \in Workers /\ WorkerStep(w)
  <2>0. w \in Workers BY <1>3
  <2>1. CASE Collect(w)
    <3>1. wk[w].pc = "collect" /\ UNCHANGED <<rows, node, submitted, deleted, nonceCache>> BY <2>1 DEF Collect
    <3>2. wk'[w].pc \in {"collect", "prepare", "done"} /\ \A v \in Workers \ {w}: wk'[v] = wk[v]
      <4> DEFINE ops == Append(wk[w].ops, Head(queue[w]))
                 pa == IF wk[w].ops = << >> THEN "done" ELSE "prepare"
                 pb == IF Len(ops) >= BatchMaxSize THEN "prepare" ELSE "collect"
      <4>1. wk' = [wk EXCEPT ![w] = [@ EXCEPT !.closing = TRUE, !.pc = pa]] \/ wk' = [wk EXCEPT ![w] = [@ EXCEPT !.ops = ops, !.pc = pb]]
        BY <2>1 DEF Collect
      <4>2. pa \in {"done", "prepare"} /\ pb \in {"prepare", "collect"} OBVIOUS
      <4> HIDE DEF pa, pb, ops
      <4> QED BY <1>0, <2>0, <4>1, <4>2 DEF Worker
    <3>3. ~InFlight(w)' BY <3>2 DEF InFlight
    <3> QED BY <1>b, <2>0, <3>1, <3>2, <3>3
  <2>2. CASE Prepare(w) BY <2>0, <2>2, PrepareNonces
  <2>3. CASE Commit(w) BY <2>0, <2>3, CommitNonces
  <2>4. CASE Finish(w)
    <3>1. /\ wk[w].pc \in {"reply", "failed"} /\ UNCHANGED <<rows, node, submitted, deleted>>
          /\ nonceCache' = IF wk[w].pc = "failed" THEN Cleared(wk[w]) ELSE nonceCache
      BY <2>4 DEF Finish
    <3>2. wk'[w].pc \in {"collect", "done"} /\ \A v \in Workers \ {w}: wk'[v] = wk[v]
      <4> DEFINE pc == IF wk[w].closing THEN "done" ELSE "collect"
      <4>1. wk' = [wk EXCEPT ![w] = IdleWorker(pc)] BY <2>4 DEF Finish
      <4>2. pc \in {"collect", "done"} OBVIOUS
      <4> HIDE DEF pc
      <4>3. IdleWorker(pc).pc = pc BY DEF IdleWorker
      <4> QED BY <1>0, <2>0, <4>1, <4>2, <4>3
    <3>3. ASSUME NEW v \in Workers, InFlight(v)'
          PROVE /\ InFlight(v) /\ wk'[v].ops = wk[v].ops /\ wk'[v].conflicts = wk[v].conflicts /\ wk'[v].nonces = wk[v].nonces
                /\ wk'[v].pc = "commit" => InsertsNew(wk[v])
      <4>1. v # w /\ wk'[v] = wk[v] BY <3>2, <3>3 DEF InFlight
      <4> QED BY <3>3, <4>1 DEF InFlight, GapsOK
    <3>4. \A s \in Signers: nonceCache'[s] = nonceCache[s] \/ nonceCache'[s] = -1 BY <3>1 DEF Cleared
    <3>5. ASSUME NEW s \in Signers, Reserved(s), nonceCache'[s] # -1 PROVE Reserved(s)'
      <4>1. PICK v \in Workers: wk[v].pc \in {"write", "commit", "failed"} /\ ValidFor(wk[v], s) # {} BY <3>5 DEF Reserved
      <4>2. v # w
        <5> SUFFICES ASSUME v = w PROVE FALSE OBVIOUS
        <5>1. nonceCache' = Cleared(wk[w]) BY <3>1, <4>1
        <5>2. PICK i \in DOMAIN wk[w].ops: wk[w].ops[i].kind = "insert" /\ SignerOf[wk[w].ops[i].tx] = s
          BY <4>1 DEF ValidFor, ValidInserts
        <5>3. wk[w].ops[i] \in Range(wk[w].ops) BY <5>2 DEF Range
        <5>4. wk[w].ops[i].tx \in TxsOf(wk[w].ops, "insert") BY <5>2, <5>3 DEF TxsOf, OpsOf
        <5> QED BY <3>5, <5>1, <5>2, <5>4 DEF Cleared
      <4>3. wk'[v] = wk[v] BY <3>2, <4>2
      <4> QED BY <4>1, <4>3 DEF Reserved
    <3> QED BY <3>1, <3>3, <3>4, <3>5, NoncesFrame
  <2>5. CASE BatchTimeout(w) \/ CommitFails(w) \/ Notify(w) \/ WriteBatch(w)
    <3>1. /\ \A v \in Workers: wk'[v].ops = wk[v].ops /\ wk'[v].conflicts = wk[v].conflicts /\ wk'[v].nonces = wk[v].nonces
          /\ \A v \in Workers \ {w}: wk'[v] = wk[v]
          /\ BatchTimeout(w) => wk[w].pc = "collect" /\ wk'[w].pc = "prepare"
          /\ WriteBatch(w) => wk[w].pc = "write" /\ wk'[w].pc \in {"commit", "failed"}
          /\ CommitFails(w) => wk[w].pc = "commit" /\ wk'[w].pc = "failed"
          /\ Notify(w) => wk[w].pc = "notify" /\ wk'[w].pc = "reply"
          /\ UNCHANGED <<nonceCache, node, submitted>>
      BY <2>0, <2>5, Moves
    <3>2. UNCHANGED <<rows, deleted>> BY <2>5 DEF BatchTimeout, CommitFails, Notify, WriteBatch
    <3>3. CASE WriteBatch(w)
      <4>1. CASE wk'[w].pc = "commit"
        <5>1. ~Refused(wk[w])
          <6> SUFFICES ASSUME Refused(wk[w]) PROVE FALSE OBVIOUS
          <6>1. wk' = [wk EXCEPT ![w].pc = "failed"] BY <3>3 DEF WriteBatch
          <6> QED BY <1>0, <2>0, <4>1, <6>1 DEF Worker
        <5>2. InsertsNew(wk[w]) BY <2>0, <5>1, WriteInsertsNew
        <5>3. InFlight(w) BY <3>1, <3>3 DEF InFlight
        <5> QED BY <1>b, <2>0, <3>1, <3>2, <4>1, <5>2, <5>3
      <4>2. CASE wk'[w].pc = "failed"
        <5>1. ~InFlight(w)' BY <4>2 DEF InFlight
        <5> QED BY <1>b, <2>0, <3>1, <3>2, <4>2, <5>1
      <4> QED BY <3>1, <3>3, <4>1, <4>2
    <3>4. CASE ~WriteBatch(w)
      <4>1. wk'[w].pc \in {"prepare", "failed", "reply"} BY <2>5, <3>1, <3>4
      <4>2. ~InFlight(w)' BY <4>1 DEF InFlight
      <4>3. wk[w].pc \notin {"write", "commit", "failed"} \/ wk'[w].pc = "failed" BY <2>5, <3>1, <3>4
      <4> QED BY <1>b, <2>0, <3>1, <3>2, <4>2, <4>3
    <3> QED BY <3>3, <3>4
  <2> QED BY <1>3, <2>1, <2>2, <2>3, <2>4, <2>5 DEF WorkerStep
<1>4. CASE Evict
  <2>1. UNCHANGED <<rows, node, submitted, deleted, wk>> BY <1>4 DEF Evict
  <2>2. \A s \in Signers: nonceCache'[s] = nonceCache[s] \/ nonceCache'[s] = -1 BY <1>0, <1>4 DEF Evict
  <2> QED BY <1>a, <2>1, <2>2
<1>5. CASE ReaderStep BY <1>5, <1>a DEF ReaderStep, ReadTime, ListTxCompletions, WaitTxCompletionUpdates
<1>6. CASE Close BY <1>6, <1>a DEF Close
<1>7. CASE StopWorker BY <1>7, <1>a DEF StopWorker
<1> QED BY <1>1, <1>2, <1>3, <1>4, <1>5, <1>6, <1>7

(***************************************************************************)
(* The completions                                                         *)
(***************************************************************************)

\* Nothing is added to the table, and no batch comes to its commit.
LEMMA CompletionsFrame ==
    ASSUME CompletionsOK, UNCHANGED <<completions, nextSeq>>,
           reader'.after = reader.after, reader.seen \subseteq reader'.seen,
           \A v \in Workers: wk'[v].pc = "commit" =>
              wk[v].pc = "commit" /\ wk'[v].ops = wk[v].ops /\ wk'[v].seqs = wk[v].seqs /\ (lock = v => lock' = v)
    PROVE  CompletionsOK'
<1>1. ASSUME NEW v \in Workers, wk'[v].pc = "commit", Completes(wk'[v]) # {}
      PROVE  /\ lock' = v /\ wk'[v].seqs >= 1 /\ \A c \in completions: c.seq < wk'[v].seqs
             /\ wk'[v].seqs + Cardinality(NewCompletions(wk[v])) <= nextSeq /\ NewCompletions(wk[v])' = NewCompletions(wk[v])
  <2>1. wk[v].pc = "commit" /\ wk'[v].ops = wk[v].ops /\ wk'[v].seqs = wk[v].seqs /\ (lock = v => lock' = v) BY <1>1
  <2>2. Completes(wk'[v]) = Completes(wk[v]) BY <2>1 DEF Completes
  <2>3. NewCompletions(wk[v])' = NewCompletions(wk[v]) BY <2>1, <2>2 DEF NewCompletions
  <2> QED BY <1>1, <2>1, <2>2, <2>3 DEF CompletionsOK
<1>2. CompletionsNotMissed' BY DEF CompletionsOK, CompletionsNotMissed
<1>3. \A v \in Workers: wk'[v].pc = "commit" /\ Completes(wk[v])' # {} =>
         /\ lock' = v /\ wk'[v].seqs >= 1 /\ \A c \in completions': c.seq < wk'[v].seqs
         /\ wk'[v].seqs + Cardinality(NewCompletions(wk[v])') <= nextSeq'
  BY <1>1
<1> QED BY <1>2, <1>3 DEF CompletionsOK

\* A batch takes the lock and the next numbers.
LEMMA CompletionsWrite ==
    ASSUME ShapeOK, CompletionsOK, NEW w \in Workers, WriteBatch(w), ~(wk' = [wk EXCEPT ![w].pc = "failed"] /\ UNCHANGED <<nextSeq, lock>>)
    PROVE  CompletionsOK'
<1> DEFINE new == NewCompletions(wk[w])
<1>0. /\ wk \in [Workers -> Worker] /\ nextSeq \in Nat \ {0} /\ completions \subseteq [seq: Nat, tx: Txs]
      /\ Cardinality(new) \in Nat
  BY NewCompletionsOK DEF ShapeOK, BatchesOK, TablesOK
<1>1. /\ Completes(wk[w]) # {} => lock = NoWorker
      /\ lock' = IF Completes(wk[w]) # {} THEN w ELSE lock
      /\ nextSeq' = nextSeq + Cardinality(new) /\ wk' = [wk EXCEPT ![w].pc = "commit", ![w].seqs = nextSeq]
      /\ UNCHANGED <<completions, reader>>
  BY DEF WriteBatch
<1>2. /\ wk'[w].pc = "commit" /\ wk'[w].seqs = nextSeq /\ \A v \in Workers \ {w}: wk'[v] = wk[v]
      /\ \A v \in Workers: wk'[v].ops = wk[v].ops
  BY <1>0, <1>1 DEF Worker
<1>3. \A v \in Workers: Completes(wk[v])' = Completes(wk[v]) BY <1>2 DEF Completes
<1>4. \A v \in Workers: NewCompletions(wk[v])' = NewCompletions(wk[v]) BY <1>1, <1>2, <1>3, ZenonT(60) DEF NewCompletions
<1> HIDE DEF new
<1>5. \A c \in completions: c.seq < nextSeq /\ c.seq < nextSeq' BY <1>0, <1>1 DEF CompletionsOK
<1>6. ASSUME NEW v \in Workers, wk'[v].pc = "commit", Completes(wk[v])' # {}
      PROVE  /\ lock' = v /\ wk'[v].seqs >= 1 /\ \A c \in completions': c.seq < wk'[v].seqs
             /\ wk'[v].seqs + Cardinality(NewCompletions(wk[v])') <= nextSeq'
  <2>1. CASE v = w
    <3>1. lock' = v BY <1>1, <1>3, <1>6, <2>1
    <3>2. wk'[v].seqs = nextSeq /\ nextSeq >= 1 BY <1>0, <1>2, <2>1
    <3>3. NewCompletions(wk[v])' = new BY <1>4, <2>1 DEF new
    <3>4. nextSeq + Cardinality(new) <= nextSeq' BY <1>0, <1>1
    <3> QED BY <1>1, <1>5, <3>1, <3>2, <3>3, <3>4
  <2>2. CASE v # w
    <3>1. wk[v].pc = "commit" /\ Completes(wk[v]) # {} /\ wk'[v] = wk[v] BY <1>2, <1>3, <1>6, <2>2
    <3>2. /\ lock = v /\ wk[v].seqs >= 1 /\ \A c \in completions: c.seq < wk[v].seqs
          /\ wk[v].seqs + Cardinality(NewCompletions(wk[v])) <= nextSeq
      BY <3>1 DEF CompletionsOK
    <3>3. Completes(wk[w]) = {} /\ lock' = lock BY <1>1, <3>2, WriterAssumption
    <3>4. Cardinality(NewCompletions(wk[v])) \in Nat /\ wk[v].seqs \in Nat BY <1>0, NewCompletionsOK DEF Worker
    <3>5. wk[v].seqs + Cardinality(NewCompletions(wk[v])) <= nextSeq' BY <1>0, <1>1, <3>2, <3>4
    <3> QED BY <1>1, <1>4, <3>1, <3>2, <3>3, <3>5
  <2> QED BY <2>1, <2>2
<1>7. CompletionsNotMissed' BY <1>1 DEF CompletionsOK, CompletionsNotMissed
<1> QED BY <1>1, <1>5, <1>6, <1>7 DEF CompletionsOK

\* The numbers that a commit shows are higher than those shown before.
LEMMA CompletionsCommit ==
    ASSUME ShapeOK, CompletionsOK, NEW w \in Workers, Commit(w)
    PROVE  CompletionsOK'
<1> DEFINE b == wk[w]
           new == NewCompletions(b)
           at(i) == b.seqs + Before(new, i)
<1>0. /\ wk \in [Workers -> Worker] /\ nextSeq \in Nat \ {0} /\ completions \subseteq [seq: Nat, tx: Txs]
      /\ reader.after \in Nat /\ b.seqs \in Nat
  BY DEF ShapeOK, BatchesOK, TablesOK, Worker
<1>1. /\ Cardinality(new) \in Nat
      /\ \A i \in new: Before(new, i) \in Nat /\ Before(new, i) < Cardinality(new)
      /\ \A i, j \in new: i # j => Before(new, i) # Before(new, j)
  BY NewCompletionsOK
<1>2. /\ b.pc = "commit" /\ lock' = (IF lock = w THEN NoWorker ELSE lock) /\ UNCHANGED <<nextSeq, reader>>
      /\ completions' = completions \cup {[seq |-> at(i), tx |-> b.ops[i].tx]: i \in new}
  BY DEF Commit
<1>3. /\ \A v \in Workers: wk'[v].ops = wk[v].ops
      /\ \A v \in Workers \ {w}: wk'[v] = wk[v]
      /\ wk'[w].pc \in {"reply", "notify"}
  BY Moves
<1>4. new # {} => /\ lock = w /\ b.seqs >= 1 /\ \A c \in completions: c.seq < b.seqs
                  /\ b.seqs + Cardinality(new) <= nextSeq
  <2>1. new # {} => Completes(b) # {} BY DEF NewCompletions
  <2> QED BY <1>2, <2>1 DEF CompletionsOK
<1>5. ASSUME NEW c \in completions'
      PROVE  c \in completions \/ \E i \in new: c = [seq |-> at(i), tx |-> b.ops[i].tx]
  BY <1>2
<1> HIDE DEF new, b
<1>6. \A i \in new: at(i) \in Nat /\ at(i) >= b.seqs /\ at(i) < nextSeq BY <1>0, <1>1, <1>4
<1>7. ASSUME NEW i \in new, NEW j \in new, at(i) = at(j) PROVE i = j
  <2>1. Before(new, i) \in Nat /\ Before(new, j) \in Nat BY <1>1
  <2>2. Before(new, i) = Before(new, j) BY <1>0, <1>7, <2>1
  <2> QED BY <1>1, <2>2
<1> HIDE DEF at
<1>8. \A c \in completions': c.seq < nextSeq' BY <1>2, <1>5, <1>6 DEF CompletionsOK
<1>9. ASSUME NEW c \in completions', NEW d \in completions', c.seq = d.seq PROVE c = d
  <2>1. CASE c \in completions /\ d \in completions BY <1>9, <2>1 DEF CompletionsOK
  <2>2. ASSUME NEW x \in completions, NEW i \in new, x.seq = at(i) PROVE FALSE
    <3>1. x.seq < b.seqs /\ x.seq \in Nat BY <1>0, <1>4
    <3> QED BY <1>0, <1>6, <2>2, <3>1
  <2>3. ASSUME NEW i \in new, NEW j \in new, c = [seq |-> at(i), tx |-> b.ops[i].tx], d = [seq |-> at(j), tx |-> b.ops[j].tx]
        PROVE  c = d
    <3>1. at(i) = at(j) BY <1>9, <2>3
    <3>2. i = j BY <1>7, <3>1
    <3> QED BY <2>3, <3>2
  <2> QED BY <1>5, <1>9, <2>1, <2>2, <2>3
<1>10. reader'.after = 0 \/ \E c \in completions': c.seq = reader'.after BY <1>2 DEF CompletionsOK
<1>11. ASSUME NEW v \in Workers, wk'[v].pc = "commit", Completes(wk[v])' # {}
       PROVE  /\ lock' = v /\ wk'[v].seqs >= 1 /\ \A c \in completions': c.seq < wk'[v].seqs
              /\ wk'[v].seqs + Cardinality(NewCompletions(wk[v])') <= nextSeq'
  <2>1. v # w /\ wk'[v] = wk[v] BY <1>3, <1>11
  <2>2. wk[v].pc = "commit" /\ Completes(wk[v]) # {} BY <1>11, <2>1 DEF Completes
  <2>3. lock = v /\ new = {} BY <1>4, <2>1, <2>2 DEF CompletionsOK
  <2>4. completions' = completions BY <1>2, <2>3
  <2>5. NewCompletions(wk[v])' = NewCompletions(wk[v]) BY <2>1, <2>4 DEF NewCompletions, Completes
  <2>6. lock' = v BY <1>2, <2>1, <2>3
  <2> QED BY <1>2, <2>1, <2>2, <2>4, <2>5, <2>6 DEF CompletionsOK
\* The reader has not come further than the highest number.
<1>12. CompletionsNotMissed'
  <2> SUFFICES ASSUME NEW c \in completions', c.seq <= reader.after PROVE c.tx \in reader.seen
    BY <1>2 DEF CompletionsNotMissed
  <2>1. CASE c \in completions BY <2>1 DEF CompletionsOK, CompletionsNotMissed
  <2>2. ASSUME NEW i \in new, c.seq = at(i) PROVE FALSE
    <3>1. b.seqs >= 1 /\ at(i) \in Nat /\ at(i) >= b.seqs /\ at(i) <= reader.after BY <1>4, <1>6, <2>2
    <3>2. PICK d \in completions: d.seq = reader.after BY <1>0, <3>1 DEF CompletionsOK
    <3>3. d.seq < b.seqs BY <1>4
    <3> QED BY <1>0, <3>1, <3>2, <3>3
  <2> QED BY <1>5, <2>1, <2>2
<1> QED BY <1>8, <1>9, <1>10, <1>11, <1>12 DEF CompletionsOK

\* The reader goes on to the lowest number above its own.
LEMMA CompletionsRead ==
    ASSUME ShapeOK, CompletionsOK, ListTxCompletions
    PROVE  CompletionsOK'
<1> USE DEF dbVars
<1> DEFINE newer == {c \in completions: c.seq > reader.after}
           next == CHOOSE c \in newer: \A d \in newer: c.seq <= d.seq
<1>0. completions \subseteq [seq: Nat, tx: Txs] /\ reader.after \in Nat
      /\ reader \in [pc: {"time", "poll", "wait", "waiting"}, after: Nat, since: BOOLEAN, seen: SUBSET Txs]
  BY DEF ShapeOK, TablesOK
<1>1. UNCHANGED <<wk, completions, nextSeq, lock>> BY DEF ListTxCompletions
<1>2. reader' = IF newer = {} THEN [reader EXCEPT !.pc = "wait"]
                ELSE [reader EXCEPT !.pc = "time", !.after = next.seq, !.seen = @ \cup {next.tx}]
  BY DEF ListTxCompletions
<1>3. CASE newer = {}
  <2>1. reader'.after = reader.after /\ reader'.seen = reader.seen BY <1>0, <1>2, <1>3
  <2> HIDE DEF newer, next
  <2> QED BY <1>1, <2>1, CompletionsFrame
<1>4. CASE newer # {}
  <2>1. \E c \in newer: \A d \in newer: c.seq <= d.seq
    <3> DEFINE S == {c.seq: c \in newer}
    <3>1. S \in SUBSET Nat /\ S # {} BY <1>0, <1>4
    <3> HIDE DEF S
    <3>2. PICK m \in S: \A n \in S: m <= n BY <3>1, Smallest
    <3> QED BY <3>2 DEF S
  <2>2. next \in newer /\ \A d \in newer: next.seq <= d.seq BY <2>1
  <2>3. next \in completions /\ next.seq > reader.after BY <2>2
  <2> HIDE DEF next
  <2>4. reader'.after = next.seq /\ reader'.seen = reader.seen \cup {next.tx} BY <1>0, <1>2, <1>4
  <2>5. CompletionsNotMissed'
    <3> SUFFICES ASSUME NEW c \in completions, c.seq <= next.seq PROVE c.tx \in reader.seen \cup {next.tx}
      BY <1>1, <2>4 DEF CompletionsNotMissed
    <3>1. CASE c.seq > reader.after
      <4>1. next.seq <= c.seq BY <2>2, <3>1
      <4>2. c.seq = next.seq BY <1>0, <2>3, <4>1
      <4>3. c = next BY <2>3, <4>2 DEF CompletionsOK
      <4> QED BY <4>3
    <3>2. CASE c.seq <= reader.after BY <3>2 DEF CompletionsOK, CompletionsNotMissed
    <3> QED BY <1>0, <3>1, <3>2
  <2> HIDE DEF newer
  <2>6. \A v \in Workers: NewCompletions(wk[v])' = NewCompletions(wk[v]) /\ Completes(wk[v])' = Completes(wk[v])
    BY <1>1 DEF NewCompletions, Completes
  <2> QED BY <1>1, <2>3, <2>4, <2>5, <2>6 DEF CompletionsOK
<1> QED BY <1>3, <1>4

\* No step of the writer breaks this.
LEMMA CompletionsStep ==
    ASSUME ShapeOK, CompletionsOK, NEW r, NEW t, NEW w,
           \/ (r \in Requests /\ QueueInsert(r)) \/ (t \in Txs /\ QueueWrite(t)) \/ (w \in Workers /\ WorkerStep(w))
           \/ Evict \/ ReaderStep \/ Close \/ StopWorker
    PROVE  CompletionsOK'
<1> USE DEF dbVars
<1>0. /\ wk \in [Workers -> Worker]
      /\ reader \in [pc: {"time", "poll", "wait", "waiting"}, after: Nat, since: BOOLEAN, seen: SUBSET Txs]
  BY DEF ShapeOK, BatchesOK, TablesOK
<1>a. ASSUME UNCHANGED <<wk, completions, nextSeq, lock>>, reader'.after = reader.after, reader'.seen = reader.seen PROVE CompletionsOK'
  BY <1>a, CompletionsFrame
<1>b. ASSUME w \in Workers, UNCHANGED <<completions, nextSeq>>, reader'.after = reader.after, reader'.seen = reader.seen,
             \A v \in Workers \ {w}: wk'[v] = wk[v], wk'[w].pc # "commit", \A v \in Workers \ {w}: lock = v => lock' = v
      PROVE  CompletionsOK'
  <2>1. \A v \in Workers: wk'[v].pc = "commit" =>
              wk[v].pc = "commit" /\ wk'[v].ops = wk[v].ops /\ wk'[v].seqs = wk[v].seqs /\ (lock = v => lock' = v)
    BY <1>b
  <2>2. UNCHANGED <<completions, nextSeq>> /\ reader'.after = reader.after /\ reader.seen \subseteq reader'.seen BY <1>b
  <2> QED BY <2>1, <2>2, CompletionsFrame
<1>1. CASE r \in Requests /\ QueueInsert(r) BY <1>1, <1>a DEF QueueInsert
<1>2. CASE t \in Txs /\ QueueWrite(t) BY <1>2, <1>a DEF QueueWrite
<1>3. CASE w \in Workers /\ WorkerStep(w)
  <2>0. w \in Workers BY <1>3
  <2>1. CASE Collect(w)
    <3>1. UNCHANGED <<completions, nextSeq, lock, reader>> BY <2>1 DEF Collect
    <3>2. wk'[w].pc \in {"collect", "prepare", "done"} /\ \A v \in Workers \ {w}: wk'[v] = wk[v]
      <4> DEFINE ops == Append(wk[w].ops, Head(queue[w]))
                 pa == IF wk[w].ops = << >> THEN "done" ELSE "prepare"
                 pb == IF Len(ops) >= BatchMaxSize THEN "prepare" ELSE "collect"
      <4>1. wk' = [wk EXCEPT ![w] = [@ EXCEPT !.closing = TRUE, !.pc = pa]] \/ wk' = [wk EXCEPT ![w] = [@ EXCEPT !.ops = ops, !.pc = pb]]
        BY <2>1 DEF Collect
      <4>2. pa \in {"done", "prepare"} /\ pb \in {"prepare", "collect"} OBVIOUS
      <4> HIDE DEF pa, pb, ops
      <4> QED BY <1>0, <2>0, <4>1, <4>2, ZenonT(60) DEF Worker
    <3> QED BY <1>b, <2>0, <3>1, <3>2
  <2>2. CASE Prepare(w)
    <3>1. UNCHANGED <<completions, nextSeq, lock, reader>> BY <2>2 DEF Prepare
    <3>2. wk'[w].pc = "write" /\ \A v \in Workers \ {w}: wk'[v] = wk[v] BY <2>0, <2>2, PrepareMoves
    <3> QED BY <1>b, <2>0, <3>1, <3>2
  <2>3. CASE Commit(w) BY <2>0, <2>3, CompletionsCommit
  <2>4. CASE Finish(w)
    <3>1. UNCHANGED <<completions, nextSeq, lock, reader>> BY <2>4 DEF Finish
    <3>2. wk'[w].pc \in {"collect", "done"} /\ \A v \in Workers \ {w}: wk'[v] = wk[v]
      <4> DEFINE pc == IF wk[w].closing THEN "done" ELSE "collect"
      <4>1. wk' = [wk EXCEPT ![w] = IdleWorker(pc)] BY <2>4 DEF Finish
      <4>2. pc \in {"collect", "done"} OBVIOUS
      <4> HIDE DEF pc
      <4>3. IdleWorker(pc).pc = pc BY DEF IdleWorker
      <4> QED BY <1>0, <2>0, <4>1, <4>2, <4>3
    <3> QED BY <1>b, <2>0, <3>1, <3>2
  <2>5. CASE WriteBatch(w)
    <3>1. CASE wk' = [wk EXCEPT ![w].pc = "failed"] /\ UNCHANGED <<nextSeq, lock>>
      <4>1. UNCHANGED <<completions, reader>> BY <2>5 DEF WriteBatch
      <4>2. wk'[w].pc = "failed" /\ \A v \in Workers \ {w}: wk'[v] = wk[v] BY <1>0, <2>0, <3>1 DEF Worker
      <4> QED BY <1>b, <2>0, <3>1, <4>1, <4>2
    <3>2. CASE ~(wk' = [wk EXCEPT ![w].pc = "failed"] /\ UNCHANGED <<nextSeq, lock>>) BY <2>0, <2>5, <3>2, CompletionsWrite
    <3> QED BY <3>1, <3>2
  <2>6. CASE BatchTimeout(w)
    <3>1. UNCHANGED <<completions, nextSeq, lock, reader>> BY <2>6 DEF BatchTimeout
    <3>2. wk'[w].pc = "prepare" /\ \A v \in Workers \ {w}: wk'[v] = wk[v] BY <2>0, <2>6, Moves
    <3> QED BY <1>b, <2>0, <3>1, <3>2
  <2>7. CASE CommitFails(w)
    <3>1. UNCHANGED <<completions, nextSeq, reader>> /\ \A v \in Workers \ {w}: lock = v => lock' = v BY <2>7 DEF CommitFails
    <3>2. wk'[w].pc = "failed" /\ \A v \in Workers \ {w}: wk'[v] = wk[v] BY <2>0, <2>7, Moves
    <3> QED BY <1>b, <2>0, <3>1, <3>2
  <2>8. CASE Notify(w)
    <3>1. UNCHANGED <<completions, nextSeq, lock>> BY <2>8 DEF Notify
    <3>2. wk'[w].pc = "reply" /\ \A v \in Workers \ {w}: wk'[v] = wk[v] BY <2>0, <2>8, Moves
    <3>3. reader'.after = reader.after /\ reader'.seen = reader.seen BY <1>0, <2>8 DEF Notify
    <3> QED BY <1>b, <2>0, <3>1, <3>2, <3>3
  <2> QED BY <1>3, <2>1, <2>2, <2>3, <2>4, <2>5, <2>6, <2>7, <2>8 DEF WorkerStep
<1>4. CASE Evict BY <1>4, <1>a DEF Evict
<1>5. CASE ReaderStep
  <2>1. CASE ListTxCompletions BY <2>1, CompletionsRead
  <2>2. CASE ReadTime \/ WaitTxCompletionUpdates
    <3>1. UNCHANGED <<wk, completions, nextSeq, lock>> BY <2>2 DEF ReadTime, WaitTxCompletionUpdates
    <3>2. reader'.after = reader.after /\ reader'.seen = reader.seen BY <1>0, <2>2 DEF ReadTime, WaitTxCompletionUpdates
    <3> QED BY <1>a, <3>1, <3>2
  <2> QED BY <1>5, <2>1, <2>2 DEF ReaderStep
<1>6. CASE Close BY <1>6, <1>a DEF Close
<1>7. CASE StopWorker BY <1>7, <1>a DEF StopWorker
<1> QED BY <1>1, <1>2, <1>3, <1>4, <1>5, <1>6, <1>7

(***************************************************************************)
(* LevelDB: the index and the nonces                                       *)
(***************************************************************************)

\* What was covered stays so while deleted nonces are remembered.
LEMMA CoveredKept ==
    ASSUME ShapeOK, NEW s \in Signers, node'[s] \in Int, node'[s] >= node[s], deleted \subseteq deleted',
           \A u \in Stored(s): <<s, rows[u].nonce>> \in deleted' \/ (Exists(u)' /\ rows'[u].nonce = rows[u].nonce)
    PROVE  \A n \in Int: Covered(n, s) => Covered(n, s)'
<1> SUFFICES ASSUME NEW n \in Int, Covered(n, s) PROVE Covered(n, s)' OBVIOUS
<1>1. node[s] \in Int BY DEF ShapeOK, CommonOK
<1>2. \A m \in node'[s]..(n - 1): <<s, m>> \in deleted' \/ \E u \in Txs: Exists(u)' /\ SignerOf[u] = s /\ rows'[u].nonce = m
  BY <1>1, CoveredStays
<1> QED BY <1>2 DEF Covered, Stored

LEMMA GapKept ==
    ASSUME ShapeOK, NoNonceGap, \A s \in Signers: \A n \in Int: Covered(n, s) => Covered(n, s)',
           \A t \in Txs: Exists(t)' => /\ rows'[t].nonce \in Int
                                       /\ (Exists(t) /\ rows'[t].nonce = rows[t].nonce) \/ Covered(rows'[t].nonce, SignerOf[t])
    PROVE  NoNonceGap'
<1> SUFFICES ASSUME NEW t \in Txs, Exists(t)'
             PROVE  \A n \in node'[SignerOf[t]]..(rows'[t].nonce - 1):
                       <<SignerOf[t], n>> \in deleted' \/ \E u \in Stored(SignerOf[t])': rows'[u].nonce = n
  BY DEF NoNonceGap
<1>0. SignerOf[t] \in Signers BY SignerAssumption
<1>1. PICK m \in Int: m = rows'[t].nonce OBVIOUS
<1>2. Exists(t) /\ rows'[t].nonce = rows[t].nonce => Covered(m, SignerOf[t]) BY <1>1 DEF NoNonceGap, Covered
<1>3. Covered(m, SignerOf[t]) BY <1>1, <1>2
<1>4. Covered(m, SignerOf[t])' BY <1>0, <1>3
<1> QED BY <1>1, <1>4 DEF Covered

\* A request that others do not disturb.
LEMMA InsertKept ==
    ASSUME ShapeOK, NEW q \in Requests, InsertOK(q), UNCHANGED setup, ins'[q] = ins[q],
           \A x \in Signers: locked[x] = q =>
              /\ locked'[x] = q
              /\ \A n \in Int: AboveStored(n, x) => AboveStored(n, x)'
              /\ \A n \in Int: Covered(n, x) => Covered(n, x)'
              /\ \A e \in idx': e[1] = x => e \in idx
    PROVE  InsertOK(q)'
<1>1. Current(q)' = Current(q) BY DEF Current, TxAt
<1>2. CASE ins[q].pc \notin {"list", "clean", "nonce", "write", "complete"} BY <1>2 DEF InsertOK
<1>3. CASE ins[q].pc \in {"list", "clean", "nonce", "write", "complete"}
  <2>0. PICK s \in Signers: s = SignerOf[Current(q)] BY <1>3, CurrentOK
  <2>1. ins[q] \in Insert BY <1>3, CurrentOK
  <2>2. locked[s] = q BY <1>3, <2>0 DEF InsertOK
  <2>3. /\ locked'[s] = q
        /\ \A n \in Int: AboveStored(n, s) => AboveStored(n, s)'
        /\ \A n \in Int: Covered(n, s) => Covered(n, s)'
        /\ \A e \in idx': e[1] = s => e \in idx
    BY <2>2
  <2>4. ins[q].last \in Int /\ ins[q].nonce \in Int BY <2>1 DEF Insert
  <2>5. PICK a \in Int: a = ins[q].last + 1 BY <2>4
  <2>6. PICK n \in Int: n = ins[q].nonce BY <2>4
  <2>7. ins[q].pc \in {"clean", "nonce"} =>
          /\ ins[q].last >= -1 /\ AboveStored(a, s) /\ Covered(a, s)
          /\ \A e \in idx: e[1] = s => e[2] <= ins[q].last \/ (ins[q].pc = "clean" /\ <<s, e[2]>> \in ins[q].orphans)
    BY <2>0, <2>5 DEF InsertOK
  <2>8. ins[q].pc = "write" => n >= 0 /\ AboveStored(n, s) /\ Covered(n, s) /\ \A e \in idx: e[1] = s => e[2] < n
    BY <2>0, <2>6 DEF InsertOK
  <2>9. ins[q].pc \in {"clean", "nonce"} => AboveStored(a, s)' /\ Covered(a, s)' BY <2>3, <2>7
  <2>10. ins[q].pc = "write" => AboveStored(n, s)' /\ Covered(n, s)' BY <2>3, <2>8
  <2>11. SignerOf[Current(q)]' = s BY <1>1, <2>0
  <2>12. /\ AboveStored(a, s)' <=> AboveStored(ins[q].last + 1, s)'
         /\ Covered(a, s)' <=> Covered(ins[q].last + 1, s)'
    BY <2>5 DEF AboveStored, Covered
  <2>13. /\ AboveStored(n, s)' <=> AboveStored(ins[q].nonce, s)'
         /\ Covered(n, s)' <=> Covered(ins[q].nonce, s)'
    BY <2>6 DEF AboveStored, Covered
  <2> QED BY <2>3, <2>5, <2>6, <2>7, <2>8, <2>9, <2>10, <2>11, <2>12, <2>13 DEF InsertOK
<1> QED BY <1>2, <1>3

\* deleteKeys.
LEMMA DeleteKeysOK ==
    ASSUME ShapeOK, LdbIndexOK, NEW keys, DeleteKeys(keys), UNCHANGED <<rows, node, deleted>>
    PROVE  /\ LdbIndexOK' /\ idx' \subseteq idx /\ \A e \in idx': <<e[1], e[2]>> \notin keys
           /\ \A s \in Signers: \A n \in Int: (AboveStored(n, s) => AboveStored(n, s)') /\ (Covered(n, s) => Covered(n, s)')
<1>1. /\ idx' = {e \in idx: <<e[1], e[2]>> \notin keys}
      /\ lost' = lost \cup {<<e[1], e[2]>>: e \in {x \in idx: <<x[1], x[2]>> \in keys /\ Exists(x[3])}}
  BY DEF DeleteKeys
<1>2. idx' \subseteq idx /\ lost \subseteq lost' /\ \A e \in idx': <<e[1], e[2]>> \notin keys BY <1>1
<1>3. \A t \in Txs: Exists(t)' <=> Exists(t) BY DEF Exists
<1>4. ASSUME NEW t \in Txs, Exists(t)
      PROVE  <<SignerOf[t], rows[t].nonce>> \in lost' \/ <<SignerOf[t], rows[t].nonce, t>> \in idx'
  <2> DEFINE e == <<SignerOf[t], rows[t].nonce, t>>
  <2>1. CASE <<SignerOf[t], rows[t].nonce>> \in lost BY <1>2, <2>1
  <2>2. CASE e \in idx
    <3>1. e[1] = SignerOf[t] /\ e[2] = rows[t].nonce /\ e[3] = t OBVIOUS
    <3> HIDE DEF e
    <3>2. CASE <<e[1], e[2]>> \in keys
      <4>1. <<e[1], e[2]>> \in lost' BY <1>1, <1>4, <2>2, <3>1, <3>2
      <4> QED BY <3>1, <4>1
    <3>3. CASE <<e[1], e[2]>> \notin keys
      <4>1. e \in idx' BY <1>1, <2>2, <3>3
      <4> QED BY <4>1 DEF e
    <3> QED BY <3>2, <3>3
  <2> QED BY <1>4, <2>1, <2>2 DEF LdbIndexOK
<1>5. LdbIndexOK'
  <2>1. \A e \in idx': SignerOf[e[3]] = e[1] /\ (rows'[e[3]] # NoRow => e[2] <= rows'[e[3]].nonce) BY <1>2 DEF LdbIndexOK, Exists
  <2>2. \A e, f \in idx': e[1] = f[1] /\ e[2] = f[2] => e = f BY <1>2 DEF LdbIndexOK
  <2> QED BY <1>3, <1>4, <2>1, <2>2 DEF LdbIndexOK, Exists
<1>6. ASSUME NEW s \in Signers, NEW n \in Int PROVE (AboveStored(n, s) => AboveStored(n, s)') /\ (Covered(n, s) => Covered(n, s)')
  BY <1>2, <1>3 DEF AboveStored, Covered, Stored
<1> QED BY <1>2, <1>5, <1>6

\* What a listing finds: everything of the signer in the index is below the last
\* nonce, or orphaned.
LEMMA ListFinds ==
    ASSUME ShapeOK, LdbIndexOK, NoNonceGap, NEW s \in Signers
    PROVE  /\ LastNonce(s) \in Int /\ LastNonce(s) >= -1
           /\ AboveStored(LastNonce(s) + 1, s) /\ Covered(LastNonce(s) + 1, s)
           /\ \A e \in idx: e[1] = s => e[2] <= LastNonce(s) \/ <<s, e[2]>> \in Orphans(s)
<1> DEFINE last == LastNonce(s)
           top == LastEntry(s)
<1>0. LdbOK /\ RowsOK /\ node[s] \in Nat /\ idx \subseteq Signers \X Nat \X Txs BY DEF ShapeOK, CommonOK, LdbOK
<1>1. /\ last \in Int /\ last >= -1
      /\ Resolved(s) # {} =>
           /\ top \in Resolved(s) /\ \A f \in Resolved(s): f[2] <= top[2]
           /\ last = rows[top[3]].nonce
      /\ Resolved(s) = {} => last = -1
  BY <1>0, LastNonceOK
<1> HIDE DEF last, top
<1>2. Resolved(s) # {} => /\ top \in idx /\ top[3] \in Txs /\ Exists(top[3]) /\ SignerOf[top[3]] = s
                          /\ top[2] \in Nat /\ top[2] <= last
  BY <1>0, <1>1 DEF Resolved, LdbIndexOK
<1>3. \A f \in Resolved(s): f[2] <= last
  <2> TAKE f \in Resolved(s)
  <2>1. f[2] \in Nat BY <1>0 DEF Resolved
  <2> QED BY <1>1, <1>2, <2>1
<1>4. AboveStored(last + 1, s)
  <2> SUFFICES ASSUME NEW t \in Stored(s), <<s, rows[t].nonce>> \notin lost PROVE rows[t].nonce < last + 1 BY DEF AboveStored
  <2>1. t \in Txs /\ Exists(t) /\ SignerOf[t] = s /\ rows[t].nonce \in Nat BY <1>0 DEF Stored, RowsOK
  <2> DEFINE e == <<s, rows[t].nonce, t>>
  <2>2. e \in idx BY <2>1 DEF LdbIndexOK
  <2>3. e[1] = s /\ e[2] = rows[t].nonce /\ e[3] = t OBVIOUS
  <2> HIDE DEF e
  <2>4. e \in Resolved(s) BY <2>1, <2>2, <2>3 DEF Resolved
  <2>5. rows[t].nonce <= last BY <1>3, <2>3, <2>4
  <2> QED BY <1>1, <2>1, <2>5
<1>5. Covered(last + 1, s)
  <2>1. CASE Resolved(s) = {} BY <1>0, <1>1, <2>1 DEF Covered
  <2>2. CASE Resolved(s) # {}
    <3>0. PICK n \in Int: n = last + 1 BY <1>1
    <3> SUFFICES ASSUME NEW m \in node[s]..(n - 1) PROVE <<s, m>> \in deleted \/ \E u \in Stored(s): rows[u].nonce = m
      BY <3>0 DEF Covered
    <3>1. PICK u \in Txs: u = top[3] BY <1>2, <2>2
    <3>2. u \in Stored(s) /\ rows[u].nonce = last /\ Exists(u) /\ SignerOf[u] = s BY <1>1, <1>2, <2>2, <3>1 DEF Stored
    <3>3. m = last \/ m \in node[s]..(rows[u].nonce - 1) BY <1>0, <1>1, <3>0, <3>2
    <3> QED BY <3>2, <3>3 DEF NoNonceGap
  <2> QED BY <2>1, <2>2
<1>6. ASSUME NEW e \in idx, e[1] = s PROVE e[2] <= last \/ <<s, e[2]>> \in Orphans(s)
  <2>1. CASE \A f \in Resolved(s): f[2] < e[2] BY <1>6, <2>1 DEF Orphans
  <2>2. CASE \E f \in Resolved(s): ~(f[2] < e[2])
    <3>1. PICK f \in Resolved(s): ~(f[2] < e[2]) BY <2>2
    <3>2. f[2] \in Nat /\ e[2] \in Nat /\ f[2] <= last BY <1>0, <1>3 DEF Resolved
    <3> QED BY <1>1, <3>1, <3>2
  <2> QED BY <2>1, <2>2
<1> QED BY <1>1, <1>4, <1>5, <1>6 DEF last

\* A request goes on while the records and the index stay as they are.
LEMMA InsertGoesOn ==
    ASSUME ShapeOK, LdbIndexOK, SubmittedOK, NoNonceGap, \A q \in Requests: InsertOK(q),
           UNCHANGED <<setup, rows, node, submitted, deleted, idx, lost>>, NEW r \in Requests,
           \A q \in Requests \ {r}: ins'[q] = ins[q],
           \A q \in Requests \ {r}, s \in Signers: locked[s] = q => locked'[s] = q, InsertOK(r)'
    PROVE  LdbIndexOK' /\ SubmittedOK' /\ NoNonceGap' /\ \A q \in Requests: InsertOK(q)'
<1>1. LdbIndexOK' BY DEF LdbIndexOK, Exists
<1>2. SubmittedOK' BY DEF SubmittedOK, Exists
<1>3. NoNonceGap' BY DEF NoNonceGap, Stored, Exists
<1>4. ASSUME NEW q \in Requests PROVE InsertOK(q)'
  <2>1. CASE q = r BY <2>1
  <2>2. CASE q # r
    <3>1. ins'[q] = ins[q] /\ \A s \in Signers: locked[s] = q => locked'[s] = q BY <2>2
    <3>2. \A s \in Signers: \A n \in Int: (AboveStored(n, s) => AboveStored(n, s)') /\ (Covered(n, s) => Covered(n, s)')
      BY DEF AboveStored, Covered, Stored, Exists
    <3> QED BY <3>1, <3>2, InsertKept
  <2> QED BY <2>1, <2>2
<1> QED BY <1>1, <1>2, <1>3, <1>4

\* The same while index records are deleted.
LEMMA DeleteKeysStep ==
    ASSUME ShapeOK, LdbIndexOK, SubmittedOK, NoNonceGap, \A q \in Requests: InsertOK(q),
           NEW keys, DeleteKeys(keys), UNCHANGED <<setup, rows, node, submitted, deleted, locked>>,
           \A q \in Requests: InsertOK(q)' \/ ins'[q] = ins[q]
    PROVE  LdbIndexOK' /\ SubmittedOK' /\ NoNonceGap' /\ \A q \in Requests: InsertOK(q)'
<1>1. /\ LdbIndexOK' /\ idx' \subseteq idx
      /\ \A s \in Signers: \A n \in Int: (AboveStored(n, s) => AboveStored(n, s)') /\ (Covered(n, s) => Covered(n, s)')
  BY DeleteKeysOK
<1>2. SubmittedOK' BY DEF SubmittedOK, Exists
<1>3. NoNonceGap' BY DEF NoNonceGap, Stored, Exists
<1>4. ASSUME NEW q \in Requests PROVE InsertOK(q)'
  <2>1. CASE ins'[q] = ins[q] BY <1>1, <2>1, InsertKept
  <2> QED BY <2>1
<1> QED BY <1>1, <1>2, <1>3, <1>4

\* The steps of an insert up to the write.
LEMMA AssignStep ==
    ASSUME ShapeOK, LdbIndexOK, SubmittedOK, NoNonceGap, \A q \in Requests: InsertOK(q), NEW r \in Requests,
           BeginInsert(r) \/ AssignAndLockNonce(r) \/ CalcNextNonceFromTxs(r) \/ Complete(r)
    PROVE  LdbIndexOK' /\ SubmittedOK' /\ NoNonceGap' /\ \A q \in Requests: InsertOK(q)'
<1> USE DEF storeVars
<1>0. /\ ins \in [Requests -> Insert] /\ locked \in [Signers -> Requests \cup {NoRequest}] /\ \A s \in Signers: node[s] \in Nat
      /\ idx \subseteq Signers \X Nat \X Txs
  BY DEF ShapeOK, LdbOK, CommonOK
<1>1. CASE BeginInsert(r)
  <2>1. UNCHANGED <<setup, rows, node, submitted, deleted, idx, lost, locked>> /\ ins' = [ins EXCEPT ![r].pc = "assign"]
    BY <1>1 DEF BeginInsert, Goto
  <2>2. ins'[r].pc = "assign" /\ \A q \in Requests \ {r}: ins'[q] = ins[q] BY <1>0, <2>1 DEF Insert
  <2>3. InsertOK(r)' BY <2>2 DEF InsertOK
  <2> QED BY <2>1, <2>2, <2>3, InsertGoesOn
<1>2. CASE AssignAndLockNonce(r)
  <2> DEFINE s == SignerOf[Current(r)]
  <2>1. /\ UNCHANGED <<setup, rows, node, submitted, deleted, idx, lost>> /\ ins' = [ins EXCEPT ![r].pc = "list"]
        /\ ins[r].pc = "assign" /\ locked[s] = NoRequest /\ locked' = [locked EXCEPT ![s] = r]
    BY <1>2 DEF AssignAndLockNonce, Goto
  <2>2. ins'[r].pc = "list" /\ ins'[r].i = ins[r].i /\ \A q \in Requests \ {r}: ins'[q] = ins[q] BY <1>0, <2>1 DEF Insert
  <2>3. s \in Signers BY <2>1, CurrentOK
  <2>4. \A q \in Requests \ {r}, x \in Signers: locked[x] = q => locked'[x] = q BY <1>0, <2>1, <2>3, RequestAssumption
  <2>5. locked'[s] = r BY <1>0, <2>1, <2>3
  <2>6. Current(r)' = Current(r) BY <2>1, <2>2 DEF Current, TxAt
  <2>7. InsertOK(r)' BY <2>2, <2>5, <2>6 DEF InsertOK
  <2> QED BY <2>1, <2>2, <2>4, <2>7, InsertGoesOn
<1>3. CASE CalcNextNonceFromTxs(r)
  <2> DEFINE s == SignerOf[Current(r)]
             last == ins[r].last
  <2>0. PICK fresh \in BOOLEAN:
          ins' = [ins EXCEPT ![r].pc = "write", ![r].nonce = NextNonce(ins[r].last, fresh, node[SignerOf[Current(r)]])]
    BY <1>3 DEF CalcNextNonceFromTxs
  <2> DEFINE n == NextNonce(last, fresh, node[s])
  <2>1. UNCHANGED <<setup, rows, node, submitted, deleted, idx, lost, locked>> /\ ins[r].pc = "nonce" BY <1>3 DEF CalcNextNonceFromTxs
  <2>2. s \in Signers BY <2>1, CurrentOK
  <2>3. /\ last \in Int /\ last >= -1 /\ AboveStored(last + 1, s) /\ Covered(last + 1, s) /\ locked[s] = r
        /\ \A e \in idx: e[1] = s => e[2] <= last
    BY <1>0, <2>1 DEF InsertOK, Insert
  <2>4. n \in Int /\ n >= last + 1 /\ (n = last + 1 \/ n = node[s]) BY <1>0, <2>2, <2>3 DEF NextNonce
  <2>5. ins'[r].pc = "write" /\ ins'[r].nonce = n /\ ins'[r].i = ins[r].i /\ \A q \in Requests \ {r}: ins'[q] = ins[q]
    BY <1>0, <2>0 DEF Insert
  <2>6. Current(r)' = Current(r) BY <2>1, <2>5 DEF Current, TxAt
  <2> HIDE DEF n, last
  <2>7. PICK m \in Int: m = n BY <2>4
  <2>8. AboveStored(m, s)
    <3>1. \A t \in Stored(s): rows[t].nonce \in Int BY DEF ShapeOK, RowsOK, Stored
    <3> HIDE DEF s
    <3> QED BY <2>3, <2>4, <2>7, <3>1 DEF AboveStored
  <2>9. Covered(m, s)
    <3>1. CASE n = last + 1 BY <2>3, <2>7, <3>1
    <3>2. CASE n = node[s]
      <4>1. m - 1 < node[s] /\ node[s] \in Int BY <1>0, <2>2, <2>7, <3>2
      <4> HIDE DEF s
      <4> QED BY <4>1 DEF Covered
    <3> QED BY <2>4, <3>1, <3>2
  <2>10. \A e \in idx: e[1] = s => e[2] < m
    <3> TAKE e \in idx
    <3>1. e[2] \in Int BY <1>0
    <3> HIDE DEF s
    <3> QED BY <2>3, <2>4, <2>7, <3>1
  <2>11. AboveStored(m, s)' /\ Covered(m, s)'
    BY <2>1, <2>6, <2>8, <2>9 DEF AboveStored, Covered, Stored, Exists
  <2>12. AboveStored(ins[r].nonce, s)' /\ Covered(ins[r].nonce, s)' BY <2>5, <2>7, <2>11 DEF AboveStored, Covered
  <2>13. InsertOK(r)' BY <2>1, <2>2, <2>3, <2>4, <2>5, <2>6, <2>7, <2>10, <2>12 DEF InsertOK
  <2> QED BY <2>1, <2>5, <2>13, InsertGoesOn
<1>4. CASE Complete(r)
  <2> DEFINE s == SignerOf[Current(r)]
             x == [IdleInsert EXCEPT !.pc = IF ins[r].i = Size(r) THEN "done" ELSE "assign", !.i = IF ins[r].i = Size(r) THEN @ ELSE ins[r].i + 1]
  <2>1. /\ UNCHANGED <<setup, rows, node, submitted, deleted, idx, lost>> /\ ins' = [ins EXCEPT ![r] = x]
        /\ ins[r].pc = "complete" /\ locked' = [locked EXCEPT ![s] = NoRequest]
    BY <1>4 DEF Complete
  <2>2. x.pc \in {"done", "assign"} BY DEF IdleInsert
  <2> HIDE DEF x
  <2>3. ins'[r].pc \in {"done", "assign"} /\ \A q \in Requests \ {r}: ins'[q] = ins[q] BY <1>0, <2>1, <2>2
  <2>4. s \in Signers /\ locked[s] = r BY <2>1, CurrentOK DEF InsertOK
  <2>5. \A q \in Requests \ {r}, y \in Signers: locked[y] = q => locked'[y] = q BY <1>0, <2>1, <2>4
  <2>6. InsertOK(r)' BY <2>3 DEF InsertOK
  <2> QED BY <2>1, <2>3, <2>5, <2>6, InsertGoesOn
<1> QED BY <1>1, <1>2, <1>3, <1>4

\* What InsertOK says of a request that has listed.
LEMMA ListedOK ==
    ASSUME NEW r \in Requests, NEW s, SignerOf[Current(r)]' = s, locked'[s] = r,
           ins'[r].pc \in {"clean", "nonce"}, ins'[r].last \in Int, ins'[r].last >= -1,
           NEW a, a = ins'[r].last + 1, AboveStored(a, s)', Covered(a, s)',
           \A e \in idx': e[1] = s => e[2] <= ins'[r].last \/ (ins'[r].pc = "clean" /\ <<s, e[2]>> \in ins'[r].orphans)
    PROVE  InsertOK(r)'
<1>1. AboveStored(ins[r].last + 1, s)' /\ Covered(ins[r].last + 1, s)' BY DEF AboveStored, Covered
<1>2. ins'[r].pc # "write" OBVIOUS
<1> QED BY <1>1, <1>2 DEF InsertOK

LEMMA ListStep ==
    ASSUME ShapeOK, LdbIndexOK, SubmittedOK, NoNonceGap, \A q \in Requests: InsertOK(q), NEW r \in Requests,
           CalcNextNonce(r) \/ CleanupOrphans(r)
    PROVE  LdbIndexOK' /\ SubmittedOK' /\ NoNonceGap' /\ \A q \in Requests: InsertOK(q)'
<1> USE DEF storeVars
<1>0. /\ ins \in [Requests -> Insert] /\ ins[r] \in Insert BY DEF ShapeOK, LdbOK
<1>a. /\ UNCHANGED <<setup, rows, node, submitted, deleted, locked>> /\ ins[r].pc \in {"list", "clean"}
  BY DEF CalcNextNonce, CleanupOrphans
<1>b. PICK s \in Signers: s = SignerOf[Current(r)] BY <1>a, CurrentOK
<1>c. locked'[s] = r BY <1>a, <1>b DEF InsertOK
<1>1. CASE CalcNextNonce(r)
  <2> DEFINE last == LastNonce(s)
             keys == Orphans(s)
  <2>1. /\ last \in Int /\ last >= -1 /\ AboveStored(last + 1, s) /\ Covered(last + 1, s)
        /\ \A e \in idx: e[1] = s => e[2] <= last \/ <<s, e[2]>> \in keys
    BY ListFinds
  <2>2. \/ DeleteKeys(keys) /\ ins' = [ins EXCEPT ![r] = [ins[r] EXCEPT !.last = last, !.pc = "nonce"]]
        \/ /\ UNCHANGED <<idx, lost>>
           /\ ins' = [ins EXCEPT ![r] = [[ins[r] EXCEPT !.last = last, !.pc = "nonce"] EXCEPT !.pc = "clean", !.orphans = keys]]
    BY <1>1, <1>b DEF CalcNextNonce
  <2> HIDE DEF last, keys
  <2>3. PICK a \in Int: a = last + 1 BY <2>1
  <2>4. AboveStored(a, s) /\ Covered(a, s) BY <2>1, <2>3
  <2>5. CASE DeleteKeys(keys) /\ ins' = [ins EXCEPT ![r] = [ins[r] EXCEPT !.last = last, !.pc = "nonce"]]
    <3>1. ins'[r].last = last /\ ins'[r].pc = "nonce" /\ ins'[r].i = ins[r].i /\ \A q \in Requests \ {r}: ins'[q] = ins[q]
      BY <1>0, <2>5 DEF Insert
    <3>2. SignerOf[Current(r)]' = s BY <1>a, <1>b, <3>1 DEF Current, TxAt
    <3>3. idx' \subseteq idx /\ \A e \in idx': <<e[1], e[2]>> \notin keys BY <1>a, <2>5, DeleteKeysOK
    <3>4. AboveStored(a, s)' /\ Covered(a, s)' BY <1>a, <2>4, <2>5, DeleteKeysOK
    <3>5. \A e \in idx': e[1] = s => e[2] <= last BY <2>1, <3>3
    <3>6. InsertOK(r)' BY <1>c, <2>1, <2>3, <3>1, <3>2, <3>4, <3>5, ListedOK
    <3>7. \A q \in Requests \ {r}: ins'[q] = ins[q] BY <3>1
    <3>8. DeleteKeys(keys) /\ \A q \in Requests: InsertOK(q)' \/ ins'[q] = ins[q] BY <2>5, <3>6, <3>7
    <3> QED BY <1>a, <3>8, DeleteKeysStep
  <2>6. CASE /\ UNCHANGED <<idx, lost>>
             /\ ins' = [ins EXCEPT ![r] = [[ins[r] EXCEPT !.last = last, !.pc = "nonce"] EXCEPT !.pc = "clean", !.orphans = keys]]
    <3>1. /\ ins'[r].last = last /\ ins'[r].pc = "clean" /\ ins'[r].i = ins[r].i /\ ins'[r].orphans = keys
          /\ \A q \in Requests \ {r}: ins'[q] = ins[q]
      BY <1>0, <2>6 DEF Insert
    <3>2. SignerOf[Current(r)]' = s BY <1>a, <1>b, <3>1 DEF Current, TxAt
    <3>3. AboveStored(a, s)' /\ Covered(a, s)' BY <1>a, <2>4, <2>6 DEF AboveStored, Covered, Stored, Exists
    <3>4. \A e \in idx': e[1] = s => e[2] <= last \/ <<s, e[2]>> \in keys BY <2>1, <2>6
    <3>5. InsertOK(r)' BY <1>c, <2>1, <2>3, <3>1, <3>2, <3>3, <3>4, ListedOK
    <3>6. \A q \in Requests \ {r}, x \in Signers: locked[x] = q => locked'[x] = q BY <1>a
    <3> QED BY <1>a, <2>6, <3>1, <3>5, <3>6, InsertGoesOn
  <2> QED BY <2>2, <2>5, <2>6
<1>2. CASE CleanupOrphans(r)
  <2> DEFINE last == ins[r].last
             keys == ins[r].orphans
  <2>1. ins[r].pc = "clean" /\ DeleteKeys(keys) /\ ins' = [ins EXCEPT ![r].pc = "nonce", ![r].orphans = {}] BY <1>2 DEF CleanupOrphans
  <2>2. last \in Int BY <1>0 DEF Insert
  <2>3. /\ last >= -1 /\ AboveStored(last + 1, s) /\ Covered(last + 1, s)
        /\ \A e \in idx: e[1] = s => e[2] <= last \/ <<s, e[2]>> \in keys
    BY <1>b, <2>1 DEF InsertOK
  <2>4. ins'[r].last = last /\ ins'[r].pc = "nonce" /\ ins'[r].i = ins[r].i /\ \A q \in Requests \ {r}: ins'[q] = ins[q]
    BY <1>0, <2>1 DEF Insert
  <2>5. SignerOf[Current(r)]' = s BY <1>a, <1>b, <2>4 DEF Current, TxAt
  <2> HIDE DEF last, keys
  <2>6. PICK a \in Int: a = last + 1 BY <2>2
  <2>7. AboveStored(a, s) /\ Covered(a, s) BY <2>3, <2>6
  <2>8. AboveStored(a, s)' /\ Covered(a, s)' BY <1>a, <2>1, <2>7, DeleteKeysOK
  <2>9. idx' \subseteq idx /\ \A e \in idx': <<e[1], e[2]>> \notin keys BY <1>a, <2>1, DeleteKeysOK
  <2>10. \A e \in idx': e[1] = s => e[2] <= last BY <2>3, <2>9
  <2>11. InsertOK(r)' BY <1>c, <2>2, <2>3, <2>4, <2>5, <2>6, <2>8, <2>10, ListedOK
  <2>12. \A q \in Requests: InsertOK(q)' \/ ins'[q] = ins[q] BY <2>4, <2>11
  <2> QED BY <1>a, <2>1, <2>12, DeleteKeysStep
<1> QED BY <1>1, <1>2

\* The write: an index record, and perhaps the transaction.
LEMMA WriteStep ==
    ASSUME ShapeOK, LdbIndexOK, SubmittedOK, NoNonceGap, \A q \in Requests: InsertOK(q), NEW r \in Requests,
           WriteTransaction(r)
    PROVE  LdbIndexOK' /\ SubmittedOK' /\ NoNonceGap' /\ \A q \in Requests: InsertOK(q)'
<1>0. /\ ins \in [Requests -> Insert] /\ ins[r] \in Insert /\ idx \subseteq Signers \X Nat \X Txs
      /\ rows \in [Txs -> [nonce: Int, status: {"None", "Pending", "Succeeded"}, hash: BOOLEAN]]
      /\ \A u \in Txs: Exists(u) => rows[u].nonce \in Nat
      /\ \A s \in Signers: node[s] \in Nat
  BY DEF ShapeOK, LdbOK, RowsOK, CommonOK
<1>a. UNCHANGED <<setup, node, submitted, deleted, locked, lost>> /\ ins' = [ins EXCEPT ![r].pc = "complete"] /\ ins[r].pc = "write"
  BY DEF WriteTransaction, Goto
<1>b. PICK t \in Txs: t = Current(r) BY <1>a, CurrentOK
<1>c. PICK s \in Signers: s = SignerOf[t] BY SignerAssumption
<1>d. PICK n \in Int: n = ins[r].nonce BY <1>0 DEF Insert
<1>e. locked[s] = r /\ n >= 0 /\ AboveStored(n, s) /\ Covered(n, s) /\ \A e \in idx: e[1] = s => e[2] < n
  BY <1>a, <1>b, <1>c, <1>d DEF InsertOK
<1>f. ins'[r].pc = "complete" /\ ins'[r].i = ins[r].i /\ \A q \in Requests \ {r}: ins'[q] = ins[q] BY <1>0, <1>a DEF Insert
<1>1. InsertOK(r)'
  <2>1. Current(r)' = Current(r) BY <1>a, <1>f DEF Current, TxAt
  <2> QED BY <1>a, <1>b, <1>c, <1>e, <1>f, <2>1 DEF InsertOK
<1> DEFINE x == <<s, n, t>>
           written == {e \in idx: <<e[1], e[2]>> # <<s, n>>} \cup {x}
<1>2. PICK o \in WriteOutcomes(t):
        /\ idx' = IF o \in {"ok", "orphan"} THEN written ELSE idx
        /\ rows' = IF o = "ok" THEN [rows EXCEPT ![t] = NewRow(n)] ELSE rows
  BY <1>b, <1>c, <1>d DEF WriteTransaction
<1>3. o \in {"conflict", "ok", "early", "orphan"} /\ (o \in {"ok", "orphan"} => ~Exists(t))
  BY <1>2 DEF WriteOutcomes
<1>4. x[1] = s /\ x[2] = n /\ x[3] = t OBVIOUS
<1>5. written = idx \cup {x}
  <2>1. \A e \in idx: <<e[1], e[2]>> # <<s, n>>
    <3> TAKE e \in idx
    <3> SUFFICES ASSUME <<e[1], e[2]>> = <<s, n>> PROVE FALSE OBVIOUS
    <3>1. e[1] = s /\ e[2] = n OBVIOUS
    <3>2. e[2] < n BY <1>e, <3>1
    <3> QED BY <3>1, <3>2
  <2> QED BY <2>1
<1> HIDE DEF x, written
<1>6. CASE o \in {"conflict", "early"}
  <2>1. UNCHANGED <<idx, rows>> BY <1>2, <1>6
  <2>2. \A q \in Requests \ {r}, y \in Signers: locked[y] = q => locked'[y] = q BY <1>a
  <2> QED BY <1>1, <1>a, <1>f, <2>1, <2>2, InsertGoesOn
<1>7. CASE o \in {"ok", "orphan"}
  <2>0. idx' = idx \cup {x} /\ ~Exists(t) BY <1>2, <1>3, <1>5, <1>7
  <2>1. /\ \A u \in Txs \ {t}: rows'[u] = rows[u]
        /\ o = "orphan" => rows' = rows
        /\ o = "ok" => rows'[t] = NewRow(n)
    BY <1>0, <1>2
  <2>2. /\ \A u \in Txs: Exists(u) => u # t /\ Exists(u)' /\ rows'[u] = rows[u]
        /\ \A u \in Txs: Exists(u)' => (Exists(u) /\ rows'[u] = rows[u]) \/ (u = t /\ rows'[u].nonce = n)
        /\ \A u \in Txs \ {t}: Exists(u)' <=> Exists(u)
    <3>1. o = "ok" => rows'[t] # NoRow /\ rows'[t].nonce = n BY <2>1 DEF NewRow, NoRow
    <3> QED BY <1>7, <2>0, <2>1, <3>1 DEF Exists
  <2>3. LdbIndexOK'
    <3>1. ASSUME NEW e \in idx' PROVE SignerOf[e[3]] = e[1] /\ (rows'[e[3]] # NoRow => e[2] <= rows'[e[3]].nonce)
      <4>1. CASE e = x
        <5>1. SignerOf[e[3]] = e[1] BY <1>4, <1>c, <4>1
        <5>2. rows'[t] # NoRow => rows'[t].nonce = n BY <2>0, <2>2 DEF Exists
        <5> QED BY <1>4, <4>1, <5>1, <5>2
      <4>2. CASE e \in idx
        <5>1. SignerOf[e[3]] = e[1] /\ (Exists(e[3]) => e[2] <= rows[e[3]].nonce) /\ e[3] \in Txs /\ e[2] \in Nat
          BY <1>0, <4>2 DEF LdbIndexOK
        <5>2. CASE e[3] = t
          <6>1. e[2] < n BY <1>c, <1>e, <4>2, <5>1, <5>2
          <6>2. rows'[t] # NoRow => rows'[t].nonce = n BY <2>0, <2>2 DEF Exists
          <6> QED BY <5>1, <5>2, <6>1, <6>2
        <5>3. CASE e[3] # t
          <6>1. rows'[e[3]] = rows[e[3]] BY <2>1, <5>1, <5>3
          <6> QED BY <5>1, <6>1 DEF Exists
        <5> QED BY <5>2, <5>3
      <4> QED BY <2>0, <4>1, <4>2
    <3>2. ASSUME NEW e \in idx', NEW f \in idx', e[1] = f[1], e[2] = f[2] PROVE e = f
      <4>1. ASSUME NEW g \in idx, g[1] = s, g[2] = n PROVE FALSE BY <1>e, <4>1
      <4> QED BY <1>4, <2>0, <3>2, <4>1 DEF LdbIndexOK
    <3>3. ASSUME NEW u \in Txs, Exists(u)'
          PROVE <<SignerOf[u], rows'[u].nonce>> \in lost' \/ <<SignerOf[u], rows'[u].nonce, u>> \in idx'
      <4>1. CASE Exists(u) /\ rows'[u] = rows[u] BY <1>a, <2>0, <4>1 DEF LdbIndexOK
      <4>2. CASE u = t /\ rows'[u].nonce = n BY <1>c, <2>0, <4>2 DEF x
      <4> QED BY <2>2, <3>3, <4>1, <4>2
    <3> QED BY <3>1, <3>2, <3>3 DEF LdbIndexOK, Exists
  <2>4. SubmittedOK'
    <3>1. \A e \in submitted: <<e[1], e[2]>> \in deleted
             \/ (e[3] \in Txs /\ Exists(e[3]) /\ SignerOf[e[3]] = e[1] /\ rows[e[3]].nonce = e[2])
      BY DEF SubmittedOK, ShapeOK, CommonOK
    <3>2. \A e \in submitted: <<e[1], e[2]>> \in deleted
             \/ (rows'[e[3]] # NoRow /\ SignerOf[e[3]] = e[1] /\ rows'[e[3]].nonce = e[2])
      BY <2>2, <3>1 DEF Exists
    <3> QED BY <1>a, <3>2 DEF SubmittedOK, Exists
  <2>5. \A y \in Signers: \A m \in Int: Covered(m, y) => Covered(m, y)'
    <3> TAKE y \in Signers
    <3>1. node'[y] \in Int /\ node'[y] >= node[y] BY <1>0, <1>a
    <3>2. \A u \in Stored(y): Exists(u)' /\ rows'[u].nonce = rows[u].nonce BY <2>2 DEF Stored
    <3> QED BY <1>a, <3>1, <3>2, CoveredKept
  <2>6. NoNonceGap'
    <3>1. ASSUME NEW u \in Txs, Exists(u)'
          PROVE  /\ rows'[u].nonce \in Int
                 /\ (Exists(u) /\ rows'[u].nonce = rows[u].nonce) \/ Covered(rows'[u].nonce, SignerOf[u])
      <4>1. CASE Exists(u) /\ rows'[u] = rows[u] BY <1>0, <4>1
      <4>2. CASE u = t /\ rows'[u].nonce = n BY <1>c, <1>e, <4>2
      <4> QED BY <2>2, <3>1, <4>1, <4>2
    <3> QED BY <2>5, <3>1, GapKept
  <2>7. ASSUME NEW q \in Requests PROVE InsertOK(q)'
    <3>1. CASE q = r BY <1>1, <3>1
    <3>2. CASE q # r
      <4>1. ins'[q] = ins[q] BY <1>f, <3>2
      <4>2. ASSUME NEW y \in Signers, locked[y] = q
            PROVE  /\ locked'[y] = q
                   /\ \A m \in Int: AboveStored(m, y) => AboveStored(m, y)'
                   /\ \A m \in Int: Covered(m, y) => Covered(m, y)'
                   /\ \A e \in idx': e[1] = y => e \in idx
        <5>1. y # s BY <1>e, <3>2, <4>2
        <5>2. \A e \in idx': e[1] = y => e \in idx BY <1>4, <2>0, <5>1
        <5>3. \A u \in Stored(y)': u \in Stored(y) /\ rows'[u] = rows[u] BY <1>c, <2>2, <5>1 DEF Stored
        <5>4. \A m \in Int: AboveStored(m, y) => AboveStored(m, y)' BY <1>a, <5>3 DEF AboveStored
        <5> QED BY <1>a, <2>5, <4>2, <5>2, <5>4
      <4> QED BY <1>a, <4>1, <4>2, InsertKept
    <3> QED BY <3>1, <3>2
  <2> QED BY <2>3, <2>4, <2>6, <2>7
<1> QED BY <1>3, <1>6, <1>7

\* Deletes and listings.
LEMMA DeleteStep ==
    ASSUME ShapeOK, LdbIndexOK, SubmittedOK, NoNonceGap, \A q \in Requests: InsertOK(q), NEW t,
           (t \in Txs /\ DeleteTransaction(t)) \/ DeleteIndex \/ ListByNonce \/ ListCleansUp
    PROVE  LdbIndexOK' /\ SubmittedOK' /\ NoNonceGap' /\ \A q \in Requests: InsertOK(q)'
<1> USE DEF storeVars
<1>1. CASE t \in Txs /\ DeleteTransaction(t)
  <2>0. /\ rows \in [Txs -> [nonce: Int, status: {"None", "Pending", "Succeeded"}, hash: BOOLEAN]]
        /\ \A u \in Txs: Exists(u) => rows[u].nonce \in Nat
        /\ submitted \subseteq Signers \X Nat \X Txs
        /\ \A s \in Signers: node[s] \in Nat
    BY DEF ShapeOK, RowsOK, CommonOK
  <2>1. /\ t \in Txs /\ Exists(t) /\ rows' = [rows EXCEPT ![t] = NoRow] /\ deleted' = deleted \cup {<<SignerOf[t], rows[t].nonce>>}
        /\ UNCHANGED <<setup, node, submitted, idx, locked, ins, lost>>
    BY <1>1 DEF DeleteTransaction
  <2>2. /\ rows'[t] = NoRow
        /\ \A u \in Txs \ {t}: rows'[u] = rows[u]
        /\ \A u \in Txs: Exists(u)' => u # t /\ Exists(u) /\ rows'[u] = rows[u]
    BY <2>0, <2>1 DEF Exists
  <2>3. LdbIndexOK'
    <3>1. ASSUME NEW e \in idx PROVE SignerOf[e[3]] = e[1] /\ (rows'[e[3]] # NoRow => e[2] <= rows'[e[3]].nonce)
      <4>1. e[3] \in Txs BY DEF ShapeOK, LdbOK
      <4> QED BY <2>2, <4>1 DEF LdbIndexOK, Exists
    <3>2. \A e, f \in idx: e[1] = f[1] /\ e[2] = f[2] => e = f BY DEF LdbIndexOK
    <3>3. \A u \in Txs: Exists(u)' => <<SignerOf[u], rows'[u].nonce>> \in lost \/ <<SignerOf[u], rows'[u].nonce, u>> \in idx
      BY <2>2 DEF LdbIndexOK
    <3> QED BY <2>1, <3>1, <3>2, <3>3 DEF LdbIndexOK, Exists
  <2>4. SubmittedOK'
    <3>1. ASSUME NEW e \in submitted
          PROVE  <<e[1], e[2]>> \in deleted' \/ (rows'[e[3]] # NoRow /\ SignerOf[e[3]] = e[1] /\ rows'[e[3]].nonce = e[2])
      <4>1. CASE <<e[1], e[2]>> \in deleted BY <2>1, <4>1
      <4>2. CASE Exists(e[3]) /\ SignerOf[e[3]] = e[1] /\ rows[e[3]].nonce = e[2]
        <5>1. CASE e[3] = t BY <2>1, <4>2, <5>1
        <5>2. CASE e[3] # t
          <6>1. rows'[e[3]] = rows[e[3]] BY <2>0, <2>2, <5>2
          <6> QED BY <4>2, <6>1 DEF Exists
        <5> QED BY <5>1, <5>2
      <4> QED BY <4>1, <4>2 DEF SubmittedOK
    <3> QED BY <2>1, <3>1 DEF SubmittedOK, Exists
  <2>5. \A s \in Signers: \A n \in Int: Covered(n, s) => Covered(n, s)'
    <3> TAKE s \in Signers
    <3>1. node'[s] \in Int /\ node'[s] >= node[s] BY <2>0, <2>1
    <3>2. \A u \in Stored(s): <<s, rows[u].nonce>> \in deleted' \/ (Exists(u)' /\ rows'[u].nonce = rows[u].nonce)
      BY <2>1, <2>2 DEF Stored, Exists
    <3>3. deleted \subseteq deleted' BY <2>1
    <3> QED BY <3>1, <3>2, <3>3, CoveredKept
  <2>6. \A u \in Txs: Exists(u)' => rows'[u].nonce \in Int /\ Exists(u) /\ rows'[u].nonce = rows[u].nonce BY <2>0, <2>2
  <2>7. NoNonceGap' BY <2>5, <2>6, GapKept
  <2>8. \A s \in Signers: \A n \in Int: AboveStored(n, s) => AboveStored(n, s)'
    <3> TAKE s \in Signers
    <3>1. \A u \in Stored(s)': u \in Stored(s) /\ rows'[u] = rows[u] BY <2>2 DEF Stored
    <3> QED BY <2>1, <3>1 DEF AboveStored
  <2>9. \A q \in Requests: InsertOK(q)' BY <2>1, <2>5, <2>8, InsertKept
  <2> QED BY <2>3, <2>4, <2>7, <2>9
<1>2. CASE DeleteIndex
  <2>1. DeleteKeys({del}) /\ UNCHANGED <<setup, rows, node, submitted, deleted, locked, ins>> BY <1>2 DEF DeleteIndex
  <2> QED BY <2>1, DeleteKeysStep
<1>3. CASE ListCleansUp
  <2>1. DeleteKeys(lister) /\ UNCHANGED <<setup, rows, node, submitted, deleted, locked, ins>> BY <1>3 DEF ListCleansUp
  <2> QED BY <2>1, DeleteKeysStep
<1>4. CASE ListByNonce
  <2>1. UNCHANGED <<setup, rows, node, submitted, deleted, idx, lost, locked, ins>> BY <1>4 DEF ListByNonce
  <2>2. \A s \in Signers: \A n \in Int: (AboveStored(n, s) => AboveStored(n, s)') /\ (Covered(n, s) => Covered(n, s)')
    BY <2>1 DEF AboveStored, Covered, Stored, Exists
  <2>3. \A q \in Requests: InsertOK(q)' BY <2>1, <2>2, InsertKept
  <2> QED BY <2>1, <2>3 DEF LdbIndexOK, SubmittedOK, NoNonceGap, Stored, Exists
<1> QED BY <1>1, <1>2, <1>3, <1>4

\* The node takes a transaction.
LEMMA SubmitStep ==
    ASSUME ShapeOK, LdbIndexOK, SubmittedOK, NoNonceGap, \A q \in Requests: InsertOK(q), NEW t \in Txs,
           Submit(t), UNCHANGED <<writerVars, ldbVars>>
    PROVE  LdbIndexOK' /\ SubmittedOK' /\ NoNonceGap' /\ \A q \in Requests: InsertOK(q)'
<1>0. node \in [Signers -> Nat] /\ \A u \in Txs: Exists(u) => rows[u].nonce \in Nat BY DEF ShapeOK, CommonOK, RowsOK
<1>1. /\ Exists(t) /\ UNCHANGED <<setup, rows, deleted, idx, lost, locked, ins>>
      /\ submitted' = submitted \cup {<<SignerOf[t], rows[t].nonce, t>>}
  BY DEF Submit, ldbVars
<1>2. \A s \in Signers: node'[s] \in Int /\ node'[s] >= node[s] BY <1>0, SubmitShape
<1>3. LdbIndexOK' BY <1>1 DEF LdbIndexOK, Exists
<1>4. SubmittedOK'
  <2>1. ASSUME NEW e \in submitted'
        PROVE  <<e[1], e[2]>> \in deleted \/ (rows[e[3]] # NoRow /\ SignerOf[e[3]] = e[1] /\ rows[e[3]].nonce = e[2])
    <3>1. CASE e \in submitted BY <3>1 DEF SubmittedOK, Exists
    <3>2. CASE e = <<SignerOf[t], rows[t].nonce, t>> BY <1>1, <3>2 DEF Exists
    <3> QED BY <1>1, <3>1, <3>2
  <2> QED BY <1>1, <2>1 DEF SubmittedOK, Exists
<1>5. \A s \in Signers: \A n \in Int: Covered(n, s) => Covered(n, s)'
  <2> TAKE s \in Signers
  <2>1. \A u \in Stored(s): Exists(u)' /\ rows'[u].nonce = rows[u].nonce BY <1>1 DEF Stored, Exists
  <2> QED BY <1>1, <1>2, <2>1, CoveredKept
<1>6. \A u \in Txs: Exists(u)' => rows'[u].nonce \in Int /\ Exists(u) /\ rows'[u].nonce = rows[u].nonce BY <1>0, <1>1 DEF Exists
<1>7. NoNonceGap' BY <1>5, <1>6, GapKept
<1>8. \A s \in Signers: \A n \in Int: AboveStored(n, s) => AboveStored(n, s)' BY <1>1 DEF AboveStored, Stored, Exists
<1>9. \A q \in Requests: InsertOK(q)' BY <1>1, <1>5, <1>8, InsertKept
<1> QED BY <1>3, <1>4, <1>7, <1>9

(***************************************************************************)
(* The theorems                                                            *)
(***************************************************************************)

LEMMA StoreInitially == Init => StoreInv
<1> SUFFICES ASSUME Init PROVE StoreInv OBVIOUS
<1>1. ShapeOK BY InitShape
<1>2. /\ \A t \in Txs: ~Exists(t)
      /\ submitted = {} /\ completions = {} /\ nextSeq = 1 /\ idx = {} /\ reader.after = 0
      /\ \A w \in Workers: wk[w].pc = "collect" /\ wk[w].ops = << >> /\ queue[w] = << >>
      /\ \A s \in Signers: nonceCache[s] = -1
      /\ \A r \in Requests: ins[r].pc = "idle"
  BY DEF Init, StoreInit, WriterInit, LdbInit, Exists, IdleWorker, IdleReader, IdleInsert
<1>3. CompletionsOK BY <1>2 DEF CompletionsOK, CompletionsNotMissed
<1>4. RoutedOK /\ OneAwaited /\ UpdatedExist BY <1>2 DEF RoutedOK, OneAwaited, UpdatedExist
<1>5. NoNonceGap BY <1>2 DEF NoNonceGap
<1>6. \A w \in Workers: ~InFlight(w) BY <1>2 DEF InFlight
<1>7. NoncesOK BY <1>2, <1>6 DEF NoncesOK
<1>8. GapsOK BY <1>2, <1>5, <1>6 DEF GapsOK
<1>9. LdbIndexOK /\ SubmittedOK /\ \A r \in Requests: InsertOK(r) BY <1>2 DEF LdbIndexOK, SubmittedOK, InsertOK
<1> QED BY <1>1, <1>3, <1>4, <1>5, <1>7, <1>8, <1>9 DEF StoreInv, PostgresInv, LevelDBInv

\* The invariant of the Postgres store, in a step that leaves the records and the
\* batches alone or ends all of them.
LEMMA PostgresKept ==
    ASSUME ShapeOK, RoutedOK, OneAwaited, UpdatedExist, NoncesOK, GapsOK, UNCHANGED <<rows, node, submitted, deleted>>,
           \/ UNCHANGED <<queue, wk, busy, nonceCache>>
           \/ /\ \A w \in Workers: wk'[w].ops = << >> /\ wk'[w].pc = "collect" /\ queue'[w] = << >>
              /\ \A s \in Signers: nonceCache'[s] = -1
    PROVE  RoutedOK' /\ OneAwaited' /\ UpdatedExist' /\ NoncesOK' /\ GapsOK'
<1>1. CASE UNCHANGED <<queue, wk, busy, nonceCache>>
  <2>1. \A t \in Txs: Exists(t) => Exists(t)' BY DEF Exists
  <2>2. \A v \in Workers: wk'[v].ops = wk[v].ops BY <1>1
  <2>3. RoutedOK' /\ OneAwaited' /\ UpdatedExist' BY <1>1, <2>1, <2>2, SameOps, SameUpdates
  <2>4. \A v \in Workers: InFlight(v)' =>
              /\ InFlight(v) /\ wk'[v].ops = wk[v].ops /\ wk'[v].conflicts = wk[v].conflicts /\ wk'[v].nonces = wk[v].nonces
              /\ wk'[v].pc = "commit" => InsertsNew(wk[v])
    BY <1>1 DEF InFlight, GapsOK
  <2>5. \A s \in Signers: Reserved(s) /\ nonceCache'[s] # -1 => Reserved(s)' BY <1>1 DEF Reserved, ValidFor, ValidInserts
  <2> QED BY <1>1, <2>3, <2>4, <2>5, NoncesFrame
<1>2. CASE /\ \A w \in Workers: wk'[w].ops = << >> /\ wk'[w].pc = "collect" /\ queue'[w] = << >>
           /\ \A s \in Signers: nonceCache'[s] = -1
  <2>1. RoutedOK' /\ OneAwaited' /\ UpdatedExist' BY <1>2 DEF RoutedOK, OneAwaited, UpdatedExist
  <2>2. \A v \in Workers: ~InFlight(v)' BY <1>2 DEF InFlight
  <2> QED BY <1>2, <2>1, <2>2, NoncesFrame
<1> QED BY <1>1, <1>2

\* ... and that of the LevelDB store.
LEMMA LevelDBKept ==
    ASSUME ShapeOK, LdbIndexOK, SubmittedOK, NoNonceGap, \A q \in Requests: InsertOK(q),
           UNCHANGED <<setup, rows, node, submitted, deleted, idx, lost>>,
           UNCHANGED <<ins, locked>> \/ \A q \in Requests: ins'[q].pc \in {"idle", "done"}
    PROVE  LdbIndexOK' /\ SubmittedOK' /\ NoNonceGap' /\ \A q \in Requests: InsertOK(q)'
<1>1. LdbIndexOK' /\ SubmittedOK' /\ NoNonceGap' BY DEF LdbIndexOK, SubmittedOK, NoNonceGap, Stored, Exists
<1>2. CASE UNCHANGED <<ins, locked>>
  <2>1. \A s \in Signers: \A n \in Int: (AboveStored(n, s) => AboveStored(n, s)') /\ (Covered(n, s) => Covered(n, s)')
    BY DEF AboveStored, Covered, Stored, Exists
  <2> QED BY <1>1, <1>2, <2>1, InsertKept
<1>3. CASE \A q \in Requests: ins'[q].pc \in {"idle", "done"} BY <1>1, <1>3 DEF InsertOK
<1> QED BY <1>2, <1>3

LEMMA CompletionsKept ==
    ASSUME CompletionsOK, UNCHANGED <<completions, nextSeq>>, reader'.after = reader.after, reader'.seen = reader.seen,
           UNCHANGED <<wk, lock>> \/ \A w \in Workers: wk'[w].pc = "collect"
    PROVE  CompletionsOK'
BY CompletionsFrame

\* No step changes the setup.
LEMMA SetupKept ==
    ASSUME NEW x,
           \/ QueueInsert(x) \/ QueueWrite(x) \/ WorkerStep(x) \/ Evict \/ ReaderStep \/ Close \/ StopWorker
           \/ BeginInsert(x) \/ InsertStep(x) \/ DeleteTransaction(x) \/ DeleteIndex \/ ListByNonce \/ ListCleansUp
    PROVE  setup' = setup
<1> USE DEF storeVars
<1>1. CASE QueueInsert(x) BY <1>1 DEF QueueInsert
<1>2. CASE QueueWrite(x) BY <1>2 DEF QueueWrite
<1>3. CASE WorkerStep(x)
  <2>1. CASE Collect(x) BY <2>1 DEF Collect
  <2>2. CASE BatchTimeout(x) BY <2>2 DEF BatchTimeout
  <2>3. CASE Prepare(x) BY <2>3 DEF Prepare
  <2>4. CASE WriteBatch(x) BY <2>4 DEF WriteBatch
  <2>5. CASE Commit(x) BY <2>5 DEF Commit
  <2>6. CASE CommitFails(x) BY <2>6 DEF CommitFails
  <2>7. CASE Notify(x) BY <2>7 DEF Notify
  <2>8. CASE Finish(x) BY <2>8 DEF Finish
  <2> QED BY <1>3, <2>1, <2>2, <2>3, <2>4, <2>5, <2>6, <2>7, <2>8 DEF WorkerStep
<1>4. CASE Evict BY <1>4 DEF Evict
<1>5. CASE ReaderStep BY <1>5 DEF ReaderStep, ReadTime, ListTxCompletions, WaitTxCompletionUpdates
<1>6. CASE Close \/ StopWorker BY <1>6 DEF Close, StopWorker
<1>7. CASE BeginInsert(x) BY <1>7 DEF BeginInsert
<1>8. CASE InsertStep(x)
  <2>1. CASE AssignAndLockNonce(x) BY <2>1 DEF AssignAndLockNonce
  <2>2. CASE CalcNextNonce(x) BY <2>2 DEF CalcNextNonce
  <2>3. CASE CleanupOrphans(x) BY <2>3 DEF CleanupOrphans
  <2>4. CASE CalcNextNonceFromTxs(x) BY <2>4 DEF CalcNextNonceFromTxs
  <2>5. CASE WriteTransaction(x) BY <2>5 DEF WriteTransaction
  <2>6. CASE Complete(x) BY <2>6 DEF Complete
  <2> QED BY <1>8, <2>1, <2>2, <2>3, <2>4, <2>5, <2>6 DEF InsertStep
<1>9. CASE DeleteTransaction(x) \/ DeleteIndex \/ ListByNonce \/ ListCleansUp
  BY <1>9 DEF DeleteTransaction, DeleteIndex, ListByNonce, ListCleansUp
<1> QED BY <1>1, <1>2, <1>3, <1>4, <1>5, <1>6, <1>7, <1>8, <1>9

LEMMA StoreNext == StoreInv /\ [Next]_vars => StoreInv'
<1> SUFFICES ASSUME StoreInv, [Next]_vars PROVE StoreInv' OBVIOUS
<1> USE DEF storeVars
<1>0. ShapeOK /\ CompletionsOK /\ PostgresInv /\ LevelDBInv BY DEF StoreInv
\* A step of the one store and a step of the other.
<1> DEFINE PostgresStep(x) ==
             \/ (x \in Requests /\ QueueInsert(x)) \/ (x \in Txs /\ QueueWrite(x)) \/ (x \in Workers /\ WorkerStep(x))
             \/ Evict \/ ReaderStep \/ Close \/ StopWorker
           LevelDBStep(x) ==
             \/ (x \in Requests /\ BeginInsert(x)) \/ (x \in Requests /\ InsertStep(x)) \/ (x \in Txs /\ DeleteTransaction(x))
             \/ DeleteIndex \/ ListByNonce \/ ListCleansUp
<1>a. ASSUME setup.store = "postgres", UNCHANGED ldbVars, NEW x, PostgresStep(x) PROVE StoreInv'
  <2>0. RoutedOK /\ OneAwaited /\ UpdatedExist /\ NoncesOK /\ GapsOK BY <1>0, <1>a DEF PostgresInv
  <2>1. setup' = setup BY <1>a, SetupKept
  <2>2. ShapeOK'
    <3>1. CASE x \in Workers /\ WorkerStep(x) BY <1>0, <1>a, <2>0, <3>1, WorkerShape
    <3>2. CASE Evict \/ ReaderStep \/ Close \/ StopWorker BY <1>0, <1>a, <3>2, OtherShape
    <3>3. CASE (x \in Requests /\ QueueInsert(x)) \/ (x \in Txs /\ QueueWrite(x)) BY <1>0, <1>a, <3>3, QueueSteps
    <3> QED BY <1>a, <3>1, <3>2, <3>3
  <2>3. CompletionsOK' BY <1>0, <1>a, CompletionsStep
  <2>4. RoutedOK' /\ OneAwaited' /\ UpdatedExist' BY <1>0, <1>a, <2>0, OpsStep
  <2>5. NoncesOK' /\ GapsOK' BY <1>0, <1>a, <2>0, NoncesStep
  <2>6. LevelDBInv' BY <1>a, <2>1 DEF LevelDBInv
  <2> QED BY <2>2, <2>3, <2>4, <2>5, <2>6 DEF StoreInv, PostgresInv
<1>b. ASSUME setup.store = "leveldb", UNCHANGED writerVars, NEW x, LevelDBStep(x) PROVE StoreInv'
  <2>0. LdbIndexOK /\ SubmittedOK /\ NoNonceGap /\ \A q \in Requests: InsertOK(q) BY <1>0, <1>b DEF LevelDBInv
  <2>1. setup' = setup BY <1>b, SetupKept
  <2>2. CASE x \in Requests /\ (BeginInsert(x) \/ InsertStep(x))
    <3>1. ShapeOK' BY <1>0, <1>b, <2>0, <2>2, InsertShape
    <3>2. LdbIndexOK' /\ SubmittedOK' /\ NoNonceGap' /\ \A q \in Requests: InsertOK(q)'
      <4>1. CASE BeginInsert(x) \/ AssignAndLockNonce(x) \/ CalcNextNonceFromTxs(x) \/ Complete(x) BY <1>0, <2>0, <2>2, <4>1, AssignStep
      <4>2. CASE CalcNextNonce(x) \/ CleanupOrphans(x) BY <1>0, <2>0, <2>2, <4>2, ListStep
      <4>3. CASE WriteTransaction(x) BY <1>0, <2>0, <2>2, <4>3, WriteStep
      <4> QED BY <2>2, <4>1, <4>2, <4>3 DEF InsertStep
    <3>3. CompletionsOK' BY <1>0, <1>b, CompletionsKept DEF writerVars, dbVars
    <3>4. PostgresInv' BY <1>b, <2>1 DEF PostgresInv
    <3> QED BY <3>1, <3>2, <3>3, <3>4 DEF StoreInv, LevelDBInv
  <2>3. CASE (x \in Txs /\ DeleteTransaction(x)) \/ DeleteIndex \/ ListByNonce \/ ListCleansUp
    <3>1. ShapeOK' BY <1>0, <1>b, <2>3, DeleteShape
    <3>2. LdbIndexOK' /\ SubmittedOK' /\ NoNonceGap' /\ \A q \in Requests: InsertOK(q)' BY <1>0, <2>0, <2>3, DeleteStep
    <3>3. CompletionsOK' BY <1>0, <1>b, CompletionsKept DEF writerVars, dbVars
    <3>4. PostgresInv' BY <1>b, <2>1 DEF PostgresInv
    <3> QED BY <3>1, <3>2, <3>3, <3>4 DEF StoreInv, LevelDBInv
  <2> QED BY <1>b, <2>2, <2>3
<1> HIDE DEF PostgresStep, LevelDBStep
<1>1. CASE \E r \in Requests: Postgres(QueueInsert(r)) \/ LevelDB(BeginInsert(r)) \/ LevelDB(InsertStep(r))
  <2>1. PICK r \in Requests: Postgres(QueueInsert(r)) \/ LevelDB(BeginInsert(r)) \/ LevelDB(InsertStep(r)) BY <1>1
  <2>2. CASE Postgres(QueueInsert(r))
    <3>1. setup.store = "postgres" /\ UNCHANGED ldbVars /\ PostgresStep(r) BY <2>2 DEF Postgres, PostgresStep
    <3> QED BY <1>a, <3>1
  <2>3. CASE LevelDB(BeginInsert(r)) \/ LevelDB(InsertStep(r))
    <3>1. setup.store = "leveldb" /\ UNCHANGED writerVars /\ LevelDBStep(r) BY <2>3 DEF LevelDB, LevelDBStep
    <3> QED BY <1>b, <3>1
  <2> QED BY <2>1, <2>2, <2>3
<1>2. CASE \E t \in Txs: Postgres(QueueWrite(t)) \/ LevelDB(DeleteTransaction(t))
  <2>1. PICK t \in Txs: Postgres(QueueWrite(t)) \/ LevelDB(DeleteTransaction(t)) BY <1>2
  <2>2. CASE Postgres(QueueWrite(t))
    <3>1. setup.store = "postgres" /\ UNCHANGED ldbVars /\ PostgresStep(t) BY <2>2 DEF Postgres, PostgresStep
    <3> QED BY <1>a, <3>1
  <2>3. CASE LevelDB(DeleteTransaction(t))
    <3>1. setup.store = "leveldb" /\ UNCHANGED writerVars /\ LevelDBStep(t) BY <2>3 DEF LevelDB, LevelDBStep
    <3> QED BY <1>b, <3>1
  <2> QED BY <2>1, <2>2, <2>3
<1>3. CASE \E w \in Workers: Postgres(WorkerStep(w))
  <2>1. PICK w \in Workers: Postgres(WorkerStep(w)) BY <1>3
  <2>2. setup.store = "postgres" /\ UNCHANGED ldbVars /\ PostgresStep(w) BY <2>1 DEF Postgres, PostgresStep
  <2> QED BY <1>a, <2>2
<1>4. CASE Postgres(Evict) \/ Postgres(ReaderStep) \/ Postgres(Close) \/ Postgres(StopWorker)
  <2>1. setup.store = "postgres" /\ UNCHANGED ldbVars /\ PostgresStep(0) BY <1>4 DEF Postgres, PostgresStep
  <2> QED BY <1>a, <2>1
<1>5. CASE LevelDB(DeleteIndex) \/ LevelDB(ListByNonce) \/ LevelDB(ListCleansUp)
  <2>1. setup.store = "leveldb" /\ UNCHANGED writerVars /\ LevelDBStep(0) BY <1>5 DEF LevelDB, LevelDBStep
  <2> QED BY <1>b, <2>1
<1>6. CASE Crash
  <2>1. /\ ShapeOK' /\ UNCHANGED <<setup, rows, node, submitted, deleted, completions, nextSeq, idx, lost>>
        /\ \A w \in Workers: wk'[w].ops = << >> /\ wk'[w].pc = "collect" /\ queue'[w] = << >>
        /\ \A s \in Signers: nonceCache'[s] = -1
        /\ \A r \in Requests: ins'[r].pc \in {"idle", "done"}
        /\ reader'.after = reader.after /\ reader'.seen = reader.seen
    BY <1>0, <1>6, CrashShape
  <2>2. CompletionsOK' BY <1>0, <2>1, CompletionsKept
  <2>3. PostgresInv'
    <3> SUFFICES ASSUME setup.store = "postgres" PROVE RoutedOK' /\ OneAwaited' /\ UpdatedExist' /\ NoncesOK' /\ GapsOK'
      BY <2>1 DEF PostgresInv
    <3> QED BY <1>0, <2>1, PostgresKept DEF PostgresInv
  <2>4. LevelDBInv'
    <3> SUFFICES ASSUME setup.store = "leveldb" PROVE LdbIndexOK' /\ SubmittedOK' /\ NoNonceGap' /\ \A q \in Requests: InsertOK(q)'
      BY <2>1 DEF LevelDBInv
    <3> QED BY <1>0, <2>1, LevelDBKept DEF LevelDBInv
  <2> QED BY <2>1, <2>2, <2>3, <2>4 DEF StoreInv
<1>7. CASE \E t \in Txs: Submit(t) /\ UNCHANGED <<writerVars, ldbVars>>
  <2>1. PICK t \in Txs: Submit(t) /\ UNCHANGED <<writerVars, ldbVars>> BY <1>7
  <2>2. ShapeOK' /\ setup' = setup BY <1>0, <2>1, SubmitShape DEF Submit
  <2>3. CompletionsOK' BY <1>0, <2>1, CompletionsKept DEF writerVars, dbVars
  <2>4. PostgresInv'
    <3> SUFFICES ASSUME setup.store = "postgres" PROVE RoutedOK' /\ OneAwaited' /\ UpdatedExist' /\ NoncesOK' /\ GapsOK'
      BY <2>2 DEF PostgresInv
    <3>0. RoutedOK /\ OneAwaited /\ UpdatedExist /\ NoncesOK /\ GapsOK BY <1>0 DEF PostgresInv
    <3>1. NoncesOK' /\ GapsOK' BY <1>0, <2>1, <3>0, SubmitNonces
    <3>2. UNCHANGED <<queue, busy>> /\ \A v \in Workers: wk'[v].ops = wk[v].ops BY <2>1 DEF writerVars
    <3>3. \A u \in Txs: Exists(u) => Exists(u)' BY <2>1 DEF Submit, Exists
    <3> QED BY <1>0, <3>0, <3>1, <3>2, <3>3, SameOps, SameUpdates
  <2>5. LevelDBInv'
    <3> SUFFICES ASSUME setup.store = "leveldb" PROVE LdbIndexOK' /\ SubmittedOK' /\ NoNonceGap' /\ \A q \in Requests: InsertOK(q)'
      BY <2>2 DEF LevelDBInv
    <3> QED BY <1>0, <2>1, SubmitStep DEF LevelDBInv
  <2> QED BY <2>2, <2>3, <2>4, <2>5 DEF StoreInv
<1>8. CASE UNCHANGED vars
  <2>1. UNCHANGED <<setup, rows, out, node, submitted, deleted, bounds, queue, wk, busy, nonceCache, completions, nextSeq, lock, reader,
                    idx, lost, ins, locked, mux, metaCache>>
    BY <1>8 DEF vars, writerVars, cacheVars, dbVars, ldbVars
  <2>2. ShapeOK'
    <3>1. CommonOK' BY <1>0, <2>1 DEF ShapeOK, CommonOK, Size
    <3>2. RowsOK' BY <1>0, <2>1 DEF ShapeOK, RowsOK, Stored, Exists
    <3>3. BatchesOK' BY <1>0, <2>1 DEF ShapeOK, BatchesOK, InFlight
    <3>4. TablesOK' BY <1>0, <2>1 DEF ShapeOK, TablesOK
    <3>5. LdbOK' BY <1>0, <2>1 DEF ShapeOK, LdbOK, Size
    <3> QED BY <3>1, <3>2, <3>3, <3>4, <3>5 DEF ShapeOK
  <2>3. CompletionsOK' BY <1>0, <2>1, CompletionsKept
  <2>4. PostgresInv' BY <1>0, <2>1, PostgresKept DEF PostgresInv
  <2>5. LevelDBInv' BY <1>0, <2>1, LevelDBKept DEF LevelDBInv
  <2> QED BY <2>2, <2>3, <2>4, <2>5 DEF StoreInv
<1> QED BY <1>1, <1>2, <1>3, <1>4, <1>5, <1>6, <1>7, <1>8 DEF Next

LEMMA StoreAlways == Spec => []StoreInv
BY StoreInitially, StoreNext, PTL DEF Spec

\* The work queues and batches never exceed their size, a nonce is a number, and
\* the lock, the caches and the nonce locks have one holder each or none: for both
\* stores.
THEOREM TypeCorrect == Spec => []PersistenceTypeOK
<1>1. StoreInv => PersistenceTypeOK
  <2> SUFFICES ASSUME StoreInv PROVE PersistenceTypeOK OBVIOUS
  <2>1. CommonOK /\ RowsOK /\ BatchesOK /\ TablesOK /\ LdbOK BY DEF StoreInv, ShapeOK
  <2>2. \A r \in Requests: \A i \in 1..Size(r): out[r][i] \in Outcomes BY <2>1 DEF CommonOK
  <2>3. StoreTypeOK BY <2>1, <2>2 DEF StoreTypeOK, CommonOK, RowsOK, Outcomes
  <2>4. \A w \in Workers: Len(queue[w]) <= BatchMaxSize /\ Len(wk[w].ops) <= BatchMaxSize BY <2>1 DEF BatchesOK
  <2> QED BY <2>1, <2>3, <2>4 DEF PersistenceTypeOK, TablesOK, LdbOK
<1> QED BY <1>1, StoreAlways, PTL

\* assignNonces and assignAndLockNonce: no two transactions of a signer share a
\* nonce, and none is given out that the node has taken.
THEOREM NoncesCorrect == Spec => []NonceUnique
<1>1. StoreInv => NonceUnique
  <2> SUFFICES ASSUME StoreInv, NEW t \in Txs, Exists(t)
               PROVE  /\ (setup.store = "leveldb" /\ <<SignerOf[t], rows[t].nonce>> \in lost)
                           \/ \A u \in Stored(SignerOf[t]): rows[u].nonce = rows[t].nonce => u = t
                      /\ \/ setup.store = "leveldb" /\ <<SignerOf[t], rows[t].nonce>> \in lost \cup deleted
                         \/ \A e \in submitted: e[1] = SignerOf[t] /\ e[2] = rows[t].nonce => e[3] = t
    BY DEF NonceUnique
  <2>0. setup.store \in {"postgres", "leveldb"} BY SetupsAssumption DEF StoreInv, ShapeOK, CommonOK
  <2>1. CASE setup.store = "postgres"
    <3>1. NoncesOK BY <2>1 DEF StoreInv, PostgresInv
    <3> QED BY <3>1 DEF NoncesOK, Stored
  <2>2. CASE setup.store = "leveldb"
    <3>1. LdbIndexOK /\ SubmittedOK BY <2>2 DEF StoreInv, LevelDBInv
    <3> SUFFICES ASSUME <<SignerOf[t], rows[t].nonce>> \notin lost
                 PROVE  /\ \A u \in Stored(SignerOf[t]): rows[u].nonce = rows[t].nonce => u = t
                        /\ <<SignerOf[t], rows[t].nonce>> \notin deleted =>
                             \A e \in submitted: e[1] = SignerOf[t] /\ e[2] = rows[t].nonce => e[3] = t
      BY <2>2
    <3>2. ASSUME NEW u \in Stored(SignerOf[t]), rows[u].nonce = rows[t].nonce PROVE u = t
      <4>1. u \in Txs /\ Exists(u) /\ SignerOf[u] = SignerOf[t] BY DEF Stored
      <4>2. <<SignerOf[t], rows[t].nonce, t>> \in idx /\ <<SignerOf[t], rows[t].nonce, u>> \in idx BY <3>1, <3>2, <4>1 DEF LdbIndexOK
      <4> DEFINE e == <<SignerOf[t], rows[t].nonce, t>>
                 f == <<SignerOf[t], rows[t].nonce, u>>
      <4>3. e[1] = f[1] /\ e[2] = f[2] /\ e[3] = t /\ f[3] = u OBVIOUS
      <4>4. e \in idx /\ f \in idx BY <4>2
      <4> HIDE DEF e, f
      <4> QED BY <3>1, <4>3, <4>4 DEF LdbIndexOK
    <3>3. ASSUME NEW e \in submitted, e[1] = SignerOf[t], e[2] = rows[t].nonce, <<SignerOf[t], rows[t].nonce>> \notin deleted PROVE e[3] = t
      <4>1. e[3] \in Txs BY DEF StoreInv, ShapeOK, CommonOK
      <4>2. Exists(e[3]) /\ SignerOf[e[3]] = SignerOf[t] /\ rows[e[3]].nonce = rows[t].nonce BY <3>1, <3>3 DEF SubmittedOK
      <4>3. e[3] \in Stored(SignerOf[t]) BY <4>1, <4>2 DEF Stored
      <4> QED BY <3>2, <4>2, <4>3
    <3> QED BY <3>2, <3>3
  <2> QED BY <2>0, <2>1, <2>2
<1> QED BY <1>1, StoreAlways, PTL

\* No stored transaction waits for a nonce that was never given out: what the
\* failed batches had reserved is given out again.
THEOREM GapsCorrect == Spec => []NoNonceGap
<1>1. StoreInv => NoNonceGap
  <2> SUFFICES ASSUME StoreInv PROVE NoNonceGap OBVIOUS
  <2>1. setup.store \in {"postgres", "leveldb"} BY SetupsAssumption DEF StoreInv, ShapeOK, CommonOK
  <2> QED BY <2>1 DEF StoreInv, PostgresInv, LevelDBInv, GapsOK
<1> QED BY <1>1, StoreAlways, PTL

\* writeTransactionCompletions: a reader in the order of the sequence misses none.
THEOREM CompletionsCorrect == Spec => []CompletionsNotMissed
<1>1. StoreInv => CompletionsNotMissed BY DEF StoreInv, CompletionsOK
<1> QED BY <1>1, StoreAlways, PTL

(***************************************************************************)
(* What the requests are told                                              *)
(***************************************************************************)

\* The places of the requests: which transaction each asks for, and its answer.
Places == {p \in Requests \X Nat: p[2] \in 1..Size(p[1])}
TxOf(p) == TxAt(p[1], p[2])
Outcome(p) == out[p[1]][p[2]]

\* Every insert that is queued or in a batch is for a place of its own, which has
\* no answer yet.
Inserts(w) == {i \in DOMAIN queue[w]: queue[w][i].kind = "insert"}
ToAnswer(op) == op.arg \in Places /\ TxOf(op.arg) = op.tx /\ Outcome(op.arg) \in {"waiting", "late"}
PlacesFor(w) ==
    /\ wk[w].pc \in {"collect", "prepare", "done"} => wk[w].conflicts = {}
    /\ \A i \in Inserts(w): ToAnswer(queue[w][i])
    /\ \A i \in ValidInserts(wk[w]): ToAnswer(wk[w].ops[i])
    /\ \A i, j \in Inserts(w): queue[w][i].arg = queue[w][j].arg => i = j
    /\ \A i, j \in ValidInserts(wk[w]): wk[w].ops[i].arg = wk[w].ops[j].arg => i = j
    /\ \A i \in Inserts(w), j \in ValidInserts(wk[w]): queue[w][i].arg # wk[w].ops[j].arg
PlacesOK == \A w \in Workers: PlacesFor(w)

\* A place whose insert may still fail, and one whose insert is committed.
Committing(w) == wk[w].pc \in {"notify", "reply"}
InBatch(w, p) == \E i \in ValidInserts(wk[w]): wk[w].ops[i].arg = p
InQueue(w, p) == \E i \in Inserts(w): queue[w][i].arg = p
Undecided(p) == \E w \in Workers: InQueue(w, p) \/ (~Committing(w) /\ InBatch(w, p))
Inserted(p) == Outcome(p) = "ok" \/ \E w \in Workers: Committing(w) /\ InBatch(w, p)
Vouches(p) == Outcome(p) \in {"ok", "waiting", "late", "lost"} /\ ~Undecided(p)

WriterReplies ==
    /\ PlacesOK
    /\ \A t \in Txs: Exists(t) => \E p \in Places: TxOf(p) = t /\ Vouches(p)
    /\ deleted = {} =>
         \A p \in Places: Inserted(p) => Exists(TxOf(p)) /\ \A q \in Places: Inserted(q) /\ TxOf(q) = TxOf(p) => q = p

\* In LevelDB a request waits for its transaction and those after it.
RequestOK(r) ==
    /\ ins[r].pc = "idle" => \A i \in 1..Size(r): out[r][i] = "idle"
    /\ ins[r].pc \in {"assign", "list", "clean", "nonce", "write"} => \A i \in 1..Size(r): ins[r].i <= i => out[r][i] = "waiting"
    /\ ins[r].pc = "complete" => \A i \in 1..Size(r): ins[r].i < i => out[r][i] = "waiting"
LdbReplies ==
    /\ \A r \in Requests: RequestOK(r)
    /\ \A t \in Txs: Exists(t) => \E p \in Places: TxOf(p) = t /\ Outcome(p) = "ok"
    /\ deleted = {} =>
         \A p \in Places: Outcome(p) = "ok" =>
            Exists(TxOf(p)) /\ \A q \in Places: Outcome(q) = "ok" /\ TxOf(q) = TxOf(p) => q = p

RepliesInv == (setup.store = "postgres" => WriterReplies) /\ (setup.store = "leveldb" => LdbReplies)

LEMMA PlaceOf ==
    ASSUME setup \in Setups
    PROVE  /\ \A p \in Places: p = <<p[1], p[2]>> /\ p[1] \in Requests /\ p[2] \in 1..Size(p[1]) /\ TxOf(p) \in Txs
           /\ \A r \in Requests: \A i \in 1..Size(r): <<r, i>> \in Places /\ TxOf(<<r, i>>) = TxAt(r, i) /\ Outcome(<<r, i>>) = out[r][i]
           /\ setup' = setup => Places' = Places /\ \A p: TxOf(p)' = TxOf(p)
<1>1. \A r \in Requests: Size(r) \in Nat /\ \A i \in 1..Size(r): TxAt(r, i) \in Txs BY SetupOK
<1>2. \A p \in Places: p = <<p[1], p[2]>> /\ p[1] \in Requests /\ p[2] \in 1..Size(p[1]) /\ TxOf(p) \in Txs
  BY <1>1 DEF Places, TxOf
<1>3. \A r \in Requests: \A i \in 1..Size(r): <<r, i>> \in Places /\ TxOf(<<r, i>>) = TxAt(r, i) /\ Outcome(<<r, i>>) = out[r][i]
  <2> SUFFICES ASSUME NEW r \in Requests, NEW i \in 1..Size(r)
               PROVE  <<r, i>> \in Places /\ TxOf(<<r, i>>) = TxAt(r, i) /\ Outcome(<<r, i>>) = out[r][i]
    OBVIOUS
  <2>1. <<r, i>>[1] = r /\ <<r, i>>[2] = i /\ i \in Nat /\ <<r, i>> \in Requests \X Nat BY <1>1
  <2> QED BY <2>1 DEF Places, TxOf, Outcome
<1>4. setup' = setup => Places' = Places /\ \A p: TxOf(p)' = TxOf(p) BY DEF Places, TxOf, TxAt, Size
<1> QED BY <1>2, <1>3, <1>4

\* An insert is with the worker of its signer.
LEMMA PlaceWorker ==
    ASSUME ShapeOK, RoutedOK, PlacesOK, NEW w \in Workers, NEW p, InQueue(w, p) \/ InBatch(w, p)
    PROVE  w = WorkerOf[SignerOf[TxOf(p)]] /\ p \in Places /\ Outcome(p) \in {"waiting", "late"}
<1>1. CASE InQueue(w, p)
  <2>1. PICK i \in Inserts(w): queue[w][i].arg = p BY <1>1 DEF InQueue
  <2>2. i \in DOMAIN queue[w] /\ queue[w][i].kind = "insert" /\ ToAnswer(queue[w][i]) BY <2>1 DEF Inserts, PlacesOK, PlacesFor
  <2>3. Routine(queue[w][i]) = w BY <2>2 DEF RoutedOK
  <2> QED BY <2>1, <2>2, <2>3 DEF Routine, ToAnswer
<1>2. CASE InBatch(w, p)
  <2>1. PICK i \in ValidInserts(wk[w]): wk[w].ops[i].arg = p BY <1>2 DEF InBatch
  <2>2. i \in DOMAIN wk[w].ops /\ wk[w].ops[i].kind = "insert" /\ ToAnswer(wk[w].ops[i]) BY <2>1 DEF ValidInserts, PlacesOK, PlacesFor
  <2>3. Routine(wk[w].ops[i]) = w BY <2>2 DEF RoutedOK
  <2> QED BY <2>1, <2>2, <2>3 DEF Routine, ToAnswer
<1> QED BY <1>1, <1>2

\* A place is in one batch or queue.
LEMMA PlaceOnce ==
    ASSUME ShapeOK, RoutedOK, PlacesOK, NEW w \in Workers, NEW p, InBatch(w, p), NEW v \in Workers
    PROVE  ~InQueue(v, p) /\ (InBatch(v, p) => v = w)
<1>1. InQueue(v, p) \/ InBatch(v, p) => v = w BY PlaceWorker
<1>2. ~InQueue(w, p) BY DEF PlacesOK, PlacesFor, InQueue, InBatch
<1> QED BY <1>1, <1>2

\* As long as no record comes or goes, it is enough that nothing new is inserted
\* and that those who vouch for a record go on doing so.
LEMMA RepliesKept ==
    ASSUME ShapeOK, WriterReplies, UNCHANGED <<setup, deleted>>, \A t \in Txs: Exists(t)' <=> Exists(t), PlacesOK',
           \A p \in Places: (Vouches(p) => Vouches(p)') /\ (Inserted(p)' => Inserted(p))
    PROVE  WriterReplies'
<1>0. /\ \A p \in Places: TxOf(p) \in Txs
      /\ Places' = Places /\ \A p: TxOf(p)' = TxOf(p)
  BY PlaceOf DEF ShapeOK, CommonOK
<1>1. ASSUME NEW t \in Txs, Exists(t)' PROVE \E p \in Places': TxOf(p)' = t /\ Vouches(p)'
  BY <1>0, <1>1 DEF WriterReplies
<1>2. ASSUME deleted' = {}, NEW p \in Places, Inserted(p)'
      PROVE  Exists(TxOf(p))' /\ \A q \in Places: Inserted(q)' /\ TxOf(q)' = TxOf(p)' => q = p
  <2>1. Inserted(p) /\ deleted = {} BY <1>2
  <2>2. Exists(TxOf(p)) /\ \A q \in Places: Inserted(q) /\ TxOf(q) = TxOf(p) => q = p BY <2>1 DEF WriterReplies
  <2>3. Exists(TxOf(p))'
    <3>1. PICK t \in Txs: t = TxOf(p) BY <1>0
    <3>2. Exists(t)' BY <2>2, <3>1
    <3> QED BY <1>0, <3>1, <3>2 DEF Exists
  <2> QED BY <1>0, <2>2, <2>3
<1> QED BY <1>0, <1>1, <1>2 DEF WriterReplies

\* Nothing changes in queues and batches but how far they have come.
LEMMA SameReplies ==
    ASSUME ShapeOK, WriterReplies, UNCHANGED <<setup, out, queue, deleted>>, \A t \in Txs: Exists(t)' <=> Exists(t),
           \A v \in Workers: /\ wk'[v].ops = wk[v].ops /\ wk'[v].conflicts = wk[v].conflicts
                             /\ Committing(v)' <=> Committing(v)
                             /\ wk'[v].pc \in {"collect", "prepare", "done"} => wk[v].pc \in {"collect", "prepare", "done"}
    PROVE  WriterReplies'
<1>0. Places' = Places /\ \A p: TxOf(p)' = TxOf(p) BY PlaceOf DEF ShapeOK, CommonOK
<1>1. \A v \in Workers: ValidInserts(wk[v])' = ValidInserts(wk[v]) /\ Inserts(v)' = Inserts(v) BY DEF ValidInserts, Inserts
<1>2. \A p: Outcome(p)' = Outcome(p) BY DEF Outcome
<1>3. \A v \in Workers: \A p: (InBatch(v, p)' <=> InBatch(v, p)) /\ (InQueue(v, p)' <=> InQueue(v, p))
  BY <1>1 DEF InBatch, InQueue
<1>4. \A p: (Vouches(p)' <=> Vouches(p)) /\ (Inserted(p)' <=> Inserted(p)) BY <1>2, <1>3 DEF Vouches, Inserted, Undecided
<1>5. \A op: ToAnswer(op) => ToAnswer(op)' BY <1>0, <1>2 DEF ToAnswer
<1>6. PlacesOK'
  <2> SUFFICES ASSUME NEW v \in Workers PROVE PlacesFor(v)' BY DEF PlacesOK
  <2>1. PlacesFor(v) BY DEF PlacesOK, WriterReplies
  <2>2. /\ \A i \in Inserts(v): ToAnswer(queue[v][i])'
        /\ \A i \in ValidInserts(wk[v]): ToAnswer(wk[v].ops[i])'
    BY <1>5, <2>1 DEF PlacesFor
  <2> QED BY <1>1, <2>1, <2>2 DEF PlacesFor
<1> QED BY <1>4, <1>6, RepliesKept

\* Where the operations of a queue come from when it takes one more.
LEMMA QueueMoves ==
    ASSUME ShapeOK, NEW w \in Workers, NEW op \in Operation \cup {Shutdown}, queue' = [queue EXCEPT ![w] = Append(@, op)]
    PROVE  \A v \in Workers: \A i \in DOMAIN queue'[v]:
              \/ i \in DOMAIN queue[v] /\ queue'[v][i] = queue[v][i]
              \/ v = w /\ i = Len(queue[w]) + 1 /\ i \notin DOMAIN queue[v] /\ queue'[v][i] = op
<1> DEFINE n == Len(queue[w])
<1>0. queue \in [Workers -> Seq(Operation \cup {Shutdown})] BY DEF ShapeOK, BatchesOK
<1>1. queue[w] \in Seq(Operation \cup {Shutdown}) /\ n \in Nat /\ DOMAIN queue[w] = 1..n BY OpsTyped
<1>2. queue'[w] = Append(queue[w], op) /\ \A v \in Workers \ {w}: queue'[v] = queue[v] BY <1>0
<1>3. /\ DOMAIN queue'[w] = 1..(n + 1) /\ \A i \in 1..n: queue'[w][i] = queue[w][i]
      /\ queue'[w][n + 1] = op
  BY <1>1, <1>2
<1> HIDE DEF n
<1>4. ASSUME NEW v \in Workers, NEW i \in DOMAIN queue'[v]
      PROVE  (i \in DOMAIN queue[v] /\ queue'[v][i] = queue[v][i]) \/ (v = w /\ i = n + 1 /\ i \notin DOMAIN queue[v] /\ queue'[v][i] = op)
  <2>1. CASE v # w BY <1>2, <1>4, <2>1
  <2>2. CASE v = w BY <1>1, <1>3, <1>4, <2>2
  <2> QED BY <2>1, <2>2
<1> QED BY <1>4 DEF n

\* A queue takes an operation; an insert starts to wait.
LEMMA QueueReplies ==
    ASSUME ShapeOK, WriterReplies, NEW w \in Workers, NEW op \in Operation \cup {Shutdown},
           queue' = [queue EXCEPT ![w] = Append(@, op)], UNCHANGED <<setup, wk, rows, deleted>>,
           \/ op.kind # "insert" /\ UNCHANGED out
           \/ /\ op.kind = "insert" /\ op.arg \in Places /\ TxOf(op.arg) = op.tx /\ Outcome(op.arg) = "idle"
              /\ Outcome(op.arg)' \in {"waiting", "late"} /\ \A p \in Places: p # op.arg => Outcome(p)' = Outcome(p)
    PROVE  WriterReplies'
<1> DEFINE n == Len(queue[w]) + 1
<1>0. Places' = Places /\ \A p: TxOf(p)' = TxOf(p) BY PlaceOf DEF ShapeOK, CommonOK
<1>1. ASSUME NEW v \in Workers, NEW i \in Inserts(v)'
      PROVE  \/ i \in Inserts(v) /\ queue'[v][i] = queue[v][i]
             \/ v = w /\ i = n /\ i \notin DOMAIN queue[v] /\ queue'[v][i] = op /\ op.kind = "insert"
  BY <1>1, QueueMoves DEF Inserts
<1> HIDE DEF n
<1>2. \A p \in Places: Outcome(p) \in {"waiting", "late"} => Outcome(p)' = Outcome(p) /\ (op.kind = "insert" => p # op.arg)
  BY DEF Outcome
<1>3. \A v \in Workers: ValidInserts(wk[v])' = ValidInserts(wk[v]) BY DEF ValidInserts
<1>4. \A o: ToAnswer(o) => ToAnswer(o)' /\ (op.kind = "insert" => o.arg # op.arg) BY <1>0, <1>2 DEF ToAnswer
<1>5. op.kind = "insert" => ToAnswer(op)' BY <1>0 DEF ToAnswer
<1>6. PlacesOK'
  <2> SUFFICES ASSUME NEW v \in Workers PROVE PlacesFor(v)' BY DEF PlacesOK
  <2>1. PlacesFor(v) BY DEF PlacesOK, WriterReplies
  <2>2. ASSUME NEW i \in Inserts(v)' PROVE ToAnswer(queue[v][i])'
    <3>1. PICK o: o = queue'[v][i] /\ (ToAnswer(o) \/ (o = op /\ op.kind = "insert")) BY <1>1, <2>1, <2>2 DEF PlacesFor
    <3>2. ToAnswer(o)' BY <1>4, <1>5, <3>1
    <3> QED BY <3>1, <3>2
  <2>3. ASSUME NEW i \in ValidInserts(wk[v]) PROVE ToAnswer(wk[v].ops[i])'
    <3>1. PICK o: o = wk[v].ops[i] /\ ToAnswer(o) BY <2>1, <2>3 DEF PlacesFor
    <3>2. ToAnswer(o)' BY <1>4, <3>1
    <3> QED BY <3>1, <3>2
  <2>4. ASSUME NEW i \in Inserts(v)', NEW j \in Inserts(v)', queue'[v][i].arg = queue'[v][j].arg PROVE i = j
    <3>1. CASE i \in Inserts(v) /\ queue'[v][i] = queue[v][i] BY <1>1, <1>4, <2>1, <2>4, <3>1 DEF PlacesFor
    <3>2. CASE i = n /\ queue'[v][i] = op /\ op.kind = "insert" BY <1>1, <1>4, <2>1, <2>4, <3>2 DEF PlacesFor
    <3> QED BY <1>1, <2>4, <3>1, <3>2
  <2>5. ASSUME NEW i \in Inserts(v)', NEW j \in ValidInserts(wk[v]) PROVE queue'[v][i].arg # wk[v].ops[j].arg
    <3>1. ToAnswer(wk[v].ops[j]) BY <2>1, <2>5 DEF PlacesFor
    <3>2. CASE i \in Inserts(v) /\ queue'[v][i] = queue[v][i] BY <2>1, <2>5, <3>2 DEF PlacesFor
    <3>3. CASE queue'[v][i] = op /\ op.kind = "insert" BY <1>4, <3>1, <3>3
    <3> QED BY <1>1, <2>5, <3>2, <3>3
  <2>6. wk' = wk OBVIOUS
  <2>a. (wk[v].pc \in {"collect", "prepare", "done"} => wk[v].conflicts = {})' BY <2>1, <2>6 DEF PlacesFor
  <2>b. (\A i \in Inserts(v): ToAnswer(queue[v][i]))' BY <2>2
  <2>c. (\A i \in ValidInserts(wk[v]): ToAnswer(wk[v].ops[i]))' BY <1>3, <2>3
  <2>d. (\A i, j \in Inserts(v): queue[v][i].arg = queue[v][j].arg => i = j)' BY <2>4
  <2>e. (\A i, j \in ValidInserts(wk[v]): wk[v].ops[i].arg = wk[v].ops[j].arg => i = j)' BY <1>3, <2>1, <2>6 DEF PlacesFor
  <2>f. (\A i \in Inserts(v), j \in ValidInserts(wk[v]): queue[v][i].arg # wk[v].ops[j].arg)' BY <1>3, <2>5, <2>6
  <2> QED BY <2>a, <2>b, <2>c, <2>d, <2>e, <2>f DEF PlacesFor
<1>7. ASSUME NEW p \in Places PROVE (Vouches(p) => Vouches(p)') /\ (Inserted(p)' => Inserted(p))
  <2>1. \A v \in Workers: InBatch(v, p)' <=> InBatch(v, p) BY <1>3 DEF InBatch
  <2>2. \A v \in Workers: InQueue(v, p)' => InQueue(v, p) \/ (op.kind = "insert" /\ p = op.arg) BY <1>1 DEF InQueue
  <2>3. p = op.arg /\ op.kind = "insert" => ~Vouches(p) /\ Outcome(p)' # "ok" BY DEF Vouches
  <2>4. Outcome(p)' = Outcome(p) \/ (op.kind = "insert" /\ p = op.arg) BY DEF Outcome
  <2>5. \A v \in Workers: Committing(v)' <=> Committing(v) BY DEF Committing
  <2>6. Vouches(p) => Vouches(p)'
    <3> SUFFICES ASSUME Vouches(p) PROVE Vouches(p)' OBVIOUS
    <3>1. ~(op.kind = "insert" /\ p = op.arg) BY <2>3
    <3> QED BY <2>1, <2>2, <2>4, <2>5, <3>1 DEF Vouches, Undecided
  <2>7. Inserted(p)' => Inserted(p) BY <2>1, <2>3, <2>4, <2>5 DEF Inserted
  <2> QED BY <2>6, <2>7
<1>8. \A t \in Txs: Exists(t)' <=> Exists(t) BY DEF Exists
<1> QED BY <1>6, <1>7, <1>8, RepliesKept

\* Where the operations come from when a worker collects one.
LEMMA CollectMoves ==
    ASSUME ShapeOK, NEW w \in Workers, Collect(w)
    PROVE  /\ 1 \in DOMAIN queue[w] /\ UNCHANGED <<storeVars, busy>>
           /\ \A v \in Workers: \A i \in DOMAIN queue'[v]:
                IF v = w THEN i + 1 \in DOMAIN queue[v] /\ i + 1 # 1 /\ queue'[v][i] = queue[v][i + 1] /\ i \in Int
                         ELSE i \in DOMAIN queue[v] /\ queue'[v][i] = queue[v][i]
           /\ \A v \in Workers: \A i \in DOMAIN wk'[v].ops:
                \/ i \in DOMAIN wk[v].ops /\ wk'[v].ops[i] = wk[v].ops[i]
                \/ /\ v = w /\ i = Len(wk[w].ops) + 1 /\ i \notin DOMAIN wk[v].ops
                   /\ wk'[v].ops[i] = queue[w][1] /\ queue[w][1].kind # "shutdown"
<1> DEFINE n == Len(wk[w].ops)
           op == queue[w][1]
<1>0. /\ DOMAIN queue[w] = 1..Len(queue[w]) /\ Len(queue[w]) \in Nat \ {0} /\ queue' = [queue EXCEPT ![w] = Tail(@)]
      /\ wk'[w].ops = IF op.kind = "shutdown" THEN wk[w].ops ELSE Append(wk[w].ops, op)
      /\ op.kind # "shutdown" => op \in Operation
      /\ \A v \in Workers \ {w}: wk'[v] = wk[v] /\ queue'[v] = queue[v]
  BY CollectType DEF ShapeOK
<1>1. wk[w].ops \in Seq(Operation) /\ n \in Nat /\ DOMAIN wk[w].ops = 1..n /\ queue[w] \in Seq(Operation \cup {Shutdown}) BY OpsTyped
<1>2. queue'[w] = Tail(queue[w]) /\ queue[w] # << >>
  <2>1. queue \in [Workers -> Seq(Operation \cup {Shutdown})] BY DEF ShapeOK, BatchesOK
  <2> QED BY <1>0, <2>1 DEF Collect
<1>3. UNCHANGED <<storeVars, busy>> BY DEF Collect
<1>4. ASSUME NEW v \in Workers, NEW i \in DOMAIN queue'[v]
      PROVE  IF v = w THEN i + 1 \in DOMAIN queue[v] /\ i + 1 # 1 /\ queue'[v][i] = queue[v][i + 1] /\ i \in Int
                      ELSE i \in DOMAIN queue[v] /\ queue'[v][i] = queue[v][i]
  <2>1. CASE v # w BY <1>0, <1>4, <2>1
  <2>2. CASE v = w
    <3>1. DOMAIN Tail(queue[w]) = 1..(Len(queue[w]) - 1) /\ \A k \in 1..(Len(queue[w]) - 1): Tail(queue[w])[k] = queue[w][k + 1]
      BY <1>1, <1>2
    <3>2. i \in 1..(Len(queue[w]) - 1) /\ queue'[w][i] = queue[w][i + 1] BY <1>2, <1>4, <2>2, <3>1
    <3>3. i + 1 \in 1..Len(queue[w]) /\ i + 1 # 1 /\ i \in Int BY <1>0, <3>2
    <3> QED BY <1>0, <2>2, <3>2, <3>3
  <2> QED BY <2>1, <2>2
<1>5. ASSUME NEW v \in Workers, NEW i \in DOMAIN wk'[v].ops
      PROVE  \/ i \in DOMAIN wk[v].ops /\ wk'[v].ops[i] = wk[v].ops[i]
             \/ v = w /\ i = n + 1 /\ i \notin DOMAIN wk[v].ops /\ wk'[v].ops[i] = op /\ op.kind # "shutdown"
  <2>1. CASE v # w BY <1>0, <1>5, <2>1
  <2>2. CASE v = w /\ op.kind = "shutdown" BY <1>0, <1>5, <2>2
  <2>3. CASE v = w /\ op.kind # "shutdown"
    <3>1. wk'[w].ops = Append(wk[w].ops, op) /\ op \in Operation BY <1>0, <2>3
    <3> HIDE DEF op
    <3>2. DOMAIN wk'[w].ops = 1..(n + 1) /\ (\A k \in 1..n: wk'[w].ops[k] = wk[w].ops[k]) /\ wk'[w].ops[n + 1] = op
      BY <1>1, <3>1
    <3> QED BY <1>1, <1>5, <2>3, <3>2
  <2> QED BY <2>1, <2>2, <2>3
<1>6. 1 \in DOMAIN queue[w] BY <1>0
<1> HIDE DEF n, op
<1> QED BY <1>3, <1>4, <1>5, <1>6 DEF n, op

\* Queues and batches only lose inserts, and those that remain are not answered.
LEMMA PlacesStay ==
    ASSUME ShapeOK, PlacesOK, UNCHANGED setup,
           \A v \in Workers: /\ \A i \in Inserts(v)': i \in Inserts(v) /\ queue'[v][i] = queue[v][i]
                             /\ \A i \in ValidInserts(wk[v])': i \in ValidInserts(wk[v]) /\ wk'[v].ops[i] = wk[v].ops[i]
                             /\ wk'[v].pc \in {"collect", "prepare", "done"} => wk'[v].conflicts = {},
           \A p \in Places, v \in Workers: InQueue(v, p)' \/ InBatch(v, p)' => Outcome(p)' = Outcome(p)
    PROVE  PlacesOK'
<1>0. Places' = Places /\ \A p: TxOf(p)' = TxOf(p) BY PlaceOf DEF ShapeOK, CommonOK
<1> SUFFICES ASSUME NEW v \in Workers PROVE PlacesFor(v)' BY DEF PlacesOK
<1>1. PlacesFor(v) BY DEF PlacesOK
<1>2. ASSUME NEW i \in Inserts(v)' PROVE ToAnswer(queue[v][i])'
  <2>1. PICK o: o = queue'[v][i] /\ ToAnswer(o) BY <1>1, <1>2 DEF PlacesFor
  <2>2. InQueue(v, o.arg)' BY <2>1 DEF InQueue
  <2>3. ToAnswer(o)' BY <1>0, <2>1, <2>2 DEF ToAnswer
  <2> QED BY <2>1, <2>3
<1>3. ASSUME NEW i \in ValidInserts(wk[v])' PROVE ToAnswer(wk[v].ops[i])'
  <2>1. PICK o: o = wk'[v].ops[i] /\ ToAnswer(o) BY <1>1, <1>3 DEF PlacesFor
  <2>2. InBatch(v, o.arg)' BY <2>1 DEF InBatch
  <2>3. ToAnswer(o)' BY <1>0, <2>1, <2>2 DEF ToAnswer
  <2> QED BY <2>1, <2>3
<1>4. (wk[v].pc \in {"collect", "prepare", "done"} => wk[v].conflicts = {})' OBVIOUS
<1>5. (\A i, j \in Inserts(v): queue[v][i].arg = queue[v][j].arg => i = j)' BY <1>1 DEF PlacesFor
<1>6. (\A i, j \in ValidInserts(wk[v]): wk[v].ops[i].arg = wk[v].ops[j].arg => i = j)' BY <1>1 DEF PlacesFor
<1>7. (\A i \in Inserts(v), j \in ValidInserts(wk[v]): queue[v][i].arg # wk[v].ops[j].arg)' BY <1>1 DEF PlacesFor
<1>8. (\A i \in Inserts(v): ToAnswer(queue[v][i]))' BY <1>2
<1>9. (\A i \in ValidInserts(wk[v]): ToAnswer(wk[v].ops[i]))' BY <1>3
<1> QED BY <1>4, <1>5, <1>6, <1>7, <1>8, <1>9 DEF PlacesFor

\* The duplicates found by the check are told so; nobody relied on them.
LEMMA PrepareReplies ==
    ASSUME ShapeOK, RoutedOK, WriterReplies, NEW w \in Workers, Prepare(w)
    PROVE  WriterReplies'
<1> DEFINE C == Conflicting(wk[w].ops)
<1>0. PlacesOK /\ setup \in Setups /\ UNCHANGED <<setup, rows, deleted, queue>> BY DEF Prepare, WriterReplies, ShapeOK, CommonOK
<1>1. /\ wk[w].pc = "prepare" /\ wk'[w].pc = "write" /\ wk[w].conflicts = {} /\ wk'[w].conflicts = C
      /\ \A v \in Workers: wk'[v].ops = wk[v].ops
      /\ \A v \in Workers \ {w}: wk'[v] = wk[v]
  <2>1. wk[w].pc = "prepare" /\ wk[w].conflicts = {} BY <1>0 DEF Prepare, PlacesOK, PlacesFor
  <2>2. wk'[w].conflicts = C BY PrepareType, <1>0 DEF Prepare
  <2> QED BY <2>1, <2>2, PrepareMoves
<1>2. \A r \in Requests: \A i \in 1..Size(r): out'[r][i] = IF <<r, i>> \in C THEN "conflict" ELSE out[r][i]
  BY DEF Prepare
<1>3. \A p \in Places: Outcome(p)' = IF p \in C THEN "conflict" ELSE Outcome(p) BY <1>0, <1>2, PlaceOf DEF Outcome
<1>4. \A p \in C: InBatch(w, p)
  BY <1>1 DEF Conflicting, OpsOf, Range, InBatch, ValidInserts
<1>5. \A v \in Workers: \A i \in ValidInserts(wk[v])': /\ i \in ValidInserts(wk[v]) /\ wk'[v].ops[i] = wk[v].ops[i]
                                                       /\ v = w => wk[v].ops[i].arg \notin C
  BY <1>1 DEF ValidInserts
<1> HIDE DEF C
<1>6. \A v \in Workers: Inserts(v)' = Inserts(v) BY <1>0 DEF Inserts
<1>7. \A v \in Workers: \A p: (InBatch(v, p)' => InBatch(v, p) /\ (v = w => p \notin C)) /\ (InQueue(v, p)' <=> InQueue(v, p))
  BY <1>0, <1>5, <1>6 DEF InBatch, InQueue
<1>8. \A v \in Workers: \A p: InBatch(v, p)' \/ InQueue(v, p)' => p \notin C BY <1>0, <1>4, <1>7, PlaceOnce
<1>9. PlacesOK'
  <2>1. \A v \in Workers: wk'[v].pc \in {"collect", "prepare", "done"} => wk'[v].conflicts = {}
    BY <1>0, <1>1 DEF PlacesOK, PlacesFor
  <2>2. \A p \in Places, v \in Workers: InQueue(v, p)' \/ InBatch(v, p)' => Outcome(p)' = Outcome(p) BY <1>3, <1>8
  <2>3. \A v \in Workers: \A i \in Inserts(v)': i \in Inserts(v) /\ queue'[v][i] = queue[v][i] BY <1>0, <1>6
  <2> QED BY <1>0, <1>5, <2>1, <2>2, <2>3, PlacesStay
<1>a. \A v \in Workers: (Committing(v)' <=> Committing(v)) /\ ~Committing(w) BY <1>1 DEF Committing
<1>b. ASSUME NEW p \in Places PROVE (Vouches(p) => Vouches(p)') /\ (Inserted(p)' => Inserted(p))
  <2>1. Inserted(p)' => Inserted(p) BY <1>3, <1>7, <1>a DEF Inserted
  <2>2. ASSUME Vouches(p) PROVE Vouches(p)'
    <3>1. p \notin C BY <1>4, <1>a, <2>2 DEF Vouches, Undecided
    <3>2. ~Undecided(p)' BY <1>7, <1>a, <2>2 DEF Vouches, Undecided
    <3> QED BY <1>3, <2>2, <3>1, <3>2 DEF Vouches
  <2> QED BY <2>1, <2>2
<1>c. \A t \in Txs: Exists(t)' <=> Exists(t) BY <1>0 DEF Exists
<1> QED BY <1>0, <1>9, <1>b, <1>c, RepliesKept

\* A batch answers its inserts by what became of them.
LEMMA FinishReplies ==
    ASSUME ShapeOK, RoutedOK, WriterReplies, NEW w \in Workers, Finish(w)
    PROVE  WriterReplies'
<1> DEFINE answer == IF wk[w].pc = "reply" THEN "ok" ELSE "error"
           pc == IF wk[w].closing THEN "done" ELSE "collect"
<1>0. /\ PlacesOK /\ setup \in Setups /\ UNCHANGED <<setup, rows, deleted, queue>> /\ wk[w].pc \in {"reply", "failed"}
      /\ wk' = [wk EXCEPT ![w] = IdleWorker(pc)]
  BY DEF Finish, WriterReplies, ShapeOK, CommonOK
<1>1. /\ wk'[w].ops = << >> /\ wk'[w].conflicts = {} /\ ~Committing(w)'
      /\ \A v \in Workers \ {w}: wk'[v] = wk[v]
  <2>1. wk \in [Workers -> Worker] BY DEF ShapeOK, BatchesOK
  <2>2. wk'[w] = IdleWorker(pc) BY <1>0, <2>1
  <2> QED BY <1>0, <2>1, <2>2 DEF IdleWorker, Committing
<1>2. \A p \in Places: Outcome(p)' = IF InBatch(w, p) THEN answer ELSE Outcome(p)
  <2>1. \A r \in Requests: \A i \in 1..Size(r):
          out'[r][i] = IF \E j \in ValidInserts(wk[w]): wk[w].ops[j].arg = <<r, i>> THEN answer ELSE out[r][i]
    BY DEF Finish, Answered
  <2> HIDE DEF answer
  <2> QED BY <1>0, <2>1, PlaceOf DEF Outcome, InBatch
<1> HIDE DEF pc
<1>3. \A v \in Workers: \A i \in ValidInserts(wk[v])': i \in ValidInserts(wk[v]) /\ wk'[v].ops[i] = wk[v].ops[i] /\ v # w
  BY <1>1 DEF ValidInserts
<1>4. \A v \in Workers: Inserts(v)' = Inserts(v) BY <1>0 DEF Inserts
<1>5. \A v \in Workers: \A p: (InBatch(v, p)' => InBatch(v, p) /\ v # w) /\ (InQueue(v, p)' <=> InQueue(v, p))
  BY <1>0, <1>3, <1>4 DEF InBatch, InQueue
<1>6. \A v \in Workers: \A p: InBatch(v, p)' \/ InQueue(v, p)' => ~InBatch(w, p) BY <1>0, <1>5, PlaceOnce
<1>7. PlacesOK'
  <2>1. \A v \in Workers: wk'[v].pc \in {"collect", "prepare", "done"} => wk'[v].conflicts = {}
    BY <1>0, <1>1 DEF PlacesOK, PlacesFor
  <2>2. \A p \in Places, v \in Workers: InQueue(v, p)' \/ InBatch(v, p)' => Outcome(p)' = Outcome(p) BY <1>2, <1>6
  <2>3. \A v \in Workers: \A i \in Inserts(v)': i \in Inserts(v) /\ queue'[v][i] = queue[v][i] BY <1>0, <1>4
  <2> QED BY <1>0, <1>3, <2>1, <2>2, <2>3, PlacesStay
<1>8. \A v \in Workers \ {w}: Committing(v)' <=> Committing(v) BY <1>1 DEF Committing
<1>9. Committing(w) <=> wk[w].pc = "reply" BY <1>0 DEF Committing
<1>a. ASSUME NEW p \in Places PROVE (Vouches(p) => Vouches(p)') /\ (Inserted(p)' => Inserted(p))
  <2>1. Inserted(p)' => Inserted(p)
    <3> SUFFICES ASSUME Inserted(p)' PROVE Inserted(p) OBVIOUS
    <3>1. CASE \E v \in Workers: Committing(v)' /\ InBatch(v, p)' BY <1>5, <1>8, <3>1 DEF Inserted
    <3>2. CASE Outcome(p)' = "ok" BY <1>2, <1>9, <3>2 DEF Inserted
    <3> QED BY <3>1, <3>2 DEF Inserted
  <2>2. ASSUME Vouches(p) PROVE Vouches(p)'
    <3>1. ~Undecided(p)' BY <1>1, <1>5, <1>8, <2>2 DEF Vouches, Undecided
    <3>2. InBatch(w, p) => wk[w].pc = "reply" BY <1>9, <2>2 DEF Vouches, Undecided
    <3> QED BY <1>2, <2>2, <3>1, <3>2 DEF Vouches
  <2> QED BY <2>1, <2>2
<1>b. \A t \in Txs: Exists(t)' <=> Exists(t) BY <1>0 DEF Exists
<1> QED BY <1>0, <1>7, <1>a, <1>b, RepliesKept

\* After a crash nothing is queued, and those who waited will not be told.
LEMMA CrashReplies ==
    ASSUME ShapeOK, WriterReplies, Crash
    PROVE  WriterReplies'
<1>0. PlacesOK /\ setup \in Setups /\ UNCHANGED <<setup, rows, deleted>> BY DEF Crash, WriterReplies, ShapeOK, CommonOK
<1>1. \A v \in Workers: /\ queue'[v] = << >> /\ wk'[v].ops = << >> /\ wk'[v].conflicts = {} /\ ~Committing(v)'
  BY DEF Crash, WriterRestarts, IdleWorker, Committing
<1>2. \A p \in Places: Outcome(p)' = IF Outcome(p) = "waiting" THEN "lost" ELSE Outcome(p)
  <2>1. \A r \in Requests: \A i \in 1..Size(r): out'[r][i] = IF out[r][i] = "waiting" THEN "lost" ELSE out[r][i]
    BY DEF Crash, Forgotten
  <2> QED BY <1>0, <2>1, PlaceOf DEF Outcome
<1>3. \A v \in Workers: Inserts(v)' = {} /\ ValidInserts(wk[v])' = {} BY <1>1 DEF Inserts, ValidInserts
<1>4. \A v \in Workers: \A p: ~InBatch(v, p)' /\ ~InQueue(v, p)' BY <1>3 DEF InBatch, InQueue
<1>5. PlacesOK' BY <1>0, <1>1, <1>3, <1>4, PlacesStay
<1>6. \A p \in Places: (Vouches(p) => Vouches(p)') /\ (Inserted(p)' => Inserted(p))
  BY <1>2, <1>4 DEF Vouches, Undecided, Inserted
<1>7. \A t \in Txs: Exists(t)' <=> Exists(t) BY <1>0 DEF Exists
<1> QED BY <1>0, <1>5, <1>6, <1>7, RepliesKept

\* A batch commits: its inserts are stored, each for one place.
LEMMA CommitReplies ==
    ASSUME ShapeOK, RoutedOK, UpdatedExist, NoncesOK, GapsOK, WriterReplies, NEW w \in Workers, Commit(w)
    PROVE  WriterReplies'
<1> DEFINE gone == TxsOf(wk[w].ops, "delete")
           V == ValidInserts(wk[w])
           New(p) == InBatch(w, p)
<1>0. /\ PlacesOK /\ setup \in Setups /\ UNCHANGED <<setup, out, queue>> /\ wk[w].pc = "commit"
      /\ deleted' = deleted \cup {<<SignerOf[t], rows[t].nonce>>: t \in gone}
  BY DEF Commit, WriterReplies, ShapeOK, CommonOK
<1>1. /\ \A v \in Workers: wk'[v].ops = wk[v].ops /\ wk'[v].conflicts = wk[v].conflicts
      /\ \A v \in Workers \ {w}: wk'[v] = wk[v]
      /\ wk'[w].pc \in {"reply", "notify"}
  BY Moves
<1>2. InsertsNew(wk[w]) BY <1>0 DEF GapsOK
<1>3. /\ \A i \in V: rows'[wk[w].ops[i].tx] # NoRow
      /\ \A t \in Txs: Exists(t) /\ t \notin gone => Exists(t)'
      /\ \A t \in Txs: Exists(t)' => Exists(t) \/ \E i \in V: wk[w].ops[i].tx = t
  BY <1>2, CommitRows
<1>4. \A v \in Workers: ValidInserts(wk[v])' = ValidInserts(wk[v]) /\ Inserts(v)' = Inserts(v) BY <1>0, <1>1 DEF ValidInserts, Inserts
<1>5. \A v \in Workers: \A p: (InBatch(v, p)' <=> InBatch(v, p)) /\ (InQueue(v, p)' <=> InQueue(v, p))
  BY <1>0, <1>1, <1>4 DEF InBatch, InQueue
<1>6. \A p: Outcome(p)' = Outcome(p) BY <1>0 DEF Outcome
<1>7. Committing(w)' /\ ~Committing(w) /\ \A v \in Workers \ {w}: Committing(v)' <=> Committing(v) BY <1>0, <1>1 DEF Committing
<1>8. PlacesOK'
  <2>1. \A v \in Workers: wk'[v].pc \in {"collect", "prepare", "done"} => wk'[v].conflicts = {}
    BY <1>0, <1>1 DEF PlacesOK, PlacesFor
  <2> QED BY <1>0, <1>1, <1>4, <1>6, <2>1, PlacesStay
<1>9. /\ \A p \in Places: TxOf(p) \in Txs
      /\ Places' = Places /\ \A p: TxOf(p)' = TxOf(p)
  BY <1>0, PlaceOf
<1>a. \A p: Inserted(p)' => Inserted(p) \/ New(p) BY <1>5, <1>6, <1>7 DEF Inserted
<1>b. \A p: New(p) => p \in Places /\ Outcome(p) \in {"waiting", "late"} /\ ~Exists(TxOf(p)) /\ rows'[TxOf(p)] # NoRow /\ ~Undecided(p)'
  <2> SUFFICES ASSUME NEW p, New(p)
               PROVE  p \in Places /\ Outcome(p) \in {"waiting", "late"} /\ ~Exists(TxOf(p)) /\ rows'[TxOf(p)] # NoRow /\ ~Undecided(p)'
    OBVIOUS
  <2>1. PICK i \in V: wk[w].ops[i].arg = p BY DEF InBatch
  <2>2. ToAnswer(wk[w].ops[i]) BY <1>0, <2>1 DEF PlacesOK, PlacesFor
  <2>3. ~Exists(wk[w].ops[i].tx) BY <1>2 DEF InsertsNew
  <2>4. ~Undecided(p)' BY <1>0, <1>5, <1>7, PlaceOnce DEF Undecided
  <2> QED BY <1>3, <2>1, <2>2, <2>3, <2>4 DEF ToAnswer
<1>c. \A p, q: New(p) /\ New(q) /\ TxOf(p) = TxOf(q) => p = q
  <2> SUFFICES ASSUME NEW p, NEW q, New(p), New(q), TxOf(p) = TxOf(q) PROVE p = q OBVIOUS
  <2>1. PICK i \in V: wk[w].ops[i].arg = p BY DEF InBatch
  <2>2. PICK j \in V: wk[w].ops[j].arg = q BY DEF InBatch
  <2>3. wk[w].ops[i].tx = TxOf(p) /\ wk[w].ops[j].tx = TxOf(q) BY <1>0, <2>1, <2>2 DEF PlacesOK, PlacesFor, ToAnswer
  <2>4. i = j BY <1>2, <2>3 DEF InsertsNew
  <2> QED BY <2>1, <2>2, <2>4
<1>d. \A p \in Places: Vouches(p) => Vouches(p)' BY <1>5, <1>6, <1>7 DEF Vouches, Undecided
<1>e. ASSUME NEW t \in Txs, Exists(t)' PROVE \E p \in Places': TxOf(p)' = t /\ Vouches(p)'
  <2>1. CASE Exists(t)
    <3>1. PICK p \in Places: TxOf(p) = t /\ Vouches(p) BY <2>1 DEF WriterReplies
    <3> QED BY <1>9, <1>d, <3>1
  <2>2. CASE \E i \in V: wk[w].ops[i].tx = t
    <3>1. PICK i \in V: wk[w].ops[i].tx = t BY <2>2
    <3>2. PICK p: p = wk[w].ops[i].arg OBVIOUS
    <3>3. New(p) /\ TxOf(p) = t BY <1>0, <3>1, <3>2 DEF InBatch, PlacesOK, PlacesFor, ToAnswer
    <3>4. Vouches(p)' BY <1>6, <1>b, <3>3 DEF Vouches
    <3> QED BY <1>9, <1>b, <3>3, <3>4
  <2> QED BY <1>3, <1>e, <2>1, <2>2
<1>f. ASSUME deleted' = {}, NEW p \in Places, Inserted(p)'
      PROVE  Exists(TxOf(p))' /\ \A q \in Places: Inserted(q)' /\ TxOf(q)' = TxOf(p)' => q = p
  <2>1. deleted = {} /\ gone = {}
    <3> HIDE DEF gone
    <3> QED BY <1>0, <1>f
  <2>2. \A q \in Places: Inserted(q) => Exists(TxOf(q)) /\ \A o \in Places: Inserted(o) /\ TxOf(o) = TxOf(q) => o = q
    BY <2>1 DEF WriterReplies
  <2>3. PICK t \in Txs: t = TxOf(p) BY <1>9
  <2>4. rows'[t] # NoRow BY <1>3, <1>a, <1>b, <1>f, <2>1, <2>2, <2>3 DEF Exists
  <2>5. Exists(TxOf(p))' BY <1>9, <2>3, <2>4 DEF Exists
  <2>6. ASSUME NEW q \in Places, Inserted(q)', TxOf(q) = TxOf(p) PROVE q = p
    <3> HIDE DEF New
    <3>1. Inserted(p) \/ New(p) BY <1>a, <1>f
    <3>2. Inserted(q) \/ New(q) BY <1>a, <2>6
    <3> QED BY <1>b, <1>c, <2>2, <2>6, <3>1, <3>2
  <2> QED BY <1>9, <2>5, <2>6
<1> QED BY <1>8, <1>9, <1>e, <1>f DEF WriterReplies

\* A worker takes an operation from its queue into its batch.
LEMMA CollectReplies ==
    ASSUME ShapeOK, WriterReplies, NEW w \in Workers, Collect(w)
    PROVE  WriterReplies'
<1> DEFINE op == queue[w][1]
           n == Len(wk[w].ops) + 1
<1>0. /\ PlacesOK /\ setup \in Setups /\ UNCHANGED <<setup, rows, out, deleted>>
      /\ Places' = Places /\ \A p: TxOf(p)' = TxOf(p)
  BY PlaceOf DEF Collect, WriterReplies, ShapeOK, CommonOK, storeVars
<1>1. /\ wk[w].pc = "collect" /\ wk'[w].pc \in {"collect", "prepare", "done"} /\ wk'[w].conflicts = wk[w].conflicts
      /\ \A v \in Workers \ {w}: wk'[v] = wk[v]
  <2>1. wk \in [Workers -> Worker] BY DEF ShapeOK, BatchesOK
  <2> QED BY <2>1 DEF Collect, Worker
<1>2. \A v \in Workers: wk'[v].conflicts = wk[v].conflicts /\ (Committing(v)' <=> Committing(v)) BY <1>1 DEF Committing
<1>3. 1 \in DOMAIN queue[w] /\ wk[w].conflicts = {} /\ wk'[w].conflicts = {} BY <1>0, <1>1, CollectMoves DEF PlacesOK, PlacesFor
<1>4. \A v \in Workers: \A i \in Inserts(v)':
         IF v = w THEN i \in Int /\ i + 1 \in Inserts(v) /\ i + 1 # 1 /\ queue'[v][i] = queue[v][i + 1]
                  ELSE i \in Inserts(v) /\ queue'[v][i] = queue[v][i]
  <2> SUFFICES ASSUME NEW v \in Workers, NEW i \in Inserts(v)'
               PROVE  IF v = w THEN i \in Int /\ i + 1 \in Inserts(v) /\ i + 1 # 1 /\ queue'[v][i] = queue[v][i + 1]
                               ELSE i \in Inserts(v) /\ queue'[v][i] = queue[v][i]
    OBVIOUS
  <2>1. i \in DOMAIN queue'[v] /\ queue'[v][i].kind = "insert" BY DEF Inserts
  <2>2. IF v = w THEN i + 1 \in DOMAIN queue[v] /\ i + 1 # 1 /\ queue'[v][i] = queue[v][i + 1] /\ i \in Int
                 ELSE i \in DOMAIN queue[v] /\ queue'[v][i] = queue[v][i]
    BY <2>1, CollectMoves
  <2> QED BY <2>1, <2>2 DEF Inserts
<1>5. \A v \in Workers: \A i \in ValidInserts(wk[v])':
         \/ i \in ValidInserts(wk[v]) /\ wk'[v].ops[i] = wk[v].ops[i]
         \/ v = w /\ i = n /\ i \notin DOMAIN wk[v].ops /\ wk'[v].ops[i] = op /\ 1 \in Inserts(w)
  <2> SUFFICES ASSUME NEW v \in Workers, NEW i \in ValidInserts(wk[v])'
               PROVE  \/ i \in ValidInserts(wk[v]) /\ wk'[v].ops[i] = wk[v].ops[i]
                      \/ v = w /\ i = n /\ i \notin DOMAIN wk[v].ops /\ wk'[v].ops[i] = op /\ 1 \in Inserts(w)
    OBVIOUS
  <2>1. i \in DOMAIN wk'[v].ops /\ wk'[v].ops[i].kind = "insert" /\ wk'[v].ops[i].arg \notin wk'[v].conflicts BY DEF ValidInserts
  <2>2. \/ i \in DOMAIN wk[v].ops /\ wk'[v].ops[i] = wk[v].ops[i]
        \/ v = w /\ i = n /\ i \notin DOMAIN wk[v].ops /\ wk'[v].ops[i] = op
    BY <2>1, CollectMoves
  <2> QED BY <1>2, <1>3, <2>1, <2>2 DEF ValidInserts, Inserts
<1> HIDE DEF n, op
<1>6. 1 \in Inserts(w) => ToAnswer(op) /\ \A i \in ValidInserts(wk[w]): wk[w].ops[i].arg # op.arg
  BY <1>0 DEF PlacesOK, PlacesFor, op
<1>7. \A i \in Inserts(w)': 1 \in Inserts(w) => queue'[w][i].arg # op.arg
  <2> SUFFICES ASSUME NEW i \in Inserts(w)', 1 \in Inserts(w) PROVE queue'[w][i].arg # op.arg OBVIOUS
  <2>1. i + 1 \in Inserts(w) /\ i + 1 # 1 /\ queue'[w][i] = queue[w][i + 1] BY <1>4
  <2>2. PICK k \in Inserts(w): k = i + 1 BY <2>1
  <2>3. queue[w][k].arg # queue[w][1].arg BY <1>0, <2>1, <2>2 DEF PlacesOK, PlacesFor
  <2> QED BY <2>1, <2>2, <2>3 DEF op
<1>8. \A o: ToAnswer(o) => ToAnswer(o)' BY <1>0 DEF ToAnswer, Outcome
<1>9. PlacesOK'
  <2> SUFFICES ASSUME NEW v \in Workers PROVE PlacesFor(v)' BY DEF PlacesOK
  <2>0. PlacesFor(v) BY <1>0 DEF PlacesOK
  <2>1. (wk[v].pc \in {"collect", "prepare", "done"} => wk[v].conflicts = {})' BY <1>1, <1>3, <2>0 DEF PlacesFor
  <2>2. ASSUME NEW i \in Inserts(v)' PROVE \E k \in Inserts(v): queue'[v][i] = queue[v][k] /\ (v = w => k = i + 1 /\ i \in Int) /\ (v # w => k = i)
    BY <1>4, <2>2
  <2>3. ASSUME NEW i \in Inserts(v)' PROVE ToAnswer(queue[v][i])'
    <3>1. PICK o: o = queue'[v][i] /\ ToAnswer(o) BY <2>0, <2>2, <2>3 DEF PlacesFor
    <3> QED BY <1>8, <3>1
  <2>4. ASSUME NEW i \in ValidInserts(wk[v])' PROVE ToAnswer(wk[v].ops[i])'
    <3>1. PICK o: o = wk'[v].ops[i] /\ ToAnswer(o) BY <1>5, <1>6, <2>0, <2>4 DEF PlacesFor
    <3> QED BY <1>8, <3>1
  <2>5. ASSUME NEW i \in Inserts(v)', NEW j \in Inserts(v)', queue'[v][i].arg = queue'[v][j].arg PROVE i = j
    <3>1. PICK k \in Inserts(v): queue'[v][i] = queue[v][k] /\ (v = w => k = i + 1 /\ i \in Int) /\ (v # w => k = i) BY <2>2, <2>5
    <3>2. PICK l \in Inserts(v): queue'[v][j] = queue[v][l] /\ (v = w => l = j + 1 /\ j \in Int) /\ (v # w => l = j) BY <2>2, <2>5
    <3>3. k = l BY <2>0, <2>5, <3>1, <3>2 DEF PlacesFor
    <3> QED BY <3>1, <3>2, <3>3
  <2>6. ASSUME NEW i \in ValidInserts(wk[v])', NEW j \in ValidInserts(wk[v])', wk'[v].ops[i].arg = wk'[v].ops[j].arg PROVE i = j
    <3>1. CASE i \in ValidInserts(wk[v]) /\ wk'[v].ops[i] = wk[v].ops[i] BY <1>5, <1>6, <2>0, <2>6, <3>1 DEF PlacesFor
    <3>2. CASE v = w /\ i = n /\ wk'[v].ops[i] = op /\ 1 \in Inserts(w) BY <1>5, <1>6, <2>6, <3>2
    <3> QED BY <1>5, <2>6, <3>1, <3>2
  <2>7. ASSUME NEW i \in Inserts(v)', NEW j \in ValidInserts(wk[v])' PROVE queue'[v][i].arg # wk'[v].ops[j].arg
    <3>1. CASE j \in ValidInserts(wk[v]) /\ wk'[v].ops[j] = wk[v].ops[j] BY <2>0, <2>2, <2>7, <3>1 DEF PlacesFor
    <3>2. CASE v = w /\ wk'[v].ops[j] = op /\ 1 \in Inserts(w) BY <1>7, <2>7, <3>2
    <3> QED BY <1>5, <2>7, <3>1, <3>2
  <2>a. (\A i \in Inserts(v): ToAnswer(queue[v][i]))' BY <2>3
  <2>b. (\A i \in ValidInserts(wk[v]): ToAnswer(wk[v].ops[i]))' BY <2>4
  <2>c. (\A i, j \in Inserts(v): queue[v][i].arg = queue[v][j].arg => i = j)' BY <2>5
  <2>d. (\A i, j \in ValidInserts(wk[v]): wk[v].ops[i].arg = wk[v].ops[j].arg => i = j)' BY <2>6
  <2>e. (\A i \in Inserts(v), j \in ValidInserts(wk[v]): queue[v][i].arg # wk[v].ops[j].arg)' BY <2>7
  <2> QED BY <2>1, <2>a, <2>b, <2>c, <2>d, <2>e DEF PlacesFor
<1>a. \A v \in Workers: \A p: /\ InQueue(v, p)' => InQueue(v, p)
                              /\ InBatch(v, p)' => InBatch(v, p) \/ (v = w /\ InQueue(v, p))
  <2> SUFFICES ASSUME NEW v \in Workers, NEW p
               PROVE  (InQueue(v, p)' => InQueue(v, p)) /\ (InBatch(v, p)' => InBatch(v, p) \/ (v = w /\ InQueue(v, p)))
    OBVIOUS
  <2>1. InQueue(v, p)' => InQueue(v, p) BY <1>4 DEF InQueue
  <2>2. InBatch(v, p)' => InBatch(v, p) \/ (v = w /\ InQueue(v, p)) BY <1>5 DEF InBatch, InQueue, op
  <2> QED BY <2>1, <2>2
<1>b. \A p: Outcome(p)' = Outcome(p) BY <1>0 DEF Outcome
<1>c. ~Committing(w) BY <1>1 DEF Committing
<1>d. \A p \in Places: (Vouches(p) => Vouches(p)') /\ (Inserted(p)' => Inserted(p))
  <2> SUFFICES ASSUME NEW p \in Places PROVE (Vouches(p) => Vouches(p)') /\ (Inserted(p)' => Inserted(p)) OBVIOUS
  <2>1. Undecided(p)' => Undecided(p) BY <1>2, <1>a DEF Undecided
  <2>2. Inserted(p)' => Inserted(p) BY <1>2, <1>a, <1>b, <1>c DEF Inserted
  <2> QED BY <1>b, <2>1, <2>2 DEF Vouches
<1>e. \A t \in Txs: Exists(t)' <=> Exists(t) BY <1>0 DEF Exists
<1> QED BY <1>0, <1>9, <1>d, <1>e, RepliesKept

\* One outcome changes.
LEMMA OutcomeSet ==
    ASSUME ShapeOK, UNCHANGED setup, NEW r \in Requests, NEW i \in 1..Size(r), NEW x, out' = [out EXCEPT ![r][i] = x]
    PROVE  /\ Outcome(<<r, i>>)' = x /\ \A p \in Places: p # <<r, i>> => Outcome(p)' = Outcome(p)
           /\ \A q \in Requests \ {r}: out'[q] = out[q]
           /\ \A j \in 1..Size(r): j # i => out'[r][j] = out[r][j]
<1>0. setup \in Setups BY DEF ShapeOK, CommonOK
<1>1. \A q \in Requests: out[q] \in [1..Size(q) -> Outcomes] BY DEF ShapeOK, CommonOK
<1>2. out = [q \in Requests |-> out[q]] BY DEF ShapeOK, CommonOK
<1>3. out' = [q \in Requests |-> IF q = r THEN [out[r] EXCEPT ![i] = x] ELSE out[q]] BY <1>2
<1>4. /\ \A q \in Requests \ {r}: out'[q] = out[q]
      /\ \A j \in 1..Size(r): j # i => out'[r][j] = out[r][j]
  BY <1>1, <1>3
<1>5. \A q \in Requests: \A j \in 1..Size(q): <<q, j>> # <<r, i>> => out'[q][j] = out[q][j] BY <1>4
<1>6. Outcome(<<r, i>>)' = x BY <1>1, <1>3 DEF Outcome
<1>7. \A p \in Places: p # <<r, i>> => Outcome(p)' = Outcome(p)
  <2> SUFFICES ASSUME NEW p \in Places, p # <<r, i>> PROVE Outcome(p)' = Outcome(p) OBVIOUS
  <2>1. p[1] \in Requests /\ p[2] \in 1..Size(p[1]) /\ <<p[1], p[2]>> # <<r, i>> BY <1>0, PlaceOf
  <2> QED BY <1>5, <2>1 DEF Outcome
<1> QED BY <1>4, <1>6, <1>7

LEMMA WriterStepReplies ==
    ASSUME ShapeOK, RoutedOK, UpdatedExist, NoncesOK, GapsOK, WriterReplies, NEW r, NEW t, NEW w,
           \/ (r \in Requests /\ QueueInsert(r)) \/ (t \in Txs /\ QueueWrite(t)) \/ (w \in Workers /\ WorkerStep(w))
           \/ Evict \/ ReaderStep \/ Close \/ StopWorker
    PROVE  WriterReplies'
<1>0. setup \in Setups BY DEF ShapeOK, CommonOK
<1>1. ASSUME r \in Requests, QueueInsert(r) PROVE WriterReplies'
  <2>1. PICK i \in 1..Size(r), op \in Operation, x \in {"waiting", "late"}:
             /\ op.kind = "insert" /\ op.tx = TxAt(r, i) /\ op.arg = <<r, i>> /\ out[r][i] = "idle"
             /\ Routine(op) \in Workers /\ Queue(op)
             /\ out' = [out EXCEPT ![r][i] = x]
             /\ UNCHANGED <<setup, rows, deleted, wk>>
    BY <1>1, InsertQueued
  <2>2. <<r, i>> \in Places /\ TxOf(<<r, i>>) = TxAt(r, i) /\ Outcome(<<r, i>>) = out[r][i] BY <1>0, <1>1, PlaceOf
  <2>3. Outcome(<<r, i>>)' = x /\ \A p \in Places: p # <<r, i>> => Outcome(p)' = Outcome(p) BY <1>1, <2>1, OutcomeSet
  <2>4. PICK p: p = op.arg OBVIOUS
  <2>5. Outcome(p)' \in {"waiting", "late"} BY <2>1, <2>3, <2>4
  <2>6. Outcome(op.arg)' = Outcome(p)' BY <2>4 DEF Outcome
  <2>7. \A q \in Places: q # op.arg => Outcome(q)' = Outcome(q) BY <2>1, <2>3
  <2> QED BY <2>1, <2>2, <2>5, <2>6, <2>7, QueueReplies DEF Queue
<1>2. ASSUME t \in Txs, QueueWrite(t) PROVE WriterReplies'
  <2>1. PICK op \in Operation: op.kind # "insert" /\ Routine(op) \in Workers /\ Queue(op) BY <1>2, WriteQueued
  <2>2. UNCHANGED <<setup, rows, deleted, wk, out>> BY <1>2, WriteQueued DEF storeVars
  <2> QED BY <2>1, <2>2, QueueReplies DEF Queue
<1>3. ASSUME w \in Workers, WorkerStep(w) PROVE WriterReplies'
  <2>1. CASE Collect(w) BY <1>3, <2>1, CollectReplies
  <2>2. CASE Finish(w) BY <1>3, <2>2, FinishReplies
  <2>3. CASE Prepare(w) BY <1>3, <2>3, PrepareReplies
  <2>4. CASE Commit(w) BY <1>3, <2>4, CommitReplies
  <2>5. CASE BatchTimeout(w) \/ WriteBatch(w) \/ CommitFails(w) \/ Notify(w)
    <3>1. UNCHANGED <<setup, rows, out, queue, deleted>>
      BY <2>5 DEF BatchTimeout, WriteBatch, CommitFails, Notify, storeVars
    <3>2. \A v \in Workers: /\ wk'[v].ops = wk[v].ops /\ wk'[v].conflicts = wk[v].conflicts
                            /\ Committing(v)' <=> Committing(v)
                            /\ wk'[v].pc \in {"collect", "prepare", "done"} => wk[v].pc \in {"collect", "prepare", "done"}
      BY <1>3, <2>5, Moves DEF Committing
    <3>3. \A u \in Txs: Exists(u)' <=> Exists(u) BY <3>1 DEF Exists
    <3> QED BY <3>1, <3>2, <3>3, SameReplies
  <2> QED BY <1>3, <2>1, <2>2, <2>3, <2>4, <2>5 DEF WorkerStep
<1>4. CASE Evict \/ ReaderStep \/ Close
  <2>1. UNCHANGED <<setup, rows, out, queue, deleted, wk>>
    BY <1>4 DEF Evict, ReaderStep, ReadTime, ListTxCompletions, WaitTxCompletionUpdates, Close, storeVars
  <2>2. \A u \in Txs: Exists(u)' <=> Exists(u) BY <2>1 DEF Exists
  <2>3. \A v \in Workers: Committing(v)' <=> Committing(v) BY <2>1 DEF Committing
  <2> QED BY <2>1, <2>2, <2>3, SameReplies
<1>5. CASE StopWorker
  <2> DEFINE v == WorkerSeq[stop]
  <2>1. UNCHANGED <<setup, rows, out, deleted, wk>> BY <1>5 DEF StopWorker, storeVars
  <2>2. CASE UNCHANGED queue
    <3>1. \A u \in Txs: Exists(u)' <=> Exists(u) BY <2>1 DEF Exists
    <3>2. \A u \in Workers: Committing(u)' <=> Committing(u) BY <2>1 DEF Committing
    <3> QED BY <2>1, <2>2, <3>1, <3>2, SameReplies
  <2>3. CASE ~UNCHANGED queue
    <3>1. queue' = [queue EXCEPT ![v] = Append(@, Shutdown)] BY <1>5, <2>3 DEF StopWorker, Shutdown
    <3>2. v \in Workers
      <4> SUFFICES ASSUME v \notin Workers PROVE FALSE OBVIOUS
      <4> QED BY <2>3, <3>1 DEF ShapeOK, BatchesOK
    <3>3. Shutdown.kind # "insert" BY DEF Shutdown
    <3> QED BY <2>1, <3>1, <3>2, <3>3, QueueReplies
  <2> QED BY <2>2, <2>3
<1> QED BY <1>1, <1>2, <1>3, <1>4, <1>5

\* LevelDB: nothing is stored, and nobody is told so.
LEMMA LdbKept ==
    ASSUME ShapeOK, LdbReplies, UNCHANGED setup, \A r \in Requests: RequestOK(r)', \A t \in Txs: Exists(t)' => Exists(t),
           \A p \in Places: Outcome(p)' = "ok" <=> Outcome(p) = "ok",
           deleted' # {} \/ (deleted = {} /\ \A t \in Txs: Exists(t) => Exists(t)') \/ (deleted' = deleted /\ \A t \in Txs: Exists(t) => Exists(t)')
    PROVE  LdbReplies'
<1>0. /\ \A p \in Places: TxOf(p) \in Txs
      /\ Places' = Places /\ \A p: TxOf(p)' = TxOf(p)
  BY PlaceOf DEF ShapeOK, CommonOK
<1>1. ASSUME NEW t \in Txs, Exists(t)' PROVE \E p \in Places': TxOf(p)' = t /\ Outcome(p)' = "ok"
  BY <1>0, <1>1 DEF LdbReplies
<1>2. ASSUME deleted' = {}, NEW p \in Places, Outcome(p)' = "ok"
      PROVE  Exists(TxOf(p))' /\ \A q \in Places: Outcome(q)' = "ok" /\ TxOf(q)' = TxOf(p)' => q = p
  <2>1. Outcome(p) = "ok" /\ deleted = {} BY <1>2
  <2>2. Exists(TxOf(p)) /\ \A q \in Places: Outcome(q) = "ok" /\ TxOf(q) = TxOf(p) => q = p BY <2>1 DEF LdbReplies
  <2>3. Exists(TxOf(p))'
    <3>1. PICK t \in Txs: t = TxOf(p) BY <1>0
    <3>2. Exists(t)' BY <1>2, <2>2, <3>1
    <3> QED BY <1>0, <3>1, <3>2 DEF Exists
  <2> QED BY <1>0, <2>2, <2>3
<1> QED BY <1>0, <1>1, <1>2 DEF LdbReplies

\* A request goes on; the others stay where they are.
LEMMA RequestGoesOn ==
    ASSUME ShapeOK, LdbReplies, UNCHANGED setup, NEW r \in Requests,
           \A q \in Requests \ {r}: ins'[q] = ins[q] /\ out'[q] = out[q], RequestOK(r)'
    PROVE  \A q \in Requests: RequestOK(q)'
<1>1. \A q \in Requests: RequestOK(q) /\ Size(q)' = Size(q) BY DEF LdbReplies, Size
<1>2. ASSUME NEW q \in Requests \ {r} PROVE RequestOK(q)' BY <1>1 DEF RequestOK
<1> QED BY <1>2

\* An insert request starts: its transactions wait.
LEMMA BeginReplies ==
    ASSUME ShapeOK, LdbReplies, NEW r \in Requests, BeginInsert(r)
    PROVE  LdbReplies'
<1>0. /\ setup \in Setups /\ UNCHANGED <<setup, rows, deleted>> /\ ins[r].pc = "idle"
      /\ ins \in [Requests -> Insert] /\ out = [q \in Requests |-> out[q]] /\ Size(r)' = Size(r)
      /\ out' = [out EXCEPT ![r] = [i \in 1..Size(r) |-> "waiting"]] /\ ins' = [ins EXCEPT ![r].pc = "assign"]
  BY DEF BeginInsert, Goto, ShapeOK, CommonOK, LdbOK, Size
<1>1. /\ \A q \in Requests \ {r}: ins'[q] = ins[q] /\ out'[q] = out[q]
      /\ ins'[r].pc = "assign" /\ \A i \in 1..Size(r): out'[r][i] = "waiting"
  <2>1. out' = [q \in Requests |-> IF q = r THEN [i \in 1..Size(r) |-> "waiting"] ELSE out[q]] BY <1>0
  <2> QED BY <1>0, <2>1 DEF Insert
<1>2. RequestOK(r)' BY <1>0, <1>1 DEF RequestOK
<1>3. \A i \in 1..Size(r): out[r][i] = "idle" BY <1>0 DEF LdbReplies, RequestOK
<1>4. ASSUME NEW p \in Places PROVE Outcome(p)' = "ok" <=> Outcome(p) = "ok"
  <2>1. p[1] \in Requests /\ p[2] \in 1..Size(p[1]) BY <1>0, PlaceOf
  <2>2. CASE p[1] = r BY <1>1, <1>3, <2>1, <2>2 DEF Outcome
  <2>3. CASE p[1] # r BY <1>1, <2>1, <2>3 DEF Outcome
  <2> QED BY <2>2, <2>3
<1>5. \A t \in Txs: Exists(t)' <=> Exists(t) BY <1>0 DEF Exists
<1>6. \A q \in Requests: RequestOK(q)' BY <1>0, <1>1, <1>2, RequestGoesOn
<1> QED BY <1>0, <1>4, <1>5, <1>6, LdbKept

\* The steps of an insert before and after the record is written.
LEMMA GoOnReplies ==
    ASSUME ShapeOK, LdbReplies, NEW r \in Requests,
           AssignAndLockNonce(r) \/ CalcNextNonce(r) \/ CleanupOrphans(r) \/ CalcNextNonceFromTxs(r) \/ Complete(r)
    PROVE  LdbReplies'
<1>0. /\ setup \in Setups /\ ins \in [Requests -> Insert] /\ \A q \in Requests: ins[q] \in Insert
  BY DEF ShapeOK, CommonOK, LdbOK
<1>1. UNCHANGED <<setup, rows, deleted, out>> /\ Size(r)' = Size(r)
  BY DEF AssignAndLockNonce, CalcNextNonce, CleanupOrphans, CalcNextNonceFromTxs, Complete, storeVars, Size
<1>2. CASE ~Complete(r)
  <2>1. /\ \A q \in Requests \ {r}: ins'[q] = ins[q]
        /\ ins'[r].pc \in {"list", "nonce", "clean", "write"} /\ ins'[r].i = ins[r].i /\ ins[r].pc \in {"assign", "list", "clean", "nonce"}
    <3>1. CASE AssignAndLockNonce(r) BY <1>0, <3>1 DEF AssignAndLockNonce, Goto, Insert
    <3>2. CASE CalcNextNonce(r)
      <4> DEFINE now == [ins[r] EXCEPT !.last = LastNonce(SignerOf[Current(r)]), !.pc = "nonce"]
                 later == [now EXCEPT !.pc = "clean", !.orphans = Orphans(SignerOf[Current(r)])]
      <4>1. ins[r].pc = "list" /\ (ins' = [ins EXCEPT ![r] = now] \/ ins' = [ins EXCEPT ![r] = later]) BY <3>2 DEF CalcNextNonce
      <4>2. now.pc = "nonce" /\ now.i = ins[r].i /\ later.pc = "clean" /\ later.i = ins[r].i BY <1>0 DEF Insert
      <4> HIDE DEF now, later
      <4> QED BY <1>0, <4>1, <4>2
    <3>3. CASE CleanupOrphans(r) BY <1>0, <3>3 DEF CleanupOrphans, Insert
    <3>4. CASE CalcNextNonceFromTxs(r)
      <4>1. ins[r].pc = "nonce" /\ \E n: ins' = [ins EXCEPT ![r].pc = "write", ![r].nonce = n] BY <3>4 DEF CalcNextNonceFromTxs
      <4> QED BY <1>0, <4>1 DEF Insert
    <3> QED BY <1>2, <3>1, <3>2, <3>3, <3>4
  <2>2. \A i \in 1..Size(r): ins[r].i <= i => out[r][i] = "waiting" BY <2>1 DEF LdbReplies, RequestOK
  <2>3. RequestOK(r)' BY <1>1, <2>1, <2>2 DEF RequestOK
  <2>4. \A q \in Requests: RequestOK(q)' BY <1>1, <2>1, <2>3, RequestGoesOn
  <2>5. \A t \in Txs: Exists(t)' <=> Exists(t) BY <1>1 DEF Exists
  <2>6. \A p \in Places: Outcome(p)' = Outcome(p) BY <1>1 DEF Outcome
  <2> QED BY <1>1, <2>4, <2>5, <2>6, LdbKept
<1>3. CASE Complete(r)
  <2>1. /\ ins[r].pc = "complete"
        /\ ins'[r].pc = "done" \/ (ins'[r].pc = "assign" /\ ins'[r].i = ins[r].i + 1)
    <3>1. ins' = [ins EXCEPT ![r] = [IdleInsert EXCEPT !.pc = IF ins[r].i = Size(r) THEN "done" ELSE "assign",
                                               !.i = IF ins[r].i = Size(r) THEN @ ELSE ins[r].i + 1]] /\ ins[r].pc = "complete"
      BY <1>3 DEF Complete
    <3> QED BY <1>0, <3>1 DEF IdleInsert
  <2>2. \A i \in 1..Size(r): ins[r].i < i => out[r][i] = "waiting" BY <2>1 DEF LdbReplies, RequestOK
  <2>3. ins[r].i \in Nat /\ Size(r) \in Nat BY <1>0, SetupOK DEF Insert
  <2>4. RequestOK(r)' BY <1>1, <2>1, <2>2, <2>3 DEF RequestOK
  <2>5. \A q \in Requests \ {r}: ins'[q] = ins[q] BY <1>0, <1>3 DEF Complete
  <2>6. \A q \in Requests: RequestOK(q)' BY <1>1, <2>4, <2>5, RequestGoesOn
  <2>7. \A t \in Txs: Exists(t)' <=> Exists(t) BY <1>1 DEF Exists
  <2>8. \A p \in Places: Outcome(p)' = Outcome(p) BY <1>1 DEF Outcome
  <2> QED BY <1>1, <2>6, <2>7, <2>8, LdbKept
<1> QED BY <1>2, <1>3

\* writeTransactionLocked: the request is told what was written.
LEMMA WriteReplies ==
    ASSUME ShapeOK, LdbReplies, NEW r \in Requests, WriteTransaction(r)
    PROVE  LdbReplies'
<1>0. /\ setup \in Setups /\ UNCHANGED <<setup, deleted>> /\ ins[r].pc = "write" /\ Size(r)' = Size(r)
      /\ ins \in [Requests -> Insert] /\ ins' = [ins EXCEPT ![r].pc = "complete"]
  BY DEF WriteTransaction, Goto, ShapeOK, CommonOK, LdbOK, Size
<1>1. PICK i \in 1..Size(r), t \in Txs, p \in Places: i = ins[r].i /\ t = TxAt(r, i) /\ t = Current(r) /\ p = <<r, i>>
  BY <1>0, CurrentOK, PlaceOf DEF Current
<1>2. Size(r) \in Nat /\ TxOf(p) = t /\ Outcome(p) = out[r][i] BY <1>0, <1>1, CurrentOK, PlaceOf
<1>3. PICK o \in {"conflict", "ok", "early", "orphan"}:
        /\ o = "ok" => ~Exists(t)
        /\ rows' = IF o = "ok" THEN [rows EXCEPT ![t] = NewRow(ins[r].nonce)] ELSE rows
        /\ out' = [out EXCEPT ![r][i] = IF o \in {"early", "orphan"} THEN "error" ELSE o]
  BY <1>1 DEF WriteTransaction, WriteOutcomes
<1>4. PICK x: x = IF o \in {"early", "orphan"} THEN "error" ELSE o OBVIOUS
<1>5. out' = [out EXCEPT ![r][i] = x] BY <1>3, <1>4
<1>6. /\ Outcome(p)' = x /\ \A q \in Places: q # p => Outcome(q)' = Outcome(q)
      /\ \A q \in Requests \ {r}: out'[q] = out[q]
      /\ \A j \in 1..Size(r): j # i => out'[r][j] = out[r][j]
  <2>1. /\ Outcome(<<r, i>>)' = x /\ \A q \in Places: q # <<r, i>> => Outcome(q)' = Outcome(q)
        /\ \A q \in Requests \ {r}: out'[q] = out[q]
        /\ \A j \in 1..Size(r): j # i => out'[r][j] = out[r][j]
    BY <1>0, <1>1, <1>5, OutcomeSet
  <2>2. Outcome(p)' = Outcome(<<r, i>>)' BY <1>1
  <2> QED BY <1>1, <2>1, <2>2
<1>7. ins'[r].pc = "complete" /\ ins'[r].i = i /\ \A q \in Requests \ {r}: ins'[q] = ins[q] BY <1>0, <1>1 DEF Insert
<1>8. \A j \in 1..Size(r): i <= j => out[r][j] = "waiting" BY <1>0, <1>1 DEF LdbReplies, RequestOK
<1>9. Outcome(p) = "waiting" BY <1>1, <1>2, <1>8
<1>a. RequestOK(r)'
  <2>1. \A j \in 1..Size(r): i < j => out'[r][j] = "waiting" BY <1>1, <1>6, <1>8
  <2> QED BY <1>0, <1>7, <2>1 DEF RequestOK
<1>b. \A q \in Requests: RequestOK(q)' BY <1>0, <1>6, <1>7, <1>a, RequestGoesOn
<1>c. CASE o # "ok"
  <2>1. \A u \in Txs: Exists(u)' <=> Exists(u) BY <1>3, <1>c DEF Exists
  <2>2. \A q \in Places: Outcome(q)' = "ok" <=> Outcome(q) = "ok" BY <1>4, <1>6, <1>9, <1>c
  <2> QED BY <1>0, <1>b, <2>1, <2>2, LdbKept
<1>d. CASE o = "ok"
  <2>1. ~Exists(t) /\ rows' = [rows EXCEPT ![t] = NewRow(ins[r].nonce)] BY <1>3, <1>d
  <2>2. rows'[t] # NoRow /\ \A u \in Txs \ {t}: rows'[u] = rows[u]
    <3>1. rows \in [Txs -> [nonce: Int, status: {"None", "Pending", "Succeeded"}, hash: BOOLEAN]] BY DEF ShapeOK, RowsOK
    <3> QED BY <1>1, <2>1, <3>1 DEF NewRow, NoRow
  <2>3. \A u \in Txs: Exists(u)' <=> u = t \/ Exists(u) BY <2>2 DEF Exists
  <2>4. \A q \in Places: Outcome(q)' = "ok" <=> q = p \/ Outcome(q) = "ok" BY <1>2, <1>4, <1>6, <1>d
  <2>5. /\ \A q \in Places: TxOf(q) \in Txs
        /\ Places' = Places /\ \A q: TxOf(q)' = TxOf(q)
    BY <1>0, PlaceOf
  <2>6. ASSUME NEW u \in Txs, Exists(u)' PROVE \E q \in Places': TxOf(q)' = u /\ Outcome(q)' = "ok"
    <3>1. CASE u = t
      <4>1. PICK q \in Places: q = p BY <1>2
      <4> QED BY <1>2, <2>4, <2>5, <3>1, <4>1
    <3>2. CASE Exists(u)
      <4>1. PICK q \in Places: TxOf(q) = u /\ Outcome(q) = "ok" BY <3>2 DEF LdbReplies
      <4> QED BY <2>4, <2>5, <4>1
    <3> QED BY <2>3, <2>6, <3>1, <3>2
  <2>7. ASSUME deleted' = {}, NEW q \in Places, Outcome(q)' = "ok"
        PROVE  Exists(TxOf(q))' /\ \A v \in Places: Outcome(v)' = "ok" /\ TxOf(v)' = TxOf(q)' => v = q
    <3>1. \A v \in Places: Outcome(v) = "ok" => Exists(TxOf(v)) /\ \A y \in Places: Outcome(y) = "ok" /\ TxOf(y) = TxOf(v) => y = v
      BY <1>0, <2>7 DEF LdbReplies
    <3>2. q = p \/ Outcome(q) = "ok" BY <2>4, <2>7
    <3>3. PICK u \in Txs: u = TxOf(q) BY <2>5
    <3>4. Exists(u)' BY <1>2, <2>3, <3>1, <3>2, <3>3
    <3>5. Exists(TxOf(q))' BY <2>5, <3>3, <3>4 DEF Exists
    <3>6. ASSUME NEW v \in Places, Outcome(v)' = "ok", TxOf(v) = TxOf(q) PROVE v = q
      <4>1. v = p \/ Outcome(v) = "ok" BY <2>4, <3>6
      <4> QED BY <1>2, <2>1, <3>1, <3>2, <3>6, <4>1
    <3> QED BY <2>5, <3>5, <3>6
  <2> QED BY <1>b, <2>5, <2>6, <2>7 DEF LdbReplies
<1> QED BY <1>c, <1>d

LEMMA LdbStepReplies ==
    ASSUME ShapeOK, LdbReplies, NEW r, NEW t,
           \/ r \in Requests /\ (BeginInsert(r) \/ InsertStep(r))
           \/ (t \in Txs /\ DeleteTransaction(t)) \/ DeleteIndex \/ ListByNonce \/ ListCleansUp
    PROVE  LdbReplies'
<1>0. \A q \in Requests: RequestOK(q) BY DEF LdbReplies
<1>1. CASE r \in Requests /\ (BeginInsert(r) \/ InsertStep(r))
  BY <1>1, BeginReplies, GoOnReplies, WriteReplies DEF InsertStep
<1>2. CASE (t \in Txs /\ DeleteTransaction(t)) \/ DeleteIndex \/ ListByNonce \/ ListCleansUp
  <2>1. UNCHANGED <<setup, out, ins>> BY <1>2 DEF DeleteTransaction, DeleteIndex, ListByNonce, ListCleansUp, storeVars
  <2>2. \A q \in Requests: RequestOK(q)' BY <1>0, <2>1 DEF RequestOK, Size
  <2>3. \A p \in Places: Outcome(p)' = Outcome(p) BY <2>1 DEF Outcome
  <2>4. CASE UNCHANGED <<rows, deleted>>
    <3>1. \A u \in Txs: Exists(u)' <=> Exists(u) BY <2>4 DEF Exists
    <3> QED BY <2>1, <2>2, <2>3, <2>4, <3>1, LdbKept
  <2>5. CASE t \in Txs /\ DeleteTransaction(t)
    <3>1. deleted' # {} /\ rows' = [rows EXCEPT ![t] = NoRow] BY <2>5 DEF DeleteTransaction
    <3>2. \A u \in Txs: Exists(u)' => Exists(u) BY <3>1 DEF Exists, ShapeOK, RowsOK
    <3> QED BY <2>1, <2>2, <2>3, <3>1, <3>2, LdbKept
  <2> QED BY <1>2, <2>4, <2>5 DEF DeleteIndex, ListByNonce, ListCleansUp, storeVars
<1> QED BY <1>1, <1>2

LEMMA LdbCrashReplies ==
    ASSUME ShapeOK, LdbReplies, Crash
    PROVE  LdbReplies'
<1>0. setup \in Setups /\ UNCHANGED <<setup, rows, deleted>> BY DEF Crash, ShapeOK, CommonOK
<1>1. \A r \in Requests: \A i \in 1..Size(r): out'[r][i] = IF out[r][i] = "waiting" THEN "lost" ELSE out[r][i]
  BY DEF Crash, Forgotten
<1>2. \A r \in Requests: ins'[r].pc \in {"idle", "done"} /\ (ins'[r].pc = "idle" => ins[r].pc = "idle")
  BY DEF Crash, LdbRestarts, IdleInsert
<1>3. ASSUME NEW r \in Requests PROVE RequestOK(r)'
  <2>1. RequestOK(r) /\ Size(r)' = Size(r) BY <1>0 DEF LdbReplies, Size
  <2> QED BY <1>1, <1>2, <2>1 DEF RequestOK
<1>4. \A p \in Places: Outcome(p)' = IF Outcome(p) = "waiting" THEN "lost" ELSE Outcome(p) BY <1>0, <1>1, PlaceOf DEF Outcome
<1>5. \A t \in Txs: Exists(t)' <=> Exists(t) BY <1>0 DEF Exists
<1> QED BY <1>0, <1>3, <1>4, <1>5, LdbKept

\* Nothing that the requests or the inserts are about changes.
LEMMA RepliesFrame ==
    ASSUME ShapeOK, RepliesInv, UNCHANGED <<setup, rows, out, deleted, queue, wk, ins>>
    PROVE  RepliesInv'
<1>1. \A t \in Txs: Exists(t)' <=> Exists(t) BY DEF Exists
<1>2. \A v \in Workers: Committing(v)' <=> Committing(v) BY DEF Committing
<1>3. WriterReplies => WriterReplies' BY <1>1, <1>2, SameReplies
<1>4. LdbReplies => LdbReplies'
  <2> SUFFICES ASSUME LdbReplies PROVE LdbReplies' OBVIOUS
  <2>1. \A r \in Requests: RequestOK(r)' BY DEF LdbReplies, RequestOK, Size
  <2>2. \A p \in Places: Outcome(p)' = Outcome(p) BY DEF Outcome
  <2> QED BY <1>1, <2>1, <2>2, LdbKept
<1> QED BY <1>3, <1>4 DEF RepliesInv

LEMMA RepliesInit == Init => RepliesInv
<1> SUFFICES ASSUME Init PROVE RepliesInv OBVIOUS
<1>0. /\ setup \in Setups /\ rows = [t \in Txs |-> NoRow] /\ out = [r \in Requests |-> [i \in 1..Size(r) |-> "idle"]]
      /\ queue = [w \in Workers |-> << >>] /\ wk = [w \in Workers |-> IdleWorker("collect")]
      /\ ins = [r \in Requests |-> IdleInsert]
  BY DEF Init, StoreInit, WriterInit, LdbInit
<1>1. \A t \in Txs: ~Exists(t) BY <1>0 DEF Exists
<1>2. \A p \in Places: Outcome(p) = "idle" BY <1>0, PlaceOf DEF Outcome
<1>3. \A w \in Workers: queue[w] = << >> /\ wk[w].ops = << >> /\ wk[w].conflicts = {} /\ ~Committing(w)
  BY <1>0 DEF IdleWorker, Committing
<1>4. \A w \in Workers: Inserts(w) = {} /\ ValidInserts(wk[w]) = {} BY <1>3 DEF Inserts, ValidInserts
<1>5. PlacesOK BY <1>3, <1>4 DEF PlacesOK, PlacesFor
<1>6. \A p \in Places: ~Inserted(p) BY <1>2, <1>3 DEF Inserted
<1>7. WriterReplies BY <1>1, <1>5, <1>6 DEF WriterReplies
<1>8. \A r \in Requests: RequestOK(r) BY <1>0 DEF RequestOK, IdleInsert
<1>9. LdbReplies BY <1>1, <1>2, <1>8 DEF LdbReplies
<1> QED BY <1>7, <1>9 DEF RepliesInv

LEMMA RepliesNext == StoreInv /\ RepliesInv /\ [Next]_vars => RepliesInv'
<1> SUFFICES ASSUME StoreInv, RepliesInv, [Next]_vars PROVE RepliesInv' OBVIOUS
<1>0. /\ ShapeOK /\ setup.store \in {"postgres", "leveldb"}
      /\ setup.store = "postgres" => RoutedOK /\ UpdatedExist /\ NoncesOK /\ GapsOK
  BY SetupsAssumption DEF StoreInv, ShapeOK, CommonOK, PostgresInv
<1>a. ASSUME setup.store = "postgres", NEW x,
             \/ (x \in Requests /\ QueueInsert(x)) \/ (x \in Txs /\ QueueWrite(x)) \/ (x \in Workers /\ WorkerStep(x))
             \/ Evict \/ ReaderStep \/ Close \/ StopWorker
      PROVE  RepliesInv'
  <2>1. setup' = setup BY <1>a, SetupKept
  <2>2. WriterReplies BY <1>a DEF RepliesInv
  <2>3. WriterReplies' BY <1>0, <1>a, <2>2, WriterStepReplies
  <2> QED BY <1>a, <2>1, <2>3 DEF RepliesInv
<1>b. ASSUME setup.store = "leveldb", NEW x,
             \/ x \in Requests /\ (BeginInsert(x) \/ InsertStep(x))
             \/ (x \in Txs /\ DeleteTransaction(x)) \/ DeleteIndex \/ ListByNonce \/ ListCleansUp
      PROVE  RepliesInv'
  <2>1. setup' = setup BY <1>b, SetupKept
  <2>2. LdbReplies BY <1>b DEF RepliesInv
  <2>3. LdbReplies' BY <1>0, <1>b, <2>2, LdbStepReplies
  <2> QED BY <1>b, <2>1, <2>3 DEF RepliesInv
<1>2. CASE \E r \in Requests: Postgres(QueueInsert(r)) \/ LevelDB(BeginInsert(r)) \/ LevelDB(InsertStep(r))
  BY <1>2, <1>a, <1>b DEF Postgres, LevelDB
<1>3. CASE \E t \in Txs: Postgres(QueueWrite(t)) \/ LevelDB(DeleteTransaction(t))
  BY <1>3, <1>a, <1>b DEF Postgres, LevelDB
<1>4. CASE \E w \in Workers: Postgres(WorkerStep(w)) BY <1>4, <1>a DEF Postgres
<1>5. CASE Postgres(Evict) \/ Postgres(ReaderStep) \/ Postgres(Close) \/ Postgres(StopWorker) BY <1>5, <1>a DEF Postgres
<1>6. CASE LevelDB(DeleteIndex) \/ LevelDB(ListByNonce) \/ LevelDB(ListCleansUp) BY <1>6, <1>b DEF LevelDB
<1>7. CASE Crash
  <2>1. setup' = setup BY <1>7 DEF Crash
  <2>2. setup.store = "postgres" => WriterReplies' BY <1>0, <1>7, CrashReplies DEF RepliesInv
  <2>3. setup.store = "leveldb" => LdbReplies' BY <1>0, <1>7, LdbCrashReplies DEF RepliesInv
  <2> QED BY <2>1, <2>2, <2>3 DEF RepliesInv
<1>8. CASE \E t \in Txs: Submit(t) /\ UNCHANGED <<writerVars, ldbVars>>
  <2>1. UNCHANGED <<setup, rows, out, deleted, queue, wk, ins>> BY <1>8 DEF Submit, writerVars, ldbVars
  <2> QED BY <1>0, <2>1, RepliesFrame
<1>9. CASE UNCHANGED vars
  <2>1. UNCHANGED <<setup, rows, out, deleted, queue, wk, ins>> BY <1>9 DEF vars, storeVars, writerVars, ldbVars
  <2> QED BY <1>0, <2>1, RepliesFrame
<1> QED BY <1>2, <1>3, <1>4, <1>5, <1>6, <1>7, <1>8, <1>9 DEF Next

\* queue, runBatch and writeTransactionLocked: what a request is told is what
\* happened.  Without deletes, a transaction reported as inserted is stored and was
\* inserted by that request alone; and a stored one was not refused to everybody.
THEOREM RepliesCorrect == Spec => []RepliesTrue
<1>1. StoreInv /\ RepliesInv => RepliesTrue
  <2> SUFFICES ASSUME StoreInv, RepliesInv, NEW t \in Txs
               PROVE  /\ Told(t, {"ok"}) # {} /\ deleted = {} => Exists(t) /\ Cardinality(Told(t, {"ok"})) = 1
                      /\ Exists(t) => Told(t, {"ok", "waiting", "late", "lost"}) # {}
    BY DEF RepliesTrue
  <2>0. setup \in Setups /\ setup.store \in {"postgres", "leveldb"} BY SetupsAssumption DEF StoreInv, ShapeOK, CommonOK
  <2>1. \A outcomes: Told(t, outcomes) = {p \in Places: TxOf(p) = t /\ Outcome(p) \in outcomes}
    <3>1. \A r \in Requests: Size(r) \in Nat BY <2>0, SetupOK
    <3>2. UNION {{r} \X (1..Size(r)): r \in Requests} = Places
      <4>1. ASSUME NEW p \in UNION {{r} \X (1..Size(r)): r \in Requests} PROVE p \in Places
        <5>1. PICK r \in Requests: p \in {r} \X (1..Size(r)) BY <4>1
        <5>2. PICK i \in 1..Size(r): p = <<r, i>> BY <5>1
        <5> QED BY <2>0, <5>2, PlaceOf
      <4>2. ASSUME NEW p \in Places PROVE p \in UNION {{r} \X (1..Size(r)): r \in Requests}
        <5>1. p = <<p[1], p[2]>> /\ p[1] \in Requests /\ p[2] \in 1..Size(p[1]) BY <2>0, PlaceOf
        <5>2. p \in {p[1]} \X (1..Size(p[1])) BY <5>1
        <5> QED BY <5>1, <5>2
      <4> QED BY <4>1, <4>2
    <3> QED BY <3>2 DEF Told, TxOf, Outcome
  <2>2. deleted = {} => \A p \in Places: Outcome(p) = "ok" =>
          Exists(TxOf(p)) /\ \A q \in Places: Outcome(q) = "ok" /\ TxOf(q) = TxOf(p) => q = p
    BY <2>0 DEF RepliesInv, WriterReplies, LdbReplies, Inserted
  <2>3. Exists(t) => \E p \in Places: TxOf(p) = t /\ Outcome(p) \in {"ok", "waiting", "late", "lost"}
    BY <2>0 DEF RepliesInv, WriterReplies, LdbReplies, Vouches
  <2>4. ASSUME Told(t, {"ok"}) # {}, deleted = {} PROVE Exists(t) /\ Cardinality(Told(t, {"ok"})) = 1
    <3>1. PICK p \in Places: TxOf(p) = t /\ Outcome(p) = "ok" BY <2>1, <2>4
    <3>2. Exists(t) /\ \A q \in Places: TxOf(q) = t /\ Outcome(q) = "ok" => q = p BY <2>2, <2>4, <3>1
    <3>3. Told(t, {"ok"}) = {p} BY <2>1, <3>1, <3>2
    <3> QED BY <3>2, <3>3, FS_Singleton
  <2> QED BY <2>1, <2>3, <2>4
<1>2. Spec => [](StoreInv /\ RepliesInv) BY StoreInitially, StoreNext, RepliesInit, RepliesNext, PTL DEF Spec
<1> QED BY <1>1, <1>2, PTL
=============================================================================
