-------------------------- MODULE TransactionStore --------------------------
(***************************************************************************)
(* What the two transaction stores (internal/persistence/postgres, as      *)
(* TransactionWriter.tla, and internal/persistence/leveldb, as             *)
(* LevelDBStore.tla) have in common: the transaction records, the insert   *)
(* requests of the API and the node that is asked for the next nonce of a  *)
(* signer.  A request inserts one transaction (InsertTransactionWith-      *)
(* NextNonce) or several (InsertTransactionsWithNextNonce).                *)
(***************************************************************************)
EXTENDS Integers, FiniteSets, SequencesExt

CONSTANTS
    Setups,       \* which store, and what is asked of it: see SetupsAssumption
    Requests,     \* insert requests
    Txs,          \* transaction IDs
    Signers,
    SignerOf      \* [Txs -> Signers]

ASSUME SignerAssumption == SignerOf \in [Txs -> Signers]
ASSUME SetupsAssumption ==
    \A s \in Setups:
        /\ s.store \in {"postgres", "leveldb"}
        /\ DOMAIN s.inserts = Requests      \* what each request inserts
        /\ \A r \in Requests: s.inserts[r].txs \in Seq(Txs) /\ s.inserts[r].batch \in BOOLEAN
        /\ s.kinds \subseteq {"update", "delete", "receipt", "confirmation", "history"}
        /\ s.reads \in BOOLEAN             \* whether somebody polls the completions
        /\ s.submits \in BOOLEAN           \* whether the transactions reach the node
        /\ s.ops \in Nat /\ s.trouble \in Nat

VARIABLES
    setup,
    rows,         \* the stored transaction records
    out,          \* what each request was told, for each of its transactions
    node,         \* the next nonce the node has for a signer
    submitted,    \* history: <<signer, nonce, transaction>> given to the node
    deleted,      \* history: <<signer, nonce>> of deleted records
    bounds        \* operations and troubles still to come

storeVars == <<setup, rows, out, node, submitted, deleted>>

NoRow == [nonce |-> -1, status |-> "None", hash |-> FALSE]
NewRow(n) == [nonce |-> n, status |-> "Pending", hash |-> FALSE]
Exists(t) == rows[t] # NoRow
Stored(s) == {t \in Txs: Exists(t) /\ SignerOf[t] = s}

TxAt(r, i) == setup.inserts[r].txs[i]
Size(r) == Len(setup.inserts[r].txs)

CountOp == bounds.ops > 0 /\ bounds' = [bounds EXCEPT !.ops = @ - 1]
Trouble == bounds.trouble > 0 /\ bounds' = [bounds EXCEPT !.trouble = @ - 1]

StoreInit ==
    /\ setup \in Setups
    /\ rows = [t \in Txs |-> NoRow]
    /\ out = [r \in Requests |-> [i \in 1..Size(r) |-> "idle"]]
    /\ node = [s \in Signers |-> 0]
    /\ submitted = {} /\ deleted = {}
    /\ bounds = [ops |-> setup.ops, trouble |-> setup.trouble]

\* The node takes a stored transaction whose nonce is next.
Submit(t) ==
    LET s == SignerOf[t]
    IN  /\ setup.submits /\ Exists(t) /\ rows[t].nonce = node[s]
        /\ node' = [node EXCEPT ![s] = @ + 1]
        /\ submitted' = submitted \cup {<<s, rows[t].nonce, t>>}
        /\ UNCHANGED <<setup, rows, out, deleted, bounds>>

\* Requests that were waiting when the process died are never told.
Forgotten == [r \in Requests |-> [i \in 1..Size(r) |-> IF out[r][i] = "waiting" THEN "lost" ELSE out[r][i]]]

StoreTypeOK ==
    /\ setup \in Setups
    /\ rows \in [Txs -> [nonce: Int, status: {"None", "Pending", "Succeeded"}, hash: BOOLEAN]]
    /\ \A r \in Requests: \A i \in 1..Size(r):
         out[r][i] \in {"idle", "waiting", "late", "ok", "conflict", "error", "lost"}
    /\ node \in [Signers -> Nat]
=============================================================================
