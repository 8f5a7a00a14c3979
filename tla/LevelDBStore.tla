---------------------------- MODULE LevelDBStore ----------------------------
(***************************************************************************)
(* The LevelDB store, as far as inserting transactions with the next nonce *)
(* is concerned: the nonce lock of each signer, txMux, and the nonce index *)
(* records, which are written before and deleted after the transaction     *)
(* record they point to.  What is done under the read lock of txMux is one *)
(* step: nobody writes meanwhile.                                          *)
(***************************************************************************)
EXTENDS TransactionStore

NoRequest == "no request"

ASSUME RequestAssumption == NoRequest \notin Requests

VARIABLES
    idx,        \* the nonce index: the set of <<signer, nonce, transaction>>
    locked,     \* lockedNonces: the request that has locked the nonce of a signer
    mux,        \* the request holding txMux for writing across steps
    ins,        \* what each request is doing
    del,        \* DeleteTransaction: the index record still to delete, or NoKey
    lister,     \* a listing by nonce: the orphaned keys it has found, or NoKey
    lost        \* history: <<signer, nonce>> whose index record was deleted from under a live transaction

ldbVars == <<idx, locked, mux, ins, del, lister, lost>>

NoKey == <<"none", -1>>
IdleInsert == [pc |-> "idle", i |-> 1, last |-> -1, nonce |-> -1, orphans |-> {}]

LdbInit ==
    /\ idx = {} /\ lost = {}
    /\ locked = [s \in Signers |-> NoRequest] /\ mux = NoRequest
    /\ ins = [r \in Requests |-> IdleInsert]
    /\ del = NoKey /\ lister = {}

-----------------------------------------------------------------------------
(* The index.                                                              *)

\* listTransactionsByIndexLocked with limit 1, descending: the highest record
\* whose transaction is there, and the orphaned keys met on the way.  The nonce
\* is the one in the transaction.
Resolved(s) == {e \in idx: e[1] = s /\ Exists(e[3])}
LastEntry(s) == CHOOSE e \in Resolved(s): \A f \in Resolved(s): f[2] <= e[2]
LastNonce(s) == IF Resolved(s) = {} THEN -1 ELSE rows[LastEntry(s)[3]].nonce
Orphans(s) == {<<s, e[2]>>: e \in {x \in idx: x[1] = s /\ \A f \in Resolved(s): f[2] < x[2]}}

\* deleteKeys: whatever the key points to by now.
DeleteKeys(keys) ==
    /\ idx' = {e \in idx: <<e[1], e[2]>> \notin keys}
    /\ lost' = lost \cup {<<e[1], e[2]>>: e \in {x \in idx: <<x[1], x[2]>> \in keys /\ Exists(x[3])}}

\* txMux is free, or this request has it.
Unlocked(r) == mux \in {NoRequest, r}

-----------------------------------------------------------------------------
(* The inserts.                                                            *)

Goto(r, pc) == ins' = [ins EXCEPT ![r].pc = pc]
Current(r) == TxAt(r, ins[r].i)

\* InsertTransactionWithNextNonce starts with the nonce,
\* InsertTransactionsWithNextNonce with the write lock, which it keeps.
BeginInsert(r) ==
    /\ ins[r].pc = "idle" /\ Size(r) > 0
    /\ IF setup.inserts[r].batch THEN mux = NoRequest /\ mux' = r ELSE UNCHANGED mux
    /\ Goto(r, "assign")
    /\ out' = [out EXCEPT ![r] = [i \in 1..Size(r) |-> "waiting"]]
    /\ UNCHANGED <<setup, rows, node, submitted, deleted, idx, locked, del, lister, lost, bounds>>

\* Mutant of AssignAndLockNonce: a nonce that is locked is assigned again.
AssignNonce(r) ==
    /\ ins[r].pc = "assign"
    /\ locked' = [locked EXCEPT ![SignerOf[Current(r)]] = r]
    /\ Goto(r, "list")
    /\ UNCHANGED <<storeVars, idx, mux, del, lister, lost, bounds>>

\* assignAndLockNonceWithCalc: wait until the nonce of the signer is not locked.
AssignAndLockNonce(r) ==
    LET s == SignerOf[Current(r)]
    IN  /\ ins[r].pc = "assign" /\ locked[s] = NoRequest
        /\ locked' = [locked EXCEPT ![s] = r]
        /\ Goto(r, "list")
        /\ UNCHANGED <<storeVars, idx, mux, del, lister, lost, bounds>>

\* calcNextNonce and calcNextNonceLocked: look for the last transaction of the
\* signer.  With the write lock the orphaned keys go at once; without, the read
\* lock is dropped first.
CalcNextNonce(r) ==
    LET s == SignerOf[Current(r)]
        now == [ins[r] EXCEPT !.last = LastNonce(s), !.pc = "nonce"]
    IN  /\ ins[r].pc = "list" /\ Unlocked(r)
        /\ IF mux = r \/ Orphans(s) = {}
           THEN DeleteKeys(Orphans(s)) /\ ins' = [ins EXCEPT ![r] = now]
           ELSE UNCHANGED <<idx, lost>> /\ ins' = [ins EXCEPT ![r] = [now EXCEPT !.pc = "clean", !.orphans = Orphans(s)]]
        /\ UNCHANGED <<storeVars, locked, mux, del, lister, bounds>>

\* cleanupOrphanedTXIdxKeys.
CleanupOrphans(r) ==
    /\ ins[r].pc = "clean" /\ mux = NoRequest
    /\ DeleteKeys(ins[r].orphans)
    /\ ins' = [ins EXCEPT ![r].pc = "nonce", ![r].orphans = {}]
    /\ UNCHANGED <<storeVars, locked, mux, del, lister, bounds>>

\* calcNextNonceFromTxs: a fresh record is trusted, a stale one (or none) has
\* the node asked as well.
NextNonce(last, fresh, queried) ==
    IF last # -1 /\ fresh THEN last + 1
    ELSE IF queried <= last THEN last + 1 ELSE queried

CalcNextNonceFromTxs(r) ==
    /\ ins[r].pc = "nonce"
    /\ \E fresh \in BOOLEAN:
         ins' = [ins EXCEPT ![r].pc = "write",
                            ![r].nonce = NextNonce(ins[r].last, fresh, node[SignerOf[Current(r)]])]
    /\ UNCHANGED <<storeVars, idx, locked, mux, del, lister, lost, bounds>>

\* The outcomes of writeTransactionLocked: a write may fail before the index
\* record, or between it and the transaction record.
WriteOutcomes(t) ==
    IF Exists(t) THEN {"conflict"} ELSE IF bounds.trouble > 0 THEN {"ok", "early", "orphan"} ELSE {"ok"}

\* writeTransactionLocked, under the write lock.
WriteTransaction(r) ==
    LET t == Current(r)
        s == SignerOf[t]
        n == ins[r].nonce
        written == {e \in idx: <<e[1], e[2]>> # <<s, n>>} \cup {<<s, n, t>>}
    IN  /\ ins[r].pc = "write" /\ Unlocked(r)
        /\ \E o \in WriteOutcomes(t):
             /\ idx' = IF o \in {"ok", "orphan"} THEN written ELSE idx
             /\ rows' = IF o = "ok" THEN [rows EXCEPT ![t] = NewRow(n)] ELSE rows
             /\ out' = [out EXCEPT ![r][ins[r].i] = IF o \in {"early", "orphan"} THEN "error" ELSE o]
             /\ IF o \in {"ok", "conflict"} THEN UNCHANGED bounds ELSE Trouble
        /\ Goto(r, "complete")
        /\ UNCHANGED <<setup, node, submitted, deleted, locked, mux, del, lister, lost>>

\* lockedNonce.complete, and on to the next transaction of the request.
Complete(r) ==
    LET s == SignerOf[Current(r)]
        done == ins[r].i = Size(r)
    IN  /\ ins[r].pc = "complete"
        /\ locked' = [locked EXCEPT ![s] = NoRequest]
        /\ ins' = [ins EXCEPT ![r] = [IdleInsert EXCEPT !.pc = IF done THEN "done" ELSE "assign",
                                                       !.i = IF done THEN @ ELSE ins[r].i + 1]]
        /\ mux' = IF done /\ mux = r THEN NoRequest ELSE mux
        /\ UNCHANGED <<storeVars, idx, del, lister, lost, bounds>>

-----------------------------------------------------------------------------
(* Others: deletes and listings.                                           *)

\* DeleteTransaction, without any lock: the record first ...
DeleteTransaction(t) ==
    /\ Exists(t) /\ del = NoKey
    /\ rows' = [rows EXCEPT ![t] = NoRow]
    /\ del' = <<SignerOf[t], rows[t].nonce>>
    /\ deleted' = deleted \cup {del'}
    /\ CountOp
    /\ UNCHANGED <<setup, out, node, submitted, idx, locked, mux, ins, lister, lost>>

\* ... and then its index records.
DeleteIndex ==
    /\ del # NoKey
    /\ DeleteKeys({del})
    /\ del' = NoKey
    /\ UNCHANGED <<storeVars, locked, mux, ins, lister, bounds>>

\* listTransactionsByIndex, for a client: the read lock is dropped before the
\* orphaned keys are deleted.
ListByNonce ==
    /\ lister = {} /\ mux = NoRequest
    /\ \E s \in Signers: Orphans(s) # {} /\ lister' = Orphans(s)
    /\ CountOp
    /\ UNCHANGED <<storeVars, idx, locked, mux, ins, del, lost>>

ListCleansUp ==
    /\ lister # {} /\ mux = NoRequest
    /\ DeleteKeys(lister)
    /\ lister' = {}
    /\ UNCHANGED <<storeVars, locked, mux, ins, del, bounds>>

\* What a restart leaves of the store.
LdbRestarts ==
    /\ locked' = [s \in Signers |-> NoRequest] /\ mux' = NoRequest
    /\ ins' = [r \in Requests |-> IF ins[r].pc \in {"idle", "done"} THEN ins[r] ELSE [IdleInsert EXCEPT !.pc = "done"]]
    /\ del' = NoKey /\ lister' = {}
    /\ UNCHANGED <<idx, lost>>

InsertStep(r) ==
    \/ AssignAndLockNonce(r) \/ CalcNextNonce(r) \/ CleanupOrphans(r)
    \/ CalcNextNonceFromTxs(r) \/ WriteTransaction(r) \/ Complete(r)
=============================================================================
