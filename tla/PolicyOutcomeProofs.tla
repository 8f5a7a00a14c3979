------------------------ MODULE PolicyOutcomeProofs ------------------------
(***************************************************************************)
(* What becomes of a transaction in the policy loop, for every set of      *)
(* transactions, requests and hashes: it is never reported as a success by *)
(* mistake, gets the outcome and the receipt the chain gave it, one reply, *)
(* the life TxLifecycle promises, and a place in the in-flight set.        *)
(***************************************************************************)
EXTENDS PolicyLoopProofs, WellFoundedInduction

(***************************************************************************)
(* Successes                                                               *)
(***************************************************************************)

Submitting(t) == ins[t] \in {"new", "inserting"}

\* The confirmation manager has delivered what the chain made of t. In light mode
\* what it delivered may be out of date.
Delivered(t) ==
    /\ ChainTrackingMode = "full"
    /\ chain[t].final \/ \E h \in Hashes : bcm[t][h] \in {"ok", "fail"}

\* The row of t, if there is one, has receipt r; Postgres may have lost it.
Stored(t, r) == Store = "postgres" \/ db[t].status = "None" \/ db[t].receipt = r

\* In full mode what the confirmation manager last reported of a hash is what the
\* chain has made of it: a reorganisation takes the report back.
ReportsCurrent ==
    \A t \in Txs, h \in Hashes : ChainTrackingMode = "full" /\ bcm[t][h] \in {"ok", "fail"} =>
        chain[t].mined = h /\ chain[t].outcome = bcm[t][h]

\* An in-flight record has no receipt but the one delivered last, is confirmed
\* only when the chain is final, and its receipt is stored or waits to be.
RecordsCurrent ==
    \A t \in inflight :
        /\ Delivered(t) => pend[t].receipt \in {"none", chain[t].outcome}
        /\ pend[t].confirmed => chain[t].final
        /\ pend[t].receiptNotify => pend[t].receipt # "none"
        /\ pend[t].receipt # "none" /\ ~pend[t].receiptNotify => Stored(t, pend[t].receipt)

\* A transaction that is still being submitted is unknown to store and loop.
SubmittingUnknown ==
    \A t \in Txs : Submitting(t) =>
        db[t].status = "None" /\ ~db[t].listed /\ t \notin inflight

\* The execution in progress decides by a receipt that is stored, and the status
\* it is about to write is Succeeded only by such a receipt. In full mode it is the
\* one of the final block.
DecisionSound ==
    /\ pc \in {"process", "flush"} => ~Submitting(run.tx)
    /\ pc = "process" =>
        /\ "status" \notin run.fields
        /\ run.confirmed =>
             /\ chain[run.tx].final
             /\ ChainTrackingMode = "full" => run.receipt \in {"none", chain[run.tx].outcome}
             /\ run.receipt # "none" => Stored(run.tx, run.receipt)
    /\ pc = "flush" /\ "status" \in run.fields /\ pend[run.tx].status = "Succeeded" =>
        /\ chain[run.tx].final /\ (ChainTrackingMode = "full" => chain[run.tx].outcome = "ok")
        /\ Stored(run.tx, "ok")

\* The part of the invariant that does not mention the execution in progress.
DataInv == /\ SuccessIsFinal /\ ReportsCurrent /\ RecordsCurrent /\ SubmittingUnknown
           /\ todo \subseteq inflight

SuccessInv == TypeInv /\ ChainOK /\ DataInv /\ DecisionSound

-----------------------------------------------------------------------------
(* What a step must leave alone for the invariant to survive it *)

DbSame == \A t \in Txs : /\ db'[t].status = db[t].status /\ db'[t].receipt = db[t].receipt
                         /\ db'[t].listed => db[t].listed

RecordsSame == \A t \in inflight : /\ pend'[t].receipt = pend[t].receipt
                                   /\ pend'[t].confirmed = pend[t].confirmed
                                   /\ pend'[t].receiptNotify = pend[t].receiptNotify

ChainSame == \A t \in Txs : /\ chain'[t].mined = chain[t].mined
                            /\ chain'[t].outcome = chain[t].outcome
                            /\ chain'[t].final = chain[t].final

SubmittingShrinks == \A t \in Txs : ins'[t] \in {"new", "inserting"} => Submitting(t)

\* A step that changes none of what DataInv reads preserves it.
LEMMA DataKept ==
    ASSUME TypeInv, DataInv, DbSame, RecordsSame, ChainSame, SubmittingShrinks,
           bcm' = bcm, inflight' = inflight, todo' \subseteq inflight
    PROVE  DataInv'
<1>0. inflight \subseteq Txs
  BY DEF TypeInv, TypeOK
<1>1. SuccessIsFinal'
  BY DEF DataInv, SuccessIsFinal, DbSame, ChainSame
<1>2. ReportsCurrent'
  BY DEF DataInv, ReportsCurrent, ChainSame
<1>3. RecordsCurrent'
  BY <1>0 DEF DataInv, RecordsCurrent, Delivered, Stored, DbSame, RecordsSame, ChainSame
<1>4. SubmittingUnknown'
  BY DEF DataInv, SubmittingUnknown, Submitting, SubmittingShrinks, DbSame
<1> QED BY <1>1, <1>2, <1>3, <1>4 DEF DataInv

\* The execution in progress is not disturbed by a step of another goroutine
\* that leaves its row, its record's status and the chain alone.
LEMMA DecisionKept ==
    ASSUME TypeInv, DecisionSound, DbSame, ChainSame, SubmittingShrinks,
           pc' = pc, run' = run, \A t \in Txs : pend'[t].status = pend[t].status
    PROVE  DecisionSound'
<1>1. pc \in {"process", "flush"} => run.tx \in Txs
  BY DEF TypeInv, RunOK
<1>2. pc \in {"process", "flush"} =>
         ~Submitting(run.tx)' /\ chain'[run.tx].final = chain[run.tx].final
         /\ chain'[run.tx].outcome = chain[run.tx].outcome
         /\ (\A r : Stored(run.tx, r) => Stored(run.tx, r)')
         /\ pend'[run.tx].status = pend[run.tx].status
  BY <1>1 DEF DecisionSound, Submitting, SubmittingShrinks, DbSame, ChainSame, Stored
<1> QED BY <1>2 DEF DecisionSound

\* Between executions there is nothing to decide.
LEMMA DecisionNone ==
    ASSUME pc' \notin {"process", "flush"}
    PROVE  DecisionSound'
BY DEF DecisionSound

LEMMA InitSuccess == Init => SuccessInv
<1> SUFFICES ASSUME Init PROVE SuccessInv OBVIOUS
<1>1. TypeInv /\ ChainOK
  BY InitType DEF Init, ChainOK
<1>2. DataInv
  BY DEF Init, DataInv, SuccessIsFinal, ReportsCurrent, RecordsCurrent, SubmittingUnknown, NoRow
<1>3. DecisionSound
  BY DEF Init, DecisionSound
<1> QED BY <1>1, <1>2, <1>3 DEF SuccessInv

-----------------------------------------------------------------------------
(* The goroutines of the API *)

LEMMA SuccessApi ==
    ASSUME SuccessInv,
           (\E t \in Txs : Insert(t) /\ ~InsertCommit(t)) \/ (\E r \in Reqs : ApiRequest(r))
    PROVE  DataInv' /\ DecisionSound'
<1>0. TypeInv /\ DataInv /\ DecisionSound /\ todo \subseteq inflight
  BY DEF SuccessInv, DataInv
<1>1. UNCHANGED <<db, inflight, pend, todo, pc, run, chain, bcm>>
  <2>1. CASE \E t \in Txs : Insert(t) /\ ~InsertCommit(t)
    BY <2>1 DEF Insert, InsertBegin, InsertFail, InsertHistoryFail, InsertMarkStale,
                InsertMarkUpdate, storeVars, memVars, apiVars, loopVars, envVars
  <2>2. CASE \E r \in Reqs : ApiRequest(r)
    BY <2>2 DEF ApiRequest, RequestQueue, RequestWait, RequestTimeout, storeVars, memVars, apiVars, loopVars, envVars
  <2> QED BY <2>1, <2>2
<1>2. SubmittingShrinks
  <2>0. ins \in [Txs -> {"new", "inserting", "inserted", "marked", "done", "failed"}]
    BY <1>0 DEF TypeInv, TypeOK
  <2>1. CASE \E t \in Txs : Insert(t) /\ ~InsertCommit(t)
    BY <2>0, <2>1 DEF Insert, InsertBegin, InsertFail, InsertHistoryFail, InsertMarkStale,
                InsertMarkUpdate, SubmittingShrinks, Submitting
  <2>2. CASE \E r \in Reqs : ApiRequest(r)
    BY <2>2 DEF ApiRequest, RequestQueue, RequestWait, RequestTimeout, SubmittingShrinks, Submitting
  <2> QED BY <2>1, <2>2
<1>3. DbSame /\ RecordsSame /\ ChainSame
  BY <1>1 DEF DbSame, RecordsSame, ChainSame
<1> QED BY <1>0, <1>1, <1>2, <1>3, DataKept, DecisionKept

LEMMA SuccessInsertCommit ==
    ASSUME SuccessInv, NEW t \in Txs, InsertCommit(t)
    PROVE  DataInv' /\ DecisionSound'
<1>0. TypeInv /\ DataInv /\ DecisionSound
  BY DEF SuccessInv
<1>1. /\ db \in [Txs -> Row] /\ inflight \subseteq Txs
      /\ ins \in [Txs -> {"new", "inserting", "inserted", "marked", "done", "failed"}]
      /\ pc \in {"process", "flush"} => run.tx \in Txs
  BY <1>0 DEF TypeInv, TypeOK, RunOK
<1>2. /\ ins[t] = "inserting" /\ ins' = [ins EXCEPT ![t] = "inserted"]
      /\ db' = [db EXCEPT ![t] = [NoRow EXCEPT !.status = "Pending", !.listed = TRUE]]
      /\ UNCHANGED <<inflight, pend, todo, pc, run, chain, bcm>>
  BY DEF InsertCommit, storeVars, memVars, apiVars, loopVars, envVars
<1>3. t \notin inflight /\ (pc \in {"process", "flush"} => run.tx # t)
  BY <1>0, <1>2 DEF DataInv, SubmittingUnknown, DecisionSound, Submitting
<1>4. db'[t].status = "Pending" /\ \A u \in Txs \ {t} : db'[u] = db[u] /\ ins'[u] = ins[u]
  BY <1>1, <1>2 DEF NoRow
<1>5. SuccessIsFinal'
  BY <1>0, <1>2, <1>4 DEF DataInv, SuccessIsFinal
<1>6. ReportsCurrent'
  BY <1>0, <1>2 DEF DataInv, ReportsCurrent
<1>7. RecordsCurrent'
  BY <1>0, <1>1, <1>2, <1>3, <1>4 DEF DataInv, RecordsCurrent, Delivered, Stored
<1>8. SubmittingUnknown'
  BY <1>0, <1>1, <1>2, <1>4 DEF DataInv, SubmittingUnknown, Submitting
<1>9. DecisionSound'
  BY <1>0, <1>1, <1>2, <1>3, <1>4 DEF DecisionSound, Submitting, Stored
<1>10. (todo \subseteq inflight)'
  BY <1>0, <1>2 DEF DataInv
<1> QED BY <1>5, <1>6, <1>7, <1>8, <1>9, <1>10 DEF DataInv

-----------------------------------------------------------------------------
(* The policy loop *)

\* Steps of the loop that only move it between executions.
LEMMA SuccessBetween ==
    ASSUME SuccessInv,
           \/ BeginCycle \/ SkipInflightSet \/ EndCycle \/ ProcessPanic \/ FlushNone
           \/ FlushFail \/ Emit
    PROVE  DataInv' /\ DecisionSound'
<1>0. TypeInv /\ DataInv /\ DecisionSound /\ todo \subseteq inflight
  BY DEF SuccessInv, DataInv
<1>1. UNCHANGED <<inflight, pend, chain, bcm, ins>> /\ todo' \subseteq inflight
  BY <1>0 DEF BeginCycle, SkipInflightSet, EndCycle, ProcessPanic, FlushNone, FlushFail, Emit, storeVars, memVars, apiVars, loopVars, envVars
<1>2. pc' \notin {"process", "flush"}
  BY DEF BeginCycle, SkipInflightSet, EndCycle, ProcessPanic, FlushNone, FlushFail, Emit, AfterExec
<1>3. db' = db \/ (db' = [db EXCEPT ![run.tx].listed = FALSE] /\ pc = "flush")
  BY Zenon DEF BeginCycle, SkipInflightSet, EndCycle, ProcessPanic, FlushNone, FlushFail, Emit, storeVars
<1>4. DbSame
  <2>1. db \in [Txs -> Row] /\ (pc = "flush" => run.tx \in Txs)
    BY <1>0 DEF TypeInv, TypeOK, RunOK
  <2> QED BY <1>3, <2>1 DEF DbSame, Row
<1>5. RecordsSame /\ ChainSame /\ SubmittingShrinks
  BY <1>1 DEF RecordsSame, ChainSame, SubmittingShrinks, Submitting
<1> QED BY <1>0, <1>1, <1>2, <1>4, <1>5, DataKept, DecisionNone

LEMMA SuccessRespond ==
    ASSUME SuccessInv, NEW r \in Reqs, Respond(r)
    PROVE  DataInv' /\ DecisionSound'
<1>0. TypeInv /\ DataInv /\ DecisionSound /\ todo \subseteq inflight
  BY DEF SuccessInv, DataInv
<1>1. /\ UNCHANGED <<inflight, chain, bcm, ins, db, todo>>
      /\ pc' \notin {"process", "flush"}
      /\ pend' = IF run.tx \in inflight THEN pend ELSE [pend EXCEPT ![run.tx] = NoPending]
  BY DEF Respond, storeVars, memVars, apiVars, loopVars, envVars
<1>2. RecordsSame
  <2>1. pend \in [Txs -> Pending] /\ inflight \subseteq Txs
    BY <1>0 DEF TypeInv, TypeOK
  <2> QED BY <1>1, <2>1 DEF RecordsSame
<1>3. DbSame /\ ChainSame /\ SubmittingShrinks
  BY <1>1 DEF DbSame, ChainSame, SubmittingShrinks, Submitting
<1> QED BY <1>0, <1>1, <1>2, <1>3, DataKept, DecisionNone

LEMMA SuccessUpdateInflightSet ==
    ASSUME SuccessInv, UpdateInflightSet
    PROVE  DataInv' /\ DecisionSound'
<1>0. TypeInv /\ DataInv
  BY DEF SuccessInv
<1>1. db \in [Txs -> Row] /\ inflight \subseteq Txs
  BY <1>0 DEF TypeInv, TypeOK
<1>2. /\ UNCHANGED <<db, ins, chain, bcm>> /\ pc' = "cycle"
      /\ inflight' = Kept \cup Polled /\ todo' = Kept \cup Polled
  BY DEF UpdateInflightSet, storeVars, memVars, apiVars, loopVars, envVars
<1>3. Kept \subseteq inflight /\ Polled \subseteq Txs /\ \A t \in Polled : db[t].listed
  BY DEF Kept, Polled, Candidates
<1>4. /\ \A t \in Kept : pend'[t] = pend[t]
      /\ \A t \in Polled \ Kept : pend'[t] = NewPending(db[t], TRUE)
  <2>1. pend' = [t \in Txs |-> CASE t \in Kept -> pend[t]
                                [] t \in Polled -> NewPending(db[t], TRUE)
                                [] OTHER -> NoPending]
    BY DEF UpdateInflightSet
  <2>2. \A t \in Kept : t \notin Polled
    <3>1. seq \in [Txs -> Nat]
      BY <1>0 DEF TypeInv, TypeOK
    <3> QED BY <1>1, <1>3, <3>1 DEF Polled, Candidates
  <2> QED BY <1>1, <1>3, <2>1, <2>2
<1>5. \A t \in Polled \ Kept : /\ pend'[t].receipt = "none" /\ ~pend'[t].confirmed
                               /\ ~pend'[t].receiptNotify
  <2>1. \A row : /\ NewPending(row, TRUE).receipt = "none" /\ ~NewPending(row, TRUE).confirmed
                 /\ ~NewPending(row, TRUE).receiptNotify
    BY DEF NewPending
  <2> QED BY <1>4, <2>1
<1>6. SuccessIsFinal' /\ ReportsCurrent'
  BY <1>0, <1>2 DEF DataInv, SuccessIsFinal, ReportsCurrent
<1>7. RecordsCurrent'
  <2> SUFFICES ASSUME NEW t \in Kept \cup Polled
               PROVE  /\ Delivered(t)' => pend'[t].receipt \in {"none", chain'[t].outcome}
                      /\ pend'[t].confirmed => chain'[t].final
                      /\ pend'[t].receiptNotify => pend'[t].receipt # "none"
                      /\ pend'[t].receipt # "none" /\ ~pend'[t].receiptNotify
                           => Stored(t, pend[t].receipt)'
    BY <1>2 DEF RecordsCurrent
  <2>1. CASE t \in Kept
    BY <1>0, <1>2, <1>3, <1>4, <2>1 DEF DataInv, RecordsCurrent, Delivered, Stored
  <2>2. CASE t \notin Kept
    BY <1>5, <2>2
  <2> QED BY <2>1, <2>2
<1>8. SubmittingUnknown'
  BY <1>0, <1>1, <1>2, <1>3 DEF DataInv, SubmittingUnknown, Submitting
<1>9. DecisionSound'
  BY <1>2, DecisionNone
<1> QED BY <1>2, <1>6, <1>7, <1>8, <1>9 DEF DataInv

\* A record keeps everything but its notifications and a requested deletion.
LEMMA ClearKeeps ==
    ASSUME NEW x \in Pending, NEW d \in BOOLEAN
    PROVE  LET y == [x EXCEPT !.del = d]
               z == [y EXCEPT !.receiptNotify = FALSE, !.confirmNotify = FALSE]
               w == [y EXCEPT !.receiptNotify = FALSE]
           IN /\ y.receipt = x.receipt /\ y.confirmed = x.confirmed
              /\ y.receiptNotify = x.receiptNotify
              /\ z.receipt = x.receipt /\ z.confirmed = x.confirmed /\ ~z.receiptNotify
              /\ w.receipt = x.receipt /\ w.confirmed = x.confirmed /\ ~w.receiptNotify
<1> DEFINE y == [x EXCEPT !.del = d]
           z == [y EXCEPT !.receiptNotify = FALSE, !.confirmNotify = FALSE]
           w == [y EXCEPT !.receiptNotify = FALSE]
<1>1. /\ y \in Pending /\ y.receipt = x.receipt /\ y.confirmed = x.confirmed
      /\ y.receiptNotify = x.receiptNotify
  BY DEF Pending
<1> HIDE DEF y
<1>2. z.receipt = y.receipt /\ z.confirmed = y.confirmed /\ ~z.receiptNotify
  BY <1>1 DEF Pending
<1>3. w.receipt = y.receipt /\ w.confirmed = y.confirmed /\ ~w.receiptNotify
  BY <1>1 DEF Pending
<1> QED BY <1>1, <1>2, <1>3, Zenon DEF y

\* What the snapshot does to row, record and context: a receipt that was
\* waiting to be stored is stored before its flag is cleared.
LEMMA SnapshotEffect ==
    ASSUME TypeInv, NEW t \in Txs, NEW a \in Actions \cup {NoAction},
           NEW r \in Reqs \cup {NoReq}, NEW touched \in BOOLEAN,
           PendingToRunContext(t, a, r, touched)
    PROVE  LET p == Record(t)
           IN /\ \A u \in Txs \ {t} : db'[u] = db[u] /\ pend'[u] = pend[u]
              /\ db'[t].status = db[t].status /\ db'[t].listed = db[t].listed
              /\ \/ db'[t].receipt = db[t].receipt
                 \/ p.receiptNotify /\ db'[t].receipt = p.receipt
              /\ pend'[t].receipt = p.receipt /\ pend'[t].confirmed = p.confirmed
              /\ pend'[t].receiptNotify => p.receiptNotify
              /\ p.receiptNotify /\ ~pend'[t].receiptNotify
                   => Store = "postgres" \/ db'[t].status = "None" \/ db'[t].receipt = p.receipt
              /\ pc' \in {"process", "cycle", "respond"}
              /\ pc' = "process" => ~pend'[t].receiptNotify
              /\ run'.tx = t /\ run'.receipt = p.receipt /\ run'.confirmed = p.confirmed
              /\ "status" \notin run'.fields
<1> DEFINE p == Record(t)
           del == a = "Delete" /\ ~p.del
           d == p.del \/ del
           q == [p EXCEPT !.del = d]
           z == [q EXCEPT !.receiptNotify = FALSE, !.confirmNotify = FALSE]
           w == [q EXCEPT !.receiptNotify = FALSE]
           ctx == [tx |-> t, act |-> a, req |-> r,
                   receipt |-> p.receipt, confirmed |-> p.confirmed,
                   processTx |-> del \/ touched,
                   updateType |-> IF del \/ touched THEN "Update" ELSE "None",
                   fields |-> IF del THEN {"del"} ELSE {}, completed |-> FALSE]
           stored == IF p.receiptNotify /\ db[t].status # "None"
                     THEN [db EXCEPT ![t].receipt = p.receipt] ELSE db
<1>1. db \in [Txs -> Row] /\ pend \in [Txs -> Pending]
  BY DEF TypeInv, TypeOK
<1>2. p \in Pending
  BY <1>1, NewPendingType DEF Record
<1>3. d \in BOOLEAN
  BY <1>2 DEF Pending
<1>4. /\ q.receipt = p.receipt /\ q.confirmed = p.confirmed
      /\ q.receiptNotify = p.receiptNotify
      /\ z.receipt = p.receipt /\ z.confirmed = p.confirmed /\ ~z.receiptNotify
      /\ w.receipt = p.receipt /\ w.confirmed = p.confirmed /\ ~w.receiptNotify
  <2> HIDE DEF p, d
  <2> QED BY <1>2, <1>3, ClearKeeps, Zenon
<1>5. \/ db' = stored /\ pend' = [pend EXCEPT ![t] = z] /\ pc' = "process"
      \/ Store = "postgres" /\ db' = db /\ pend' = [pend EXCEPT ![t] = z] /\ pc' = "process"
      \/ db' = db /\ pend' = [pend EXCEPT ![t] = q] /\ pc' = AfterExec(r)
      \/ db' = stored /\ pend' = [pend EXCEPT ![t] = w] /\ pc' = AfterExec(r)
  BY Zenon DEF PendingToRunContext, WriteLost
<1>6. run' = ctx
  BY Zenon DEF PendingToRunContext
<1>7. /\ run'.tx = t /\ run'.receipt = p.receipt /\ run'.confirmed = p.confirmed
      /\ "status" \notin run'.fields
  <2> HIDE DEF p, del
  <2> QED BY <1>6
<1>8. AfterExec(r) \in {"cycle", "respond"}
  BY AfterExecType
<1>9. /\ \A u \in Txs \ {t} : stored[u] = db[u]
      /\ stored[t].status = db[t].status /\ stored[t].listed = db[t].listed
      /\ \/ stored[t].receipt = db[t].receipt
         \/ p.receiptNotify /\ stored[t].receipt = p.receipt
      /\ p.receiptNotify => stored[t].status = "None" \/ stored[t].receipt = p.receipt
  <2> HIDE DEF p
  <2> QED BY <1>1 DEF Row
<1> HIDE DEF stored, z, w, q, ctx, d, del, p
<1>10. CASE db' = stored /\ pend' = [pend EXCEPT ![t] = z] /\ pc' = "process"
  <2>1. /\ \A u \in Txs \ {t} : db'[u] = db[u] /\ pend'[u] = pend[u]
        /\ pend'[t] = z
    BY <1>1, <1>9, <1>10
  <2> QED BY <1>4, <1>7, <1>9, <1>10, <2>1 DEF Stored, p
<1>11. CASE db' = db /\ pend' = [pend EXCEPT ![t] = q] /\ pc' = AfterExec(r)
  <2>1. /\ \A u \in Txs \ {t} : db'[u] = db[u] /\ pend'[u] = pend[u]
        /\ pend'[t] = q
    BY <1>1, <1>11
  <2> QED BY <1>4, <1>7, <1>8, <1>11, <2>1 DEF p
<1>12. CASE db' = stored /\ pend' = [pend EXCEPT ![t] = w] /\ pc' = AfterExec(r)
  <2>1. /\ \A u \in Txs \ {t} : db'[u] = db[u] /\ pend'[u] = pend[u]
        /\ pend'[t] = w
    BY <1>1, <1>9, <1>12
  <2> QED BY <1>4, <1>7, <1>8, <1>9, <1>12, <2>1 DEF Stored, p
<1>13. CASE Store = "postgres" /\ db' = db /\ pend' = [pend EXCEPT ![t] = z] /\ pc' = "process"
  <2>1. /\ \A u \in Txs \ {t} : db'[u] = db[u] /\ pend'[u] = pend[u]
        /\ pend'[t] = z
    BY <1>1, <1>13
  <2> QED BY <1>4, <1>7, <1>13, <2>1 DEF p
<1> QED BY <1>5, <1>10, <1>11, <1>12, <1>13

\* Taking the snapshot of a transaction that is known preserves the invariant.
LEMMA SuccessSnapshot ==
    ASSUME SuccessInv, NEW t \in Txs, NEW a \in Actions \cup {NoAction},
           NEW r \in Reqs \cup {NoReq}, NEW touched \in BOOLEAN,
           PendingToRunContext(t, a, r, touched),
           t \in inflight \/ db[t].status # "None",
           UNCHANGED <<inflight, chain, bcm, ins>>, todo' \subseteq inflight
    PROVE  DataInv' /\ DecisionSound'
<1> DEFINE p == Record(t)
<1>0. TypeInv /\ DataInv
  BY DEF SuccessInv
<1>1. inflight \subseteq Txs
  BY <1>0 DEF TypeInv, TypeOK
<1>2. /\ Delivered(t) => p.receipt \in {"none", chain[t].outcome}
      /\ p.confirmed => chain[t].final
      /\ p.receiptNotify => p.receipt # "none"
      /\ p.receipt # "none" /\ ~p.receiptNotify => Stored(t, p.receipt)
  <2>1. CASE t \in inflight
    BY <1>0, <2>1 DEF DataInv, RecordsCurrent, Record
  <2>2. CASE t \notin inflight
    <3>1. p.receipt = "none" /\ ~p.confirmed /\ ~p.receiptNotify
      BY <2>2 DEF Record, NewPending
    <3> QED BY <3>1
  <2> QED BY <2>1, <2>2
<1>3. /\ \A u \in Txs \ {t} : db'[u] = db[u] /\ pend'[u] = pend[u]
      /\ db'[t].status = db[t].status /\ db'[t].listed = db[t].listed
      /\ \/ db'[t].receipt = db[t].receipt
         \/ p.receiptNotify /\ db'[t].receipt = p.receipt
      /\ pend'[t].receipt = p.receipt /\ pend'[t].confirmed = p.confirmed
      /\ pend'[t].receiptNotify => p.receiptNotify
      /\ p.receiptNotify /\ ~pend'[t].receiptNotify
                   => Store = "postgres" \/ db'[t].status = "None" \/ db'[t].receipt = p.receipt
      /\ pc' \in {"process", "cycle", "respond"}
      /\ pc' = "process" => ~pend'[t].receiptNotify
      /\ run'.tx = t /\ run'.receipt = p.receipt /\ run'.confirmed = p.confirmed
      /\ "status" \notin run'.fields
  BY <1>0, SnapshotEffect
<1> HIDE DEF p
<1>4. p.receipt # "none" /\ ~pend'[t].receiptNotify
        => Store = "postgres" \/ db'[t].status = "None" \/ db'[t].receipt = p.receipt
  BY <1>2, <1>3 DEF Stored
<1>5. SuccessIsFinal'
  BY <1>0, <1>2, <1>3 DEF DataInv, SuccessIsFinal, Delivered
<1>6. ReportsCurrent'
  BY <1>0 DEF DataInv, ReportsCurrent
<1>7. RecordsCurrent'
  <2> SUFFICES ASSUME NEW u \in inflight
               PROVE  /\ Delivered(u)' => pend'[u].receipt \in {"none", chain'[u].outcome}
                      /\ pend'[u].confirmed => chain'[u].final
                      /\ pend'[u].receiptNotify => pend'[u].receipt # "none"
                      /\ pend'[u].receipt # "none" /\ ~pend'[u].receiptNotify
                           => Stored(u, pend[u].receipt)'
    BY DEF RecordsCurrent
  <2>0. Delivered(u)' = Delivered(u)
    BY DEF Delivered
  <2>1. CASE u = t
    BY <1>2, <1>3, <1>4, <2>0, <2>1 DEF Stored
  <2>2. CASE u # t
    BY <1>0, <1>1, <1>3, <2>0, <2>2 DEF DataInv, RecordsCurrent, Stored
  <2> QED BY <2>1, <2>2
<1>8. SubmittingUnknown'
  BY <1>0, <1>3 DEF DataInv, SubmittingUnknown, Submitting
<1>9. DecisionSound'
  <2>1. ~Submitting(t)'
    BY <1>0 DEF DataInv, SubmittingUnknown, Submitting
  <2>2. p.confirmed /\ ChainTrackingMode = "full" => p.receipt \in {"none", chain[t].outcome}
    BY <1>2 DEF Delivered
  <2> QED BY <1>2, <1>3, <1>4, <2>1, <2>2 DEF DecisionSound, Stored, Submitting
<1> QED BY <1>5, <1>6, <1>7, <1>8, <1>9 DEF DataInv

LEMMA SuccessExecRequest ==
    ASSUME SuccessInv, NEW r \in Reqs, ExecRequest(r)
    PROVE  DataInv' /\ DecisionSound'
<1>0. TypeInv /\ DataInv /\ todo \subseteq inflight
  BY DEF SuccessInv, DataInv
<1>1. UNCHANGED <<inflight, chain, bcm, ins, todo>>
  BY DEF ExecRequest, storeVars, memVars, apiVars, loopVars, envVars
<1>2. req[r].tx \in Txs /\ req[r].act \in Actions \cup {NoAction}
  <2>1. /\ req \in [Reqs -> Request] /\ batch \in Seq(Reqs) /\ batch # <<>>
        /\ r = Head(batch)
    BY <1>0 DEF TypeInv, TypeOK, ExecRequest
  <2>2. batch[1] = r /\ 1 \in 1..Len(batch)
    BY <2>1
  <2>3. req[batch[1]].state # "unused"
    BY <1>0, <2>2 DEF TypeInv, RunOK
  <2> QED BY <1>0, <2>1, <2>2, <2>3 DEF TypeInv, RunOK, Request
<1>3. CASE /\ req[r].tx \in inflight \/ db[req[r].tx].status # "None"
           /\ \E touched \in BOOLEAN : PendingToRunContext(req[r].tx, req[r].act, r, touched)
  BY <1>0, <1>1, <1>2, <1>3, SuccessSnapshot
<1>4. CASE pc' = "respond" /\ UNCHANGED <<db, pend>>
  <2>1. DbSame /\ RecordsSame /\ ChainSame /\ SubmittingShrinks
    BY <1>1, <1>4 DEF DbSame, RecordsSame, ChainSame, SubmittingShrinks, Submitting
  <2> QED BY <1>0, <1>1, <1>4, <2>1, DataKept, DecisionNone
<1> QED BY <1>3, <1>4 DEF ExecRequest

LEMMA SuccessExecInflight ==
    ASSUME SuccessInv, NEW t \in Txs, ExecInflight(t)
    PROVE  DataInv' /\ DecisionSound'
<1>1. UNCHANGED <<inflight, chain, bcm, ins>> /\ t \in todo /\ todo' = todo \ {t}
  BY DEF ExecInflight, storeVars, memVars, apiVars, loopVars, envVars
<1>2. t \in inflight /\ todo' \subseteq inflight
  BY <1>1 DEF SuccessInv, DataInv
<1>3. PendingToRunContext(t, NoAction, NoReq, FALSE)
  BY DEF ExecInflight
<1> QED BY <1>1, <1>2, <1>3, SuccessSnapshot

LEMMA SuccessExecStatus ==
    ASSUME SuccessInv, ExecStatus
    PROVE  DataInv' /\ DecisionSound'
<1> DEFINE t == run.tx
           to == StatusAfter(pend[t])
           changed == Confirmed \/ to # pend[t].status
<1>0. TypeInv /\ DataInv /\ DecisionSound /\ todo \subseteq inflight
  BY DEF SuccessInv, DataInv
<1>1. /\ t \in Txs /\ pend \in [Txs -> Pending] /\ run \in RunContext
      /\ inflight \subseteq Txs /\ pc = "process"
  BY <1>0 DEF TypeInv, TypeOK, RunOK, ExecStatus
<1>2. /\ UNCHANGED <<db, ins, inflight, todo, chain, bcm>> /\ pc' = "flush"
      /\ pend' = [pend EXCEPT ![t].status = to]
  BY DEF ExecStatus, storeVars, memVars, apiVars, loopVars, envVars
<1>3. \/ run' = run
      \/ changed /\ run' = [run EXCEPT !.updateType = "Update", !.fields = @ \cup {"status"},
                                      !.completed = to # "Pending"]
  BY Zenon DEF ExecStatus
<1>4. changed /\ to = "Succeeded" => Confirmed /\ run.receipt = "ok"
  BY <1>1 DEF StatusAfter
<1> HIDE DEF to, changed
<1>5. /\ \A u \in Txs : pend'[u].receipt = pend[u].receipt /\ pend'[u].confirmed = pend[u].confirmed
                        /\ pend'[u].receiptNotify = pend[u].receiptNotify
      /\ pend'[t].status = to
  BY <1>1, <1>2 DEF Pending
<1>6. run'.tx = t /\ (~changed => run' = run)
  BY <1>1, <1>3 DEF RunContext
<1>7. DbSame /\ RecordsSame /\ ChainSame /\ SubmittingShrinks
  BY <1>1, <1>2, <1>5 DEF DbSame, RecordsSame, ChainSame, SubmittingShrinks, Submitting
<1>8. DataInv'
  BY <1>0, <1>2, <1>7, DataKept
<1>9. DecisionSound'
  <2>1. "status" \in run'.fields => changed
    BY <1>0, <1>1, <1>6 DEF DecisionSound
  <2>2. changed /\ to = "Succeeded" =>
          /\ chain[t].final /\ (ChainTrackingMode = "full" => chain[t].outcome = "ok")
          /\ Stored(t, "ok")
    BY <1>0, <1>1, <1>4 DEF DecisionSound, Confirmed
  <2>3. ~Submitting(t)
    BY <1>0, <1>1 DEF DecisionSound
  <2> QED BY <1>2, <1>5, <1>6, <2>1, <2>2, <2>3 DEF DecisionSound, Submitting, Stored
<1> QED BY <1>8, <1>9

LEMMA SuccessExecNotDue ==
    ASSUME SuccessInv, ExecNotDue
    PROVE  DataInv' /\ DecisionSound'
<1>0. TypeInv /\ DataInv /\ DecisionSound /\ todo \subseteq inflight
  BY DEF SuccessInv, DataInv
<1>1. UNCHANGED <<db, ins, inflight, pend, todo, run, chain, bcm>> /\ pc = "process" /\ pc' = "flush"
  BY DEF ExecNotDue, Default, storeVars, memVars, apiVars, loopVars, envVars
<1>2. DbSame /\ RecordsSame /\ ChainSame /\ SubmittingShrinks
  BY <1>1 DEF DbSame, RecordsSame, ChainSame, SubmittingShrinks, Submitting
<1>3. DecisionSound'
  BY <1>0, <1>1 DEF DecisionSound, Submitting
<1> QED BY <1>0, <1>1, <1>2, <1>3, DataKept

\* Tracking a hash changes nothing the decision reads.
LEMMA TrackKeeps ==
    ASSUME NEW t \in Txs, NEW p \in Pending, pend \in [Txs -> Pending], Track(t, p)
    PROVE  /\ \A u \in Txs \ {t} : pend'[u] = pend[u]
           /\ pend'[t].receipt = p.receipt /\ pend'[t].confirmed = p.confirmed
           /\ pend'[t].receiptNotify = p.receiptNotify
<1> DEFINE a == [p EXCEPT !.tracking = p.hash, !.ran = TRUE]
           b == [p EXCEPT !.ran = TRUE]
<1>1. /\ a.receipt = p.receipt /\ a.confirmed = p.confirmed /\ a.receiptNotify = p.receiptNotify
      /\ b.receipt = p.receipt /\ b.confirmed = p.confirmed /\ b.receiptNotify = p.receiptNotify
  BY DEF Pending
<1>2. pend' = [pend EXCEPT ![t] = a] \/ pend' = [pend EXCEPT ![t] = b]
  BY Zenon DEF Track
<1> HIDE DEF a, b
<1> QED BY <1>1, <1>2

\* processTransaction: whatever it sends or tracks, the status is not written.
LEMMA SuccessProcess ==
    ASSUME SuccessInv, ProcessNoSend \/ ProcessSend
    PROVE  DataInv' /\ DecisionSound'
<1> DEFINE t == run.tx
           p == pend[t]
<1>0. TypeInv /\ DataInv /\ DecisionSound /\ todo \subseteq inflight
  BY DEF SuccessInv, DataInv
<1>1. /\ t \in Txs /\ pend \in [Txs -> Pending] /\ run \in RunContext
      /\ inflight \subseteq Txs /\ pc = "process" /\ chain \in [Txs -> Chain]
  BY <1>0 DEF TypeInv, TypeOK, RunOK, ProcessNoSend, ProcessSend, Default
<1>2. UNCHANGED <<db, ins, inflight, todo, bcm>> /\ pc' = "flush"
  BY DEF ProcessNoSend, ProcessSend, storeVars, memVars, apiVars, loopVars, envVars
<1>3. "status" \notin run.fields
  BY <1>0, <1>1 DEF DecisionSound
<1>4. /\ RecordsSame /\ ChainSame
      /\ "status" \notin run'.fields /\ run'.tx = t
  <2>1. CASE ProcessNoSend
    <3>1. Track(t, p) /\ chain' = chain
      BY <2>1 DEF ProcessNoSend
    <3>2. p \in Pending
      BY <1>1
    <3>3. /\ \A u \in Txs \ {t} : pend'[u] = pend[u]
          /\ pend'[t].receipt = p.receipt /\ pend'[t].confirmed = p.confirmed
          /\ pend'[t].receiptNotify = p.receiptNotify
      BY <1>1, <3>1, <3>2, TrackKeeps
    <3>4. run' = run \/ run' = [run EXCEPT !.updateType = "Delete"]
      BY <2>1 DEF ProcessNoSend
    <3>5. run'.fields = run.fields /\ run'.tx = t
      BY <1>1, <3>4 DEF RunContext
    <3>6. RecordsSame
      BY <1>1, <3>3 DEF RecordsSame
    <3> QED BY <1>3, <3>1, <3>5, <3>6 DEF ChainSame
  <2>2. CASE ProcessSend
    <3> DEFINE have(s) == s.out \in {"known", "low"} /\ p.hash # NoHash
               good(s) == s.out = "ok" \/ have(s) \/ (s.out = "known" /\ p.first)
               q(s) == [p EXCEPT !.hash = IF s.out = "ok" THEN s.hash ELSE @,
                                 !.first = @ \/ good(s)]
               fields(s) == (IF s.out = "ok" THEN {"hash"} ELSE {})
                            \cup (IF q(s).first # p.first THEN {"first"} ELSE {})
    <3>1. PICK s \in Sends(chain[t]) :
            /\ chain' = [chain EXCEPT ![t] = s.chain]
            /\ run' = [run EXCEPT !.fields = @ \cup fields(s),
                 !.updateType = IF s.out = "ok" \/ p.first \/ ~good(s) THEN "Update" ELSE @]
            /\ IF good(s) THEN Track(t, q(s))
               ELSE pend' = [pend EXCEPT ![t] = q(s)] /\ UNCHANGED bq
      BY <2>2, Zenon DEF ProcessSend
    <3>2. /\ s.chain.mined = chain[t].mined /\ s.chain.outcome = chain[t].outcome
          /\ s.chain.final = chain[t].final /\ (s.out = "ok" => s.hash \in Hashes)
      BY <1>1, SendsType
    <3>3. ChainSame
      BY <1>1, <3>1, <3>2 DEF ChainSame
    <3>4. fields(s) \in SUBSET {"hash", "first"}
      OBVIOUS
    <3>5. "status" \notin run'.fields /\ run'.tx = t
      <4> DEFINE fs == fields(s)
                 u == IF s.out = "ok" \/ p.first \/ ~good(s) THEN "Update" ELSE run.updateType
      <4>1. run' = [run EXCEPT !.fields = @ \cup fs, !.updateType = u] /\ "status" \notin fs
        BY <3>1, <3>4
      <4> HIDE DEF fs, u
      <4> QED BY <1>1, <1>3, <4>1 DEF RunContext
    <3>6. /\ q(s) \in Pending /\ q(s).receipt = p.receipt /\ q(s).confirmed = p.confirmed
          /\ q(s).receiptNotify = p.receiptNotify
      <4> DEFINE h == IF s.out = "ok" THEN s.hash ELSE p.hash
                 f == p.first \/ good(s)
      <4>1. p \in Pending
        BY <1>1
      <4>2. h \in HashOrNone /\ f \in BOOLEAN
        BY <4>1, <3>2 DEF Pending, HashOrNone
      <4> HIDE DEF h, f, p
      <4>3. LET x == [p EXCEPT !.hash = h, !.first = f]
            IN x \in Pending /\ x.receipt = p.receipt /\ x.confirmed = p.confirmed
               /\ x.receiptNotify = p.receiptNotify
        BY <4>1, <4>2 DEF Pending
      <4> QED BY <4>3, Zenon DEF h, f
    <3>7. Track(t, q(s)) \/ pend' = [pend EXCEPT ![t] = q(s)]
      BY <3>1, Zenon
    <3> HIDE DEF q
    <3>8. /\ \A u \in Txs \ {t} : pend'[u] = pend[u]
          /\ pend'[t].receipt = p.receipt /\ pend'[t].confirmed = p.confirmed
          /\ pend'[t].receiptNotify = p.receiptNotify
      <4>1. CASE Track(t, q(s))
        BY <1>1, <3>6, <4>1, TrackKeeps
      <4>2. CASE pend' = [pend EXCEPT ![t] = q(s)]
        BY <1>1, <3>6, <4>2
      <4> QED BY <3>7, <4>1, <4>2
    <3>9. RecordsSame
      BY <1>1, <3>8 DEF RecordsSame
    <3> QED BY <3>3, <3>5, <3>9
  <2> QED BY <2>1, <2>2
<1>5. DbSame /\ SubmittingShrinks
  BY <1>2 DEF DbSame, SubmittingShrinks, Submitting
<1>6. DecisionSound'
  BY <1>0, <1>1, <1>2, <1>4 DEF DecisionSound, Submitting
<1> QED BY <1>0, <1>2, <1>4, <1>5, <1>6, DataKept

\* The row that updateTransaction writes keeps its receipt, and its status is
\* the record's when the status is among the changes.
LEMMA UpdatedKeeps ==
    ASSUME NEW t \in Txs, db \in [Txs -> Row], pend \in [Txs -> Pending]
    PROVE  /\ Updated(t).receipt = db[t].receipt
           /\ Updated(t).status = IF "status" \in run.fields THEN pend[t].status ELSE db[t].status
<1> DEFINE st == IF "status" \in run.fields THEN pend[t].status ELSE db[t].status
           hs == IF "hash" \in run.fields THEN pend[t].hash ELSE db[t].hash
           fi == IF "first" \in run.fields THEN pend[t].first ELSE db[t].first
           de == IF "del" \in run.fields THEN pend[t].del ELSE db[t].del
           li == IF Store = "postgres" THEN st = "Pending" ELSE db[t].listed /\ st = "Pending"
           x == [db[t] EXCEPT !.status = st, !.hash = hs, !.first = fi, !.del = de, !.listed = li]
<1>1. db[t] \in Row
  OBVIOUS
<1>2. Updated(t) = x
  BY Zenon DEF Updated
<1> HIDE DEF st, hs, fi, de, li
<1>3. x.receipt = db[t].receipt /\ x.status = st
  BY <1>1 DEF Row
<1> QED BY <1>2, <1>3, Zenon DEF st

\* Records stay current when the store only drops rows or keeps their receipts.
LEMMA RecordsKept ==
    ASSUME TypeInv, RecordsCurrent, RecordsSame, ChainSame, bcm' = bcm, inflight' = inflight,
           \A u \in Txs : \A r : Stored(u, r) =>
             Store = "postgres" \/ db'[u].status = "None" \/ db'[u].receipt = r
    PROVE  RecordsCurrent'
<1> SUFFICES ASSUME NEW u \in inflight
             PROVE  /\ Delivered(u)' => pend'[u].receipt \in {"none", chain'[u].outcome}
                    /\ pend'[u].confirmed => chain'[u].final
                    /\ pend'[u].receiptNotify => pend'[u].receipt # "none"
                    /\ pend'[u].receipt # "none" /\ ~pend'[u].receiptNotify
                         => Stored(u, pend[u].receipt)'
  BY DEF RecordsCurrent
<1>1. u \in Txs
  BY DEF TypeInv, TypeOK
<1>2. Delivered(u)' = Delivered(u) /\ chain'[u].outcome = chain[u].outcome
      /\ chain'[u].final = chain[u].final
  BY <1>1 DEF Delivered, ChainSame
<1>3. /\ pend'[u].receipt = pend[u].receipt /\ pend'[u].confirmed = pend[u].confirmed
      /\ pend'[u].receiptNotify = pend[u].receiptNotify
  BY DEF RecordsSame
<1> QED BY <1>1, <1>2, <1>3 DEF RecordsCurrent, Stored

LEMMA SuccessFlushUpdate ==
    ASSUME SuccessInv, FlushUpdate
    PROVE  DataInv' /\ DecisionSound'
<1> DEFINE t == run.tx
           b == run.act # "Resume" /\ run.completed
<1>0. TypeInv /\ DataInv /\ DecisionSound /\ todo \subseteq inflight
  BY DEF SuccessInv, DataInv
<1>1. /\ t \in Txs /\ pend \in [Txs -> Pending] /\ db \in [Txs -> Row]
      /\ inflight \subseteq Txs /\ pc = "flush" /\ db[t].status # "None"
  BY <1>0 DEF TypeInv, TypeOK, RunOK, FlushUpdate
<1>2. /\ UNCHANGED <<ins, inflight, todo, chain, bcm>> /\ pc' \notin {"process", "flush"}
  BY DEF FlushUpdate, AfterExec, storeVars, memVars, apiVars, loopVars, envVars
<1>3. /\ db' = [db EXCEPT ![t] = Updated(t)]
      /\ pend' = [pend EXCEPT ![t].remove = @ \/ b]
  BY Zenon DEF FlushUpdate
<1> HIDE DEF b
<1>4. RecordsSame
  BY <1>1, <1>3 DEF RecordsSame, Pending
<1>5. /\ \A u \in Txs \ {t} : db'[u] = db[u]
      /\ db'[t].receipt = db[t].receipt
      /\ db'[t].status = IF "status" \in run.fields THEN pend[t].status ELSE db[t].status
  BY <1>1, <1>3, UpdatedKeeps
<1>6. SuccessIsFinal'
  <2>1. db'[t].status = "Succeeded" =>
          /\ chain[t].final /\ (ChainTrackingMode = "full" => chain[t].outcome = "ok")
          /\ ChainTrackingMode = "full" /\ Store = "leveldb" => db[t].receipt = "ok"
    BY <1>0, <1>1, <1>5 DEF DataInv, SuccessIsFinal, DecisionSound, Stored
  <2> QED BY <1>0, <1>2, <1>5, <2>1 DEF DataInv, SuccessIsFinal
<1>7. ReportsCurrent'
  BY <1>0, <1>2 DEF DataInv, ReportsCurrent
<1>8. RecordsCurrent'
  <2>1. \A u \in Txs : \A r : Stored(u, r) =>
             Store = "postgres" \/ db'[u].status = "None" \/ db'[u].receipt = r
    BY <1>1, <1>5 DEF Stored
  <2>2. ChainSame /\ bcm' = bcm /\ inflight' = inflight
    BY <1>2 DEF ChainSame
  <2> QED BY <1>0, <1>4, <2>1, <2>2, RecordsKept DEF DataInv
<1>9. SubmittingUnknown'
  <2>1. ~Submitting(t)
    BY <1>0, <1>1 DEF DecisionSound
  <2> QED BY <1>0, <1>2, <1>5, <2>1 DEF DataInv, SubmittingUnknown, Submitting
<1> QED BY <1>0, <1>2, <1>6, <1>7, <1>8, <1>9, DecisionNone DEF DataInv

LEMMA SuccessFlushDelete ==
    ASSUME SuccessInv, FlushDelete
    PROVE  DataInv' /\ DecisionSound'
<1> DEFINE t == run.tx
<1>0. TypeInv /\ DataInv /\ DecisionSound /\ todo \subseteq inflight
  BY DEF SuccessInv, DataInv
<1>1. /\ t \in Txs /\ pend \in [Txs -> Pending] /\ db \in [Txs -> Row]
      /\ inflight \subseteq Txs /\ pc = "flush"
  BY <1>0 DEF TypeInv, TypeOK, RunOK, FlushDelete
<1>2. /\ UNCHANGED <<ins, inflight, todo, chain, bcm>> /\ pc' \notin {"process", "flush"}
      /\ db' = [db EXCEPT ![t] = NoRow]
      /\ pend' = [pend EXCEPT ![t].remove = TRUE]
  BY DEF FlushDelete, storeVars, memVars, apiVars, loopVars, envVars
<1>3. RecordsSame
  BY <1>1, <1>2 DEF RecordsSame, Pending
<1>4. /\ \A u \in Txs \ {t} : db'[u] = db[u]
      /\ db'[t].status = "None" /\ ~db'[t].listed
  BY <1>1, <1>2 DEF NoRow
<1>5. SuccessIsFinal'
  BY <1>0, <1>2, <1>4 DEF DataInv, SuccessIsFinal
<1>6. ReportsCurrent'
  BY <1>0, <1>2 DEF DataInv, ReportsCurrent
<1>7. RecordsCurrent'
  <2>1. \A u \in Txs : \A r : Stored(u, r) =>
             Store = "postgres" \/ db'[u].status = "None" \/ db'[u].receipt = r
    BY <1>1, <1>4 DEF Stored
  <2>2. ChainSame /\ bcm' = bcm /\ inflight' = inflight
    BY <1>2 DEF ChainSame
  <2> QED BY <1>0, <1>3, <2>1, <2>2, RecordsKept DEF DataInv
<1>8. SubmittingUnknown'
  BY <1>0, <1>2, <1>4 DEF DataInv, SubmittingUnknown, Submitting
<1> QED BY <1>0, <1>2, <1>5, <1>6, <1>7, <1>8, DecisionNone DEF DataInv

-----------------------------------------------------------------------------
(* The confirmation manager, the chain and restarts *)

LEMMA SuccessBcmNotification ==
    ASSUME SuccessInv, BcmNotification
    PROVE  DataInv' /\ DecisionSound'
<1>0. TypeInv /\ DataInv /\ DecisionSound
  BY DEF SuccessInv
<1>1. UNCHANGED <<db, ins, inflight, pend, pc, run, todo, chain>>
  BY DEF BcmNotification, storeVars, memVars, apiVars, loopVars, envVars
<1>2. \A t \in Txs, h \in Hashes : bcm'[t][h] \in {"ok", "fail"} => bcm'[t][h] = bcm[t][h]
  <2> DEFINE n == Head(bq)
             k == IF n.op = "add" THEN "new" ELSE "off"
  <2>1. bcm \in [Txs -> [Hashes -> Tracked]] /\ bcm' = [bcm EXCEPT ![n.tx][n.hash] = k]
    BY <1>0 DEF TypeInv, TypeOK, BcmNotification
  <2>2. k \notin {"ok", "fail"}
    OBVIOUS
  <2> HIDE DEF n, k
  <2> QED BY <2>1, <2>2
<1>3. \A t \in Txs : Delivered(t)' => Delivered(t)
  BY <1>1, <1>2 DEF Delivered
<1>4. inflight \subseteq Txs
  BY <1>0 DEF TypeInv, TypeOK
<1>5. SuccessIsFinal' /\ SubmittingUnknown' /\ (todo \subseteq inflight)'
  BY <1>0, <1>1 DEF DataInv, SuccessIsFinal, SubmittingUnknown, Submitting
<1>6. ReportsCurrent'
  BY <1>0, <1>1, <1>2 DEF DataInv, ReportsCurrent
<1>7. RecordsCurrent'
  BY <1>0, <1>1, <1>3, <1>4 DEF DataInv, RecordsCurrent, Stored
<1>8. DecisionSound'
  BY <1>0, <1>1 DEF DecisionSound, Submitting, Stored
<1> QED BY <1>5, <1>6, <1>7, <1>8 DEF DataInv

\* What the callbacks write into a record.
LEMMA ReceiptEffect ==
    ASSUME NEW t \in Txs, NEW o \in Receipts, pend \in [Txs -> Pending],
           HandleTransactionReceiptReceived(t, o)
    PROVE  /\ \A u \in Txs \ {t} : pend'[u] = pend[u]
           /\ t \in inflight => /\ pend'[t].receipt = o /\ pend'[t].receiptNotify
                               /\ pend'[t].confirmed = pend[t].confirmed
<1>1. CASE t \notin inflight
  BY <1>1 DEF HandleTransactionReceiptReceived
<1>2. CASE t \in inflight
  <2>1. pend' = [pend EXCEPT ![t].receipt = o, ![t].receiptNotify = TRUE]
    BY <1>2 DEF HandleTransactionReceiptReceived
  <2>2. pend' = [pend EXCEPT ![t] = [pend[t] EXCEPT !.receipt = o, !.receiptNotify = TRUE]]
    BY <2>1 DEF Pending
  <2> DEFINE q == [pend[t] EXCEPT !.receipt = o, !.receiptNotify = TRUE]
  <2>3. q.receipt = o /\ q.receiptNotify /\ q.confirmed = pend[t].confirmed
    BY DEF Pending
  <2>4. pend' = [pend EXCEPT ![t] = q]
    BY <2>2, Zenon
  <2> HIDE DEF q
  <2> QED BY <2>3, <2>4
<1> QED BY <1>1, <1>2

LEMMA ConfirmEffect ==
    ASSUME NEW t \in Txs, NEW c \in BOOLEAN, pend \in [Txs -> Pending],
           HandleTransactionConfirmations(t, c)
    PROVE  /\ \A u \in Txs \ {t} : pend'[u] = pend[u]
           /\ pend'[t].receipt = pend[t].receipt
           /\ pend'[t].receiptNotify = pend[t].receiptNotify
           /\ t \in inflight => pend'[t].confirmed = c
<1>1. CASE t \notin inflight
  BY <1>1 DEF HandleTransactionConfirmations
<1>2. CASE t \in inflight
  <2>1. pend' = [pend EXCEPT ![t].confirmed = c, ![t].confirmNotify = TRUE]
    BY <1>2 DEF HandleTransactionConfirmations
  <2>2. pend' = [pend EXCEPT ![t] = [pend[t] EXCEPT !.confirmed = c, !.confirmNotify = TRUE]]
    BY <2>1 DEF Pending
  <2> DEFINE q == [pend[t] EXCEPT !.confirmed = c, !.confirmNotify = TRUE]
  <2>3. q.receipt = pend[t].receipt /\ q.receiptNotify = pend[t].receiptNotify /\ q.confirmed = c
    BY DEF Pending
  <2>4. pend' = [pend EXCEPT ![t] = q]
    BY <2>2, Zenon
  <2> HIDE DEF q
  <2> QED BY <2>3, <2>4
<1> QED BY <1>1, <1>2

LEMMA SuccessBcmReceipt ==
    ASSUME SuccessInv, NEW t \in Txs, NEW h \in Hashes, BcmReceipt(t, h)
    PROVE  DataInv' /\ DecisionSound'
<1> DEFINE o == chain[t].outcome
<1>0. TypeInv /\ ChainOK /\ DataInv /\ DecisionSound
  BY DEF SuccessInv
<1>1. /\ UNCHANGED <<db, ins, inflight, pc, run, todo, chain>>
      /\ bcm' = [bcm EXCEPT ![t][h] = o] /\ chain[t].mined = h
      /\ HandleTransactionReceiptReceived(t, o)
  BY DEF BcmReceipt, storeVars, memVars, apiVars, loopVars, envVars
<1>2. /\ bcm \in [Txs -> [Hashes -> Tracked]] /\ pend \in [Txs -> Pending]
      /\ chain \in [Txs -> Chain] /\ inflight \subseteq Txs
  BY <1>0 DEF TypeInv, TypeOK
<1>3. o \in Receipts /\ o # "none"
  BY <1>0, <1>1, <1>2, HashesAssumption DEF ChainOK, Chain
<1>4. /\ \A u \in Txs \ {t} : pend'[u] = pend[u]
      /\ t \in inflight => /\ pend'[t].receipt = o /\ pend'[t].receiptNotify
                          /\ pend'[t].confirmed = pend[t].confirmed
  BY <1>1, <1>2, <1>3, ReceiptEffect
<1>5. \A u \in Txs : pend'[u].status = pend[u].status
  BY <1>1, <1>2, <1>3, CallbackType
<1>6. SuccessIsFinal' /\ SubmittingUnknown' /\ (todo \subseteq inflight)'
  BY <1>0, <1>1 DEF DataInv, SuccessIsFinal, SubmittingUnknown, Submitting
<1>7. ReportsCurrent'
  BY <1>0, <1>1, <1>2 DEF DataInv, ReportsCurrent
<1>8. RecordsCurrent'
  <2> SUFFICES ASSUME NEW u \in inflight
               PROVE  /\ Delivered(u)' => pend'[u].receipt \in {"none", chain'[u].outcome}
                      /\ pend'[u].confirmed => chain'[u].final
                      /\ pend'[u].receiptNotify => pend'[u].receipt # "none"
                      /\ pend'[u].receipt # "none" /\ ~pend'[u].receiptNotify
                           => Stored(u, pend[u].receipt)'
    BY <1>1 DEF RecordsCurrent
  <2>1. CASE u = t
    BY <1>0, <1>1, <1>3, <1>4, <2>1 DEF DataInv, RecordsCurrent
  <2>2. CASE u # t
    <3>1. bcm'[u] = bcm[u]
      BY <1>1, <1>2, <2>2
    <3>2. Delivered(u)' = Delivered(u)
      BY <1>1, <3>1 DEF Delivered
    <3>3. pend'[u] = pend[u]
      BY <1>2, <1>4, <2>2
    <3> QED BY <1>0, <1>1, <3>2, <3>3 DEF DataInv, RecordsCurrent, Stored
  <2> QED BY <2>1, <2>2
<1>9. DecisionSound'
  <2>1. DbSame /\ ChainSame /\ SubmittingShrinks
    BY <1>1 DEF DbSame, ChainSame, SubmittingShrinks, Submitting
  <2> QED BY <1>0, <1>1, <1>5, <2>1, DecisionKept
<1> QED BY <1>6, <1>7, <1>8, <1>9 DEF DataInv

LEMMA SuccessBcmConfirmations ==
    ASSUME SuccessInv, NEW t \in Txs, NEW h \in Hashes, BcmConfirmations(t, h)
    PROVE  DataInv' /\ DecisionSound'
<1>0. TypeInv /\ DataInv /\ DecisionSound
  BY DEF SuccessInv
<1>1. /\ UNCHANGED <<db, ins, inflight, pc, run, todo, chain, bcm>>
      /\ HandleTransactionConfirmations(t, FALSE)
  BY DEF BcmConfirmations, storeVars, memVars, apiVars, loopVars, envVars
<1>2. pend \in [Txs -> Pending] /\ inflight \subseteq Txs
  BY <1>0 DEF TypeInv, TypeOK
<1>3. /\ \A u \in Txs \ {t} : pend'[u] = pend[u]
      /\ pend'[t].receipt = pend[t].receipt /\ pend'[t].receiptNotify = pend[t].receiptNotify
      /\ t \in inflight => pend'[t].confirmed = FALSE
  BY <1>1, <1>2, ConfirmEffect
<1>4. \A u \in Txs : pend'[u].status = pend[u].status
  <2>1. "none" \in Receipts BY DEF Receipts
  <2> QED BY <1>1, <1>2, <2>1, CallbackType
<1>5. SuccessIsFinal' /\ ReportsCurrent' /\ SubmittingUnknown' /\ (todo \subseteq inflight)'
  BY <1>0, <1>1 DEF DataInv, SuccessIsFinal, ReportsCurrent, SubmittingUnknown, Submitting
<1>6. RecordsCurrent'
  <2> SUFFICES ASSUME NEW u \in inflight
               PROVE  /\ Delivered(u)' => pend'[u].receipt \in {"none", chain'[u].outcome}
                      /\ pend'[u].confirmed => chain'[u].final
                      /\ pend'[u].receiptNotify => pend'[u].receipt # "none"
                      /\ pend'[u].receipt # "none" /\ ~pend'[u].receiptNotify
                           => Stored(u, pend[u].receipt)'
    BY <1>1 DEF RecordsCurrent
  <2>1. Delivered(u)' = Delivered(u)
    BY <1>1 DEF Delivered
  <2>2. /\ pend'[u].receipt = pend[u].receipt /\ pend'[u].receiptNotify = pend[u].receiptNotify
        /\ pend'[u].confirmed => pend[u].confirmed
    BY <1>2, <1>3
  <2> QED BY <1>0, <1>1, <2>1, <2>2 DEF DataInv, RecordsCurrent, Stored
<1>7. DecisionSound'
  <2>1. DbSame /\ ChainSame /\ SubmittingShrinks
    BY <1>1 DEF DbSame, ChainSame, SubmittingShrinks, Submitting
  <2> QED BY <1>0, <1>1, <1>4, <2>1, DecisionKept
<1> QED BY <1>5, <1>6, <1>7 DEF DataInv

LEMMA SuccessBcmConfirm ==
    ASSUME SuccessInv, NEW t \in Txs, NEW h \in Hashes, BcmConfirm(t, h)
    PROVE  DataInv' /\ DecisionSound'
<1>0. TypeInv /\ ChainOK /\ DataInv /\ DecisionSound
  BY DEF SuccessInv
<1>1. /\ UNCHANGED <<db, ins, inflight, pc, run, todo>>
      /\ bcm' = [bcm EXCEPT ![t][h] = "off"] /\ chain[t].mined = h
      /\ ChainTrackingMode = "full" => bcm[t][h] = chain[t].outcome
      /\ chain' = [chain EXCEPT ![t].final = TRUE]
      /\ HandleTransactionConfirmations(t, TRUE)
  BY DEF BcmConfirm, Counted, storeVars, memVars, apiVars, loopVars, envVars
<1>2. /\ bcm \in [Txs -> [Hashes -> Tracked]] /\ pend \in [Txs -> Pending]
      /\ chain \in [Txs -> Chain] /\ inflight \subseteq Txs
      /\ pc \in {"process", "flush"} => run.tx \in Txs
  BY <1>0 DEF TypeInv, TypeOK, RunOK
<1>3. ChainTrackingMode = "full" => Delivered(t)
  BY <1>0, <1>1, HashesAssumption DEF ChainOK, Delivered
<1>4. /\ \A u \in Txs \ {t} : pend'[u] = pend[u]
      /\ pend'[t].receipt = pend[t].receipt /\ pend'[t].receiptNotify = pend[t].receiptNotify
  BY <1>1, <1>2, ConfirmEffect
<1>5. \A u \in Txs : pend'[u].status = pend[u].status
  <2>1. "none" \in Receipts BY DEF Receipts
  <2> QED BY <1>1, <1>2, <2>1, CallbackType
<1>6. /\ \A u \in Txs \ {t} : chain'[u] = chain[u] /\ bcm'[u] = bcm[u]
      /\ chain'[t].mined = chain[t].mined /\ chain'[t].outcome = chain[t].outcome
      /\ chain'[t].final
  BY <1>1, <1>2 DEF Chain
<1>7. SuccessIsFinal' /\ SubmittingUnknown' /\ (todo \subseteq inflight)'
  BY <1>0, <1>1, <1>6 DEF DataInv, SuccessIsFinal, SubmittingUnknown, Submitting
<1>8. ReportsCurrent'
  <2>1. \A u \in Txs, g \in Hashes : bcm'[u][g] \in {"ok", "fail"} => bcm'[u][g] = bcm[u][g]
    BY <1>1, <1>2
  <2> QED BY <1>0, <1>6, <2>1 DEF DataInv, ReportsCurrent
<1>9. RecordsCurrent'
  <2> SUFFICES ASSUME NEW u \in inflight
               PROVE  /\ Delivered(u)' => pend'[u].receipt \in {"none", chain'[u].outcome}
                      /\ pend'[u].confirmed => chain'[u].final
                      /\ pend'[u].receiptNotify => pend'[u].receipt # "none"
                      /\ pend'[u].receipt # "none" /\ ~pend'[u].receiptNotify
                           => Stored(u, pend[u].receipt)'
    BY <1>1 DEF RecordsCurrent
  <2>0. db' = db /\ inflight' = inflight
    BY <1>1
  <2>1. CASE u = t
    <3>1. Delivered(u)' => Delivered(u)
      BY <1>3, <2>1 DEF Delivered
    <3> QED BY <1>0, <1>4, <1>6, <2>0, <2>1, <3>1 DEF DataInv, RecordsCurrent, Stored
  <2>2. CASE u # t
    <3>1. Delivered(u)' = Delivered(u) /\ pend'[u] = pend[u] /\ chain'[u] = chain[u]
      BY <1>2, <1>4, <1>6, <2>2 DEF Delivered
    <3> QED BY <1>0, <2>0, <3>1 DEF DataInv, RecordsCurrent, Stored
  <2> QED BY <2>1, <2>2
<1>10. DecisionSound'
  <2>1. \A u \in Txs : /\ chain'[u].outcome = chain[u].outcome
                       /\ chain[u].final => chain'[u].final
    BY <1>6
  <2>2. db' = db /\ pc' = pc /\ run' = run /\ ins' = ins
    BY <1>1
  <2> QED BY <1>0, <1>2, <1>5, <2>1, <2>2 DEF DecisionSound, Submitting, Stored
<1> QED BY <1>7, <1>8, <1>9, <1>10 DEF DataInv

LEMMA SuccessBcmReceiptGone ==
    ASSUME SuccessInv, NEW t \in Txs, NEW h \in Hashes, BcmReceiptGone(t, h)
    PROVE  DataInv' /\ DecisionSound'
<1>0. TypeInv /\ DataInv /\ DecisionSound
  BY DEF SuccessInv
<1>1. /\ UNCHANGED <<db, ins, inflight, pend, pc, run, todo, chain>>
      /\ ChainTrackingMode # "full"
  BY DEF BcmReceiptGone, storeVars, memVars, apiVars, loopVars, envVars
<1>2. \A u \in Txs : ~Delivered(u) /\ ~Delivered(u)'
  BY <1>1 DEF Delivered
<1>3. inflight \subseteq Txs
  BY <1>0 DEF TypeInv, TypeOK
<1>4. SuccessIsFinal' /\ SubmittingUnknown' /\ (todo \subseteq inflight)'
  BY <1>0, <1>1 DEF DataInv, SuccessIsFinal, SubmittingUnknown, Submitting
<1>5. ReportsCurrent'
  BY <1>1 DEF ReportsCurrent
<1>6. RecordsCurrent'
  BY <1>0, <1>1, <1>2, <1>3 DEF DataInv, RecordsCurrent, Stored
<1>7. DecisionSound'
  BY <1>0, <1>1 DEF DecisionSound, Submitting, Stored
<1> QED BY <1>4, <1>5, <1>6, <1>7 DEF DataInv

\* In full mode only a transaction of which nothing has been delivered may change
\* its block: what has been delivered is mined, so it cannot be mined again, and
\* what is final cannot be reorganised.
LEMMA SuccessBlockchain ==
    ASSUME SuccessInv, NEW t \in Txs,
           Reorg(t) \/ \E h \in Hashes, o \in Outcomes : Mine(t, h, o)
    PROVE  DataInv' /\ DecisionSound'
<1>0. TypeInv /\ ChainOK /\ DataInv /\ DecisionSound
  BY DEF SuccessInv
<1>1. UNCHANGED <<db, ins, inflight, pend, pc, run, todo>>
  BY DEF Mine, Reorg, storeVars, memVars, apiVars, loopVars, envVars
<1>2. /\ bcm \in [Txs -> [Hashes -> Tracked]] /\ chain \in [Txs -> Chain]
      /\ inflight \subseteq Txs /\ (pc \in {"process", "flush"} => run.tx \in Txs)
  BY <1>0 DEF TypeInv, TypeOK, RunOK
<1>3. /\ ~chain[t].final /\ ~chain'[t].final
      /\ ChainTrackingMode = "full" => \A h \in Hashes : bcm'[t][h] \notin {"ok", "fail"}
      /\ \A u \in Txs \ {t} : chain'[u] = chain[u] /\ bcm'[u] = bcm[u]
  <2>1. CASE Reorg(t)
    <3>1. /\ ~chain[t].final
          /\ chain' = [chain EXCEPT ![t].mined = NoHash, ![t].outcome = "none"]
          /\ bcm' = IF ChainTrackingMode = "full"
                    THEN [bcm EXCEPT ![t] = [h \in Hashes |-> IF bcm[t][h] = "off" THEN "off" ELSE "new"]]
                    ELSE bcm
      BY <2>1 DEF Reorg
    <3>2. ~chain'[t].final /\ \A u \in Txs \ {t} : chain'[u] = chain[u]
      BY <1>2, <3>1 DEF Chain
    <3>3. /\ ChainTrackingMode = "full" => \A h \in Hashes : bcm'[t][h] \notin {"ok", "fail"}
          /\ \A u \in Txs \ {t} : bcm'[u] = bcm[u]
      BY <1>2, <3>1
    <3> QED BY <3>1, <3>2, <3>3
  <2>2. ASSUME NEW h \in Hashes, NEW o \in Outcomes, Mine(t, h, o) PROVE <1>3!:
    <3>1. /\ chain[t].mined = NoHash /\ bcm' = bcm
          /\ chain' = [chain EXCEPT ![t].mined = h, ![t].outcome = o]
      BY <2>2 DEF Mine
    <3>2. /\ ~chain[t].final
          /\ ChainTrackingMode = "full" => \A g \in Hashes : bcm[t][g] \notin {"ok", "fail"}
      BY <1>0, <3>1, HashesAssumption DEF ChainOK, DataInv, ReportsCurrent
    <3>3. chain'[t].final = chain[t].final /\ \A u \in Txs \ {t} : chain'[u] = chain[u]
      BY <1>2, <3>1 DEF Chain
    <3> QED BY <3>1, <3>2, <3>3
  <2> QED BY <2>1, <2>2
<1>4. SuccessIsFinal' /\ SubmittingUnknown' /\ (todo \subseteq inflight)'
  BY <1>0, <1>1, <1>3 DEF DataInv, SuccessIsFinal, SubmittingUnknown, Submitting
<1>5. ReportsCurrent'
  BY <1>0, <1>3 DEF DataInv, ReportsCurrent
<1>6. RecordsCurrent'
  <2>1. \A u \in Txs \ {t} : Delivered(u)' = Delivered(u)
    BY <1>3 DEF Delivered
  <2>2. ~Delivered(t)'
    BY <1>3 DEF Delivered
  <2> QED BY <1>0, <1>1, <1>2, <1>3, <2>1, <2>2 DEF DataInv, RecordsCurrent, Stored
<1>7. DecisionSound'
  BY <1>0, <1>1, <1>2, <1>3 DEF DecisionSound, Submitting, Stored
<1> QED BY <1>4, <1>5, <1>6, <1>7 DEF DataInv

\* A restart forgets what was in flight and keeps the rows.
LEMMA SuccessRestart ==
    ASSUME SuccessInv, Restart
    PROVE  DataInv' /\ DecisionSound'
<1>0. TypeInv /\ DataInv
  BY DEF SuccessInv
<1>1. /\ UNCHANGED <<db, chain>> /\ inflight' = {} /\ todo' = {} /\ pc' = "idle"
      /\ bcm' = [t \in Txs |-> [h \in Hashes |-> "off"]]
      /\ ins' = [t \in Txs |-> IF ins[t] = "new" THEN "new" ELSE "done"]
  BY DEF Restart, storeVars
<1>2. SuccessIsFinal' /\ ReportsCurrent' /\ RecordsCurrent' /\ SubmittingUnknown'
  BY <1>0, <1>1 DEF DataInv, SuccessIsFinal, ReportsCurrent, RecordsCurrent, SubmittingUnknown,
                    Submitting
<1> QED BY <1>1, <1>2, DecisionNone DEF DataInv

-----------------------------------------------------------------------------
LEMMA SuccessStep ==
    ASSUME SuccessInv, [Next]_vars
    PROVE  SuccessInv'
<1>0. TypeInv' /\ ChainOK'
  BY TypeStep, ChainStep DEF SuccessInv
<1> SUFFICES DataInv' /\ DecisionSound'
  BY <1>0 DEF SuccessInv
<1>1. CASE \E t \in Txs : Insert(t)
  BY <1>1, SuccessApi, SuccessInsertCommit
<1>2. CASE \E r \in Reqs : ApiRequest(r)
  BY <1>2, SuccessApi
<1>3. CASE Process
  BY <1>3, SuccessExecStatus, SuccessExecNotDue, SuccessProcess, SuccessBetween DEF Process
<1>4. CASE Flush
  BY <1>4, SuccessBetween, SuccessFlushUpdate, SuccessFlushDelete DEF Flush
<1>5. CASE Loop
  BY <1>3, <1>4, <1>5, SuccessBetween, SuccessExecRequest, SuccessRespond,
     SuccessUpdateInflightSet, SuccessExecInflight DEF Loop
<1>6. CASE Bcm
  BY <1>6, SuccessBcmNotification, SuccessBcmReceipt, SuccessBcmConfirmations,
     SuccessBcmConfirm, SuccessBcmReceiptGone DEF Bcm
<1>7. CASE Blockchain
  BY <1>7, SuccessBlockchain DEF Blockchain
<1>8. CASE Restart
  BY <1>8, SuccessRestart
<1>9. CASE UNCHANGED vars
  BY <1>9 DEF SuccessInv, DataInv, SuccessIsFinal, ReportsCurrent, RecordsCurrent,
              SubmittingUnknown, DecisionSound, Delivered, Stored, Submitting, vars
<1> QED BY <1>1, <1>2, <1>5, <1>6, <1>7, <1>8, <1>9 DEF Next, SuccessInv

\* flushChanges never stores Succeeded for a transaction that is not in a final
\* block, and in full mode never for one the chain has not accepted there, or
\* without its receipt: for every interleaving of requests, callbacks, failed
\* writes, reorganisations and restarts, and any number of transactions.
THEOREM SuccessCorrect == Spec => []SuccessIsFinal
<1>1. Init => SuccessInv
  BY InitSuccess
<1>2. SuccessInv /\ [Next]_vars => SuccessInv'
  BY SuccessStep
<1>3. SuccessInv => SuccessIsFinal
  BY DEF SuccessInv, DataInv
<1> QED BY <1>1, <1>2, <1>3, PTL DEF Spec

(***************************************************************************)
(* Plans and the pending index                                             *)
(***************************************************************************)

\* No request asks for a resumption. With it a suspended transaction rejoins
\* the in-flight set while the confirmation manager still tracks its hash.
NoResume == "Resume" \notin Actions

\* Only pending rows are indexed, Postgres indexes all of them, and a record
\* that is to leave the in-flight set has left the index before.
IndexSound ==
    \A t \in Txs :
        /\ db[t].listed => db[t].status = "Pending"
        /\ Store = "postgres" /\ db[t].status = "Pending" => db[t].listed
        /\ t \in inflight /\ pend[t].remove => ~db[t].listed

\* Nothing is marked for deletion unless deletions are asked for.
DeletesAsked == \A t \in Txs : db[t].del \/ pend[t].del => "Delete" \in Actions

\* A queued request says what it asks for.
ReqsAsked == \A r \in Reqs : req[r].state # "unused" => req[r].act \in Actions

\* What the execution in progress plans: a record that is not in flight is run
\* only for a request, a completion comes with a status, which ends or suspends.
PlanSound ==
    /\ pc = "process" => ~run.completed /\ run.updateType # "Delete"
    /\ pc = "process" /\ run.tx \notin inflight =>
         run.act \in Actions /\ (run.act = "Delete" => pend[run.tx].del)
    /\ pc = "flush" /\ run.updateType = "Delete" => "Delete" \in Actions
    /\ pc = "flush" /\ run.completed => "status" \in run.fields
    /\ pc = "flush" /\ "status" \in run.fields =>
         pend[run.tx].status \in Resolved \cup {"Suspended"}

PlanInv == IndexSound /\ DeletesAsked /\ ReqsAsked /\ PlanSound

\* What a step must leave alone for the plans and the index to stay sound.
RowsSame == \A t \in Txs : /\ db'[t].status = db[t].status /\ db'[t].listed = db[t].listed
                           /\ db'[t].del = db[t].del

MarksSame == \A t \in Txs : /\ pend'[t].status = pend[t].status /\ pend'[t].del = pend[t].del
                            /\ pend'[t].remove = pend[t].remove

RunKept == (pc' = pc /\ run' = run) \/ pc' \notin {"process", "flush"}

LEMMA PlanKept ==
    ASSUME TypeInv, PlanInv, RowsSame, MarksSame, RunKept, inflight' = inflight, ReqsAsked'
    PROVE  PlanInv'
<1>1. IndexSound'
  BY DEF PlanInv, IndexSound, RowsSame, MarksSame
<1>2. DeletesAsked'
  BY DEF PlanInv, DeletesAsked, RowsSame, MarksSame
<1>3. PlanSound'
  <2>1. pc \in {"process", "flush"} => run.tx \in Txs
    BY DEF TypeInv, RunOK
  <2> QED BY <2>1 DEF PlanInv, PlanSound, MarksSame, RunKept
<1> QED BY <1>1, <1>2, <1>3 DEF PlanInv

LEMMA InitPlan == Init => PlanInv
BY DEF Init, PlanInv, IndexSound, DeletesAsked, ReqsAsked, PlanSound, NoRow, NoPending, NewPending

\* Requests never forget what they ask for.
LEMMA ReqsStep ==
    ASSUME TypeInv, ReqsAsked, [Next]_vars
    PROVE  ReqsAsked'
<1>0. req \in [Reqs -> Request]
  BY DEF TypeInv, TypeOK
<1>1. ASSUME req' = req PROVE ReqsAsked'
  BY <1>1 DEF ReqsAsked
<1>2. CASE \E r \in Reqs : ApiRequest(r)
  <2>1. ASSUME NEW r \in Reqs, NEW t \in Txs, NEW a \in Actions, RequestQueue(r, t, a)
        PROVE  ReqsAsked'
    BY <1>0, <2>1 DEF ReqsAsked, RequestQueue
  <2>2. ASSUME NEW r \in Reqs, RequestWait(r) \/ RequestTimeout(r)
        PROVE  ReqsAsked'
    BY <1>0, <2>2 DEF ReqsAsked, RequestWait, RequestTimeout, Request
  <2> QED BY <1>2, <2>1, <2>2 DEF ApiRequest
<1>3. CASE \E r \in Reqs : Respond(r)
  <2>1. PICK r \in Reqs : req' = [req EXCEPT ![r].state = IF @ = "waiting" THEN "answered" ELSE @]
    BY <1>3 DEF Respond
  <2>2. \A q \in Reqs : req'[q].act = req[q].act /\ (req'[q].state # "unused" => req[q].state # "unused")
    BY <1>0, <2>1 DEF Request
  <2> QED BY <2>2 DEF ReqsAsked
<1>4. CASE Restart
  <2>1. req' = [r \in Reqs |-> IF req[r].state = "unused" THEN req[r]
                              ELSE [req[r] EXCEPT !.state = "gone"]]
    BY <1>4 DEF Restart
  <2>2. \A q \in Reqs : req'[q].state # "unused" => req'[q].act = req[q].act /\ req[q].state # "unused"
    BY <1>0, <2>1 DEF Request
  <2> QED BY <2>2 DEF ReqsAsked
<1>5. CASE \E t \in Txs : Insert(t)
  BY <1>1, <1>5 DEF Insert, InsertBegin, InsertCommit, InsertFail, InsertHistoryFail,
                    InsertMarkStale, InsertMarkUpdate, apiVars
<1>6. CASE Process
  BY <1>1, <1>6 DEF Process, ExecStatus, ExecNotDue, ProcessNoSend, ProcessSend, ProcessPanic, apiVars
<1>7. CASE Flush
  BY <1>1, <1>7 DEF Flush, FlushNone, FlushUpdate, FlushDelete, FlushFail, Emit, apiVars
<1>8. CASE Loop
  BY <1>1, <1>3, <1>6, <1>7, <1>8 DEF Loop, BeginCycle, ExecRequest, UpdateInflightSet,
     SkipInflightSet, ExecInflight, EndCycle, apiVars
<1>9. CASE Bcm
  BY <1>1, <1>9 DEF Bcm, BcmNotification, BcmReceipt, BcmConfirmations, BcmConfirm, BcmReceiptGone, apiVars
<1>10. CASE Blockchain
  BY <1>1, <1>10 DEF Blockchain, Mine, Reorg, apiVars
<1>11. CASE UNCHANGED vars
  BY <1>1, <1>11 DEF vars
<1> QED BY <1>2, <1>4, <1>5, <1>8, <1>9, <1>10, <1>11 DEF Next

\* Steps that leave rows, records and plans alone.
LEMMA PlanQuiet ==
    ASSUME TypeInv, PlanInv, ReqsAsked',
           \/ \E t \in Txs : Insert(t) /\ ~InsertCommit(t)
           \/ \E r \in Reqs : ApiRequest(r)
           \/ BeginCycle \/ SkipInflightSet \/ EndCycle \/ ProcessPanic \/ FlushNone \/ Emit
           \/ BcmNotification \/ Blockchain \/ UNCHANGED vars
           \/ \E t \in Txs, h \in Hashes : BcmReceiptGone(t, h)
    PROVE  PlanInv'
<1>1. UNCHANGED <<db, inflight, pend>> /\ RunKept
  <2>1. CASE \E t \in Txs : Insert(t) /\ ~InsertCommit(t)
    BY <2>1 DEF Insert, InsertBegin, InsertFail, InsertHistoryFail, InsertMarkStale,
                InsertMarkUpdate, RunKept, storeVars, memVars, loopVars
  <2>2. CASE \E r \in Reqs : ApiRequest(r)
    BY <2>2 DEF ApiRequest, RequestQueue, RequestWait, RequestTimeout, RunKept, storeVars, memVars, loopVars
  <2>3. CASE BeginCycle \/ SkipInflightSet \/ EndCycle \/ ProcessPanic \/ FlushNone \/ Emit
    BY <2>3 DEF BeginCycle, SkipInflightSet, EndCycle, ProcessPanic, FlushNone, Emit, AfterExec,
                RunKept, storeVars, memVars
  <2>4. CASE BcmNotification \/ Blockchain \/ \E t \in Txs, h \in Hashes : BcmReceiptGone(t, h)
    BY <2>4 DEF BcmNotification, BcmReceiptGone, Blockchain, Mine, Reorg, RunKept, storeVars,
                memVars, loopVars
  <2>5. CASE UNCHANGED vars
    BY <2>5 DEF vars, RunKept
  <2> QED BY <2>1, <2>2, <2>3, <2>4, <2>5
<1>2. RowsSame /\ MarksSame
  BY <1>1 DEF RowsSame, MarksSame
<1> QED BY <1>1, <1>2, PlanKept

\* The callbacks touch neither the status of a record nor its marks.
LEMMA CallbackMarks ==
    ASSUME NEW t \in Txs, NEW o, NEW c, pend \in [Txs -> Pending],
           HandleTransactionReceiptReceived(t, o) \/ HandleTransactionConfirmations(t, c)
    PROVE  MarksSame
<1>1. \/ pend' = pend
      \/ pend' = [pend EXCEPT ![t].receipt = o, ![t].receiptNotify = TRUE]
      \/ pend' = [pend EXCEPT ![t].confirmed = c, ![t].confirmNotify = TRUE]
  BY Zenon DEF HandleTransactionReceiptReceived, HandleTransactionConfirmations
<1>2. CASE pend' = pend
  BY <1>2 DEF MarksSame
<1>3. CASE pend' = [pend EXCEPT ![t].receipt = o, ![t].receiptNotify = TRUE]
  <2> DEFINE q == [pend[t] EXCEPT !.receipt = o, !.receiptNotify = TRUE]
  <2>1. pend' = [pend EXCEPT ![t] = q]
    BY <1>3 DEF Pending
  <2>2. q.status = pend[t].status /\ q.del = pend[t].del /\ q.remove = pend[t].remove
    BY DEF Pending
  <2> HIDE DEF q
  <2> QED BY <2>1, <2>2 DEF MarksSame
<1>4. CASE pend' = [pend EXCEPT ![t].confirmed = c, ![t].confirmNotify = TRUE]
  <2> DEFINE q == [pend[t] EXCEPT !.confirmed = c, !.confirmNotify = TRUE]
  <2>1. pend' = [pend EXCEPT ![t] = q]
    BY <1>4 DEF Pending
  <2>2. q.status = pend[t].status /\ q.del = pend[t].del /\ q.remove = pend[t].remove
    BY DEF Pending
  <2> HIDE DEF q
  <2> QED BY <2>1, <2>2 DEF MarksSame
<1> QED BY <1>1, <1>2, <1>3, <1>4

LEMMA PlanCallback ==
    ASSUME TypeInv, PlanInv, ReqsAsked', NEW t \in Txs, NEW h \in Hashes,
           BcmReceipt(t, h) \/ BcmConfirmations(t, h) \/ BcmConfirm(t, h)
    PROVE  PlanInv'
<1>1. UNCHANGED <<db, inflight, pc, run>>
  BY DEF BcmReceipt, BcmConfirmations, BcmConfirm, storeVars, loopVars
<1>2. MarksSame
  <2>1. pend \in [Txs -> Pending]
    BY DEF TypeInv, TypeOK
  <2> QED BY <2>1, CallbackMarks DEF BcmReceipt, BcmConfirmations, BcmConfirm
<1>3. RowsSame /\ RunKept
  BY <1>1 DEF RowsSame, RunKept
<1> QED BY <1>1, <1>2, <1>3, PlanKept

LEMMA PlanInsertCommit ==
    ASSUME SuccessInv, PlanInv, ReqsAsked', NEW t \in Txs, InsertCommit(t)
    PROVE  PlanInv'
<1>1. TypeInv /\ SubmittingUnknown /\ db \in [Txs -> Row]
  BY DEF SuccessInv, DataInv, TypeInv, TypeOK
<1>2. /\ ins[t] = "inserting"
      /\ db' = [db EXCEPT ![t] = [NoRow EXCEPT !.status = "Pending", !.listed = TRUE]]
      /\ UNCHANGED <<inflight, pend, pc, run>>
  BY DEF InsertCommit, memVars, loopVars
<1>3. t \notin inflight
  BY <1>1, <1>2 DEF SubmittingUnknown, Submitting
<1>4. /\ db'[t].status = "Pending" /\ db'[t].listed /\ ~db'[t].del
      /\ \A u \in Txs \ {t} : db'[u] = db[u]
  BY <1>1, <1>2 DEF NoRow
<1>5. IndexSound'
  BY <1>2, <1>3, <1>4 DEF PlanInv, IndexSound
<1>6. DeletesAsked'
  BY <1>2, <1>4 DEF PlanInv, DeletesAsked
<1>7. PlanSound'
  BY <1>2 DEF PlanInv, PlanSound
<1> QED BY <1>5, <1>6, <1>7 DEF PlanInv

LEMMA PlanRespond ==
    ASSUME TypeInv, PlanInv, ReqsAsked', NEW r \in Reqs, Respond(r)
    PROVE  PlanInv'
<1>1. /\ UNCHANGED <<db, inflight>> /\ pc' \notin {"process", "flush"}
      /\ pend' = IF run.tx \in inflight THEN pend ELSE [pend EXCEPT ![run.tx] = NoPending]
      /\ pend \in [Txs -> Pending] /\ inflight \subseteq Txs
  BY DEF TypeInv, TypeOK, Respond, storeVars
<1>2. ~NoPending.del
  BY DEF NoPending, NewPending, NoRow
<1>3. \A t \in Txs : /\ t \in inflight => pend'[t] = pend[t]
                     /\ pend'[t].del => pend[t].del
  BY <1>1, <1>2
<1>4. IndexSound' /\ DeletesAsked'
  BY <1>1, <1>3 DEF PlanInv, IndexSound, DeletesAsked
<1>5. PlanSound'
  BY <1>1 DEF PlanSound
<1> QED BY <1>4, <1>5 DEF PlanInv

\* What updateInflightSet makes of the records.
LEMMA RefreshEffect ==
    ASSUME TypeInv, UpdateInflightSet
    PROVE  /\ Kept \subseteq inflight /\ Polled \subseteq Txs
           /\ \A t \in Polled : db[t].listed /\ t \notin Kept
           /\ \A t \in Kept : pend'[t] = pend[t] /\ ~pend[t].remove
           /\ \A t \in Polled : pend'[t] = NewPending(db[t], TRUE)
           /\ \A t \in Txs : t \notin Kept \cup Polled => pend'[t] = NoPending
           /\ pend' \in [Txs -> Pending]
<1>1. seq \in [Txs -> Nat] /\ inflight \subseteq Txs
  BY DEF TypeInv, TypeOK
<1>2. /\ Kept \subseteq inflight /\ Polled \subseteq Txs
      /\ \A t \in Polled : db[t].listed /\ t \notin Kept
      /\ \A t \in Kept : ~pend[t].remove
  BY <1>1 DEF Kept, Polled, Candidates
<1>3. pend' = [t \in Txs |-> CASE t \in Kept -> pend[t]
                              [] t \in Polled -> NewPending(db[t], TRUE)
                              [] OTHER -> NoPending]
  BY DEF UpdateInflightSet
<1>4. pend' \in [Txs -> Pending]
  BY TypeUpdateInflightSet DEF TypeInv, TypeOK
<1> QED BY <1>1, <1>2, <1>3, <1>4

LEMMA PlanUpdateInflightSet ==
    ASSUME TypeInv, PlanInv, ReqsAsked', UpdateInflightSet
    PROVE  PlanInv'
<1>1. db' = db /\ inflight' = Kept \cup Polled /\ pc' = "cycle" /\ inflight \subseteq Txs
  BY DEF TypeInv, TypeOK, UpdateInflightSet, storeVars
<1>2. /\ Kept \subseteq inflight /\ Polled \subseteq Txs
      /\ \A t \in Polled : db[t].listed /\ t \notin Kept
      /\ \A t \in Kept : pend'[t] = pend[t] /\ ~pend[t].remove
      /\ \A t \in Polled : pend'[t] = NewPending(db[t], TRUE)
      /\ \A t \in Txs : t \notin Kept \cup Polled => pend'[t] = NoPending
  BY RefreshEffect
<1>3. /\ ~NoPending.del
      /\ \A row : ~NewPending(row, TRUE).remove /\ NewPending(row, TRUE).del = row.del
  BY DEF NoPending, NewPending, NoRow
<1>4. /\ \A t \in Kept \cup Polled : ~pend'[t].remove
      /\ \A t \in Txs : pend'[t].del => pend[t].del \/ db[t].del
  BY <1>1, <1>2, <1>3
<1>5. IndexSound' /\ DeletesAsked'
  BY <1>1, <1>4 DEF PlanInv, IndexSound, DeletesAsked
<1>6. PlanSound'
  BY <1>1 DEF PlanSound
<1> QED BY <1>5, <1>6 DEF PlanInv

\* What the snapshot plans, and which marks it leaves on the record.
LEMMA SnapshotMarks ==
    ASSUME TypeInv, NEW t \in Txs, NEW a \in Actions \cup {NoAction},
           NEW r \in Reqs \cup {NoReq}, NEW touched \in BOOLEAN,
           PendingToRunContext(t, a, r, touched)
    PROVE  LET p == Record(t)
           IN /\ \A u \in Txs \ {t} : db'[u] = db[u] /\ pend'[u] = pend[u]
              /\ db'[t].del = db[t].del /\ db'[t].status = db[t].status
              /\ db'[t].listed = db[t].listed
              /\ pend'[t].status = p.status /\ pend'[t].remove = p.remove
              /\ pend'[t].del = (p.del \/ a = "Delete")
              /\ pc' \in {"process", "cycle", "respond"} /\ pc' \in {"process", AfterExec(r)}
              /\ run'.tx = t /\ run'.act = a /\ run'.req = r /\ ~run'.completed
              /\ run'.updateType # "Delete" /\ "status" \notin run'.fields
<1> DEFINE p == Record(t)
           del == a = "Delete" /\ ~p.del
           q == [p EXCEPT !.del = @ \/ del]
           ctx == [tx |-> t, act |-> a, req |-> r,
                   receipt |-> p.receipt, confirmed |-> p.confirmed,
                   processTx |-> del \/ touched,
                   updateType |-> IF del \/ touched THEN "Update" ELSE "None",
                   fields |-> IF del THEN {"del"} ELSE {}, completed |-> FALSE]
           stored == IF p.receiptNotify /\ db[t].status # "None"
                     THEN [db EXCEPT ![t].receipt = p.receipt] ELSE db
           clr == [q EXCEPT !.receiptNotify = FALSE, !.confirmNotify = FALSE]
           cl1 == [q EXCEPT !.receiptNotify = FALSE]
<1>1. db \in [Txs -> Row] /\ pend \in [Txs -> Pending] /\ p \in Pending
  BY NewPendingType DEF TypeInv, TypeOK, Record
<1>2. /\ db' = stored \/ db' = db
      /\ run' = ctx
      /\ pc' = "process" \/ pc' = AfterExec(r)
      /\ pend' = [pend EXCEPT ![t] = clr] \/ pend' = [pend EXCEPT ![t] = q]
         \/ pend' = [pend EXCEPT ![t] = cl1]
  BY Zenon DEF PendingToRunContext
<1>3. run'.tx = t /\ run'.act = a /\ run'.req = r /\ ~run'.completed
      /\ run'.updateType # "Delete" /\ "status" \notin run'.fields
  BY <1>2
<1>4. q \in Pending /\ q.status = p.status /\ q.remove = p.remove /\ q.del = (p.del \/ a = "Delete")
  <2> DEFINE d == p.del \/ del
  <2>1. d \in BOOLEAN /\ (d <=> p.del \/ a = "Delete") /\ p.del \in BOOLEAN
    BY <1>1 DEF Pending
  <2> HIDE DEF d, p
  <2> DEFINE x == [p EXCEPT !.del = d]
  <2>2. x \in Pending /\ x.status = p.status /\ x.remove = p.remove /\ x.del = d
    BY <1>1, <2>1 DEF Pending
  <2>3. d = (p.del \/ a = "Delete")
    BY <2>1
  <2>4. q = x
    BY Zenon DEF d
  <2> HIDE DEF q, x
  <2> QED BY <2>2, <2>3, <2>4
<1> HIDE DEF q
<1>5. /\ clr.status = q.status /\ clr.remove = q.remove /\ clr.del = q.del
      /\ cl1.status = q.status /\ cl1.remove = q.remove /\ cl1.del = q.del
  BY <1>4 DEF Pending
<1> HIDE DEF clr, cl1
<1>6. /\ \A u \in Txs \ {t} : pend'[u] = pend[u]
      /\ pend'[t].status = p.status /\ pend'[t].remove = p.remove
      /\ pend'[t].del = (p.del \/ a = "Delete")
  <2> HIDE DEF p
  <2> QED BY <1>1, <1>2, <1>4, <1>5
<1>7. /\ \A u \in Txs \ {t} : db'[u] = db[u]
      /\ db'[t].del = db[t].del /\ db'[t].status = db[t].status /\ db'[t].listed = db[t].listed
  <2> HIDE DEF p
  <2> QED BY <1>1, <1>2 DEF Row
<1>8. pc' \in {"process", "cycle", "respond"} /\ pc' \in {"process", AfterExec(r)}
  BY <1>2 DEF AfterExec
<1> QED BY <1>3, <1>6, <1>7, <1>8

LEMMA PlanSnapshot ==
    ASSUME TypeInv, PlanInv, ReqsAsked', NEW t \in Txs, NEW a \in Actions \cup {NoAction},
           NEW r \in Reqs \cup {NoReq}, NEW touched \in BOOLEAN,
           PendingToRunContext(t, a, r, touched),
           t \in inflight \/ a \in Actions, inflight' = inflight
    PROVE  PlanInv'
<1> DEFINE p == Record(t)
<1>1. /\ \A u \in Txs \ {t} : db'[u] = db[u] /\ pend'[u] = pend[u]
      /\ db'[t].del = db[t].del /\ db'[t].status = db[t].status
      /\ db'[t].listed = db[t].listed
      /\ pend'[t].status = p.status /\ pend'[t].remove = p.remove
      /\ pend'[t].del = (p.del \/ a = "Delete")
      /\ pc' \in {"process", "cycle", "respond"}
      /\ run'.tx = t /\ run'.act = a /\ run'.req = r /\ ~run'.completed
      /\ run'.updateType # "Delete" /\ "status" \notin run'.fields
  BY SnapshotMarks
<1>2. /\ p.del => pend[t].del \/ db[t].del
      /\ t \in inflight => p = pend[t]
  BY DEF Record, NewPending
<1>3. "Delete" \notin Actions => a # "Delete"
  BY DEF NoAction
<1> HIDE DEF p
<1>4. IndexSound'
  BY <1>1, <1>2 DEF PlanInv, IndexSound
<1>5. DeletesAsked'
  BY <1>1, <1>2, <1>3 DEF PlanInv, DeletesAsked
<1>6. PlanSound'
  BY <1>1 DEF PlanSound
<1> QED BY <1>4, <1>5, <1>6 DEF PlanInv

\* The request at the head of the batch names a transaction and an action.
LEMMA HeadRequest ==
    ASSUME TypeInv, ReqsAsked, NEW r \in Reqs, ExecRequest(r)
    PROVE  req[r].tx \in Txs /\ req[r].act \in Actions
<1>1. /\ req \in [Reqs -> Request] /\ batch \in Seq(Reqs) /\ batch # <<>> /\ r = Head(batch)
  BY DEF TypeInv, TypeOK, ExecRequest
<1>2. batch[1] = r /\ 1 \in 1..Len(batch)
  BY <1>1
<1>3. req[batch[1]].state # "unused"
  BY <1>2 DEF TypeInv, RunOK
<1> QED BY <1>1, <1>2, <1>3 DEF TypeInv, RunOK, ReqsAsked

LEMMA PlanExecRequest ==
    ASSUME TypeInv, PlanInv, ReqsAsked', NEW r \in Reqs, ExecRequest(r)
    PROVE  PlanInv'
<1>1. req[r].tx \in Txs /\ req[r].act \in Actions /\ inflight' = inflight
  BY HeadRequest DEF PlanInv, ExecRequest
<1>2. CASE \E touched \in BOOLEAN : PendingToRunContext(req[r].tx, req[r].act, r, touched)
  BY <1>1, <1>2, PlanSnapshot
<1>3. CASE pc' = "respond" /\ UNCHANGED <<db, pend>>
  <2>1. RowsSame /\ MarksSame /\ RunKept
    BY <1>3 DEF RowsSame, MarksSame, RunKept
  <2> QED BY <1>1, <2>1, PlanKept
<1> QED BY <1>2, <1>3 DEF ExecRequest

LEMMA PlanExecInflight ==
    ASSUME SuccessInv, PlanInv, ReqsAsked', NEW t \in Txs, ExecInflight(t)
    PROVE  PlanInv'
<1>1. /\ TypeInv /\ inflight' = inflight /\ t \in inflight
      /\ PendingToRunContext(t, NoAction, NoReq, FALSE)
  BY DEF SuccessInv, DataInv, ExecInflight
<1> QED BY <1>1, PlanSnapshot

\* What ExecStatus plans: the status it leaves is planned when it changed or
\* was confirmed, and then it is an outcome or Suspended.
LEMMA StatusPlan ==
    ASSUME TypeInv, NoResume, ExecStatus
    PROVE  LET t == run.tx
               to == StatusAfter(pend[t])
               changed == Confirmed \/ to # pend[t].status
           IN /\ t \in Txs
              /\ UNCHANGED <<db, ins, inflight, todo, chain, bcm, bq, replies>>
              /\ pc = "process" /\ pc' = "flush"
              /\ \A u \in Txs \ {t} : pend'[u] = pend[u]
              /\ pend'[t].status = to /\ pend'[t].del = pend[t].del
              /\ pend'[t].remove = pend[t].remove
              /\ pend'[t].receipt = pend[t].receipt /\ pend'[t].confirmed = pend[t].confirmed
              /\ run'.tx = t /\ run'.act = run.act /\ run'.req = run.req
              /\ IF changed THEN /\ run'.updateType = "Update" /\ run'.completed = (to # "Pending")
                                 /\ run'.fields = run.fields \cup {"status"}
                            ELSE run' = run
              /\ changed => to \in Resolved \cup {"Suspended"}
<1> DEFINE t == run.tx
           to == StatusAfter(pend[t])
           changed == Confirmed \/ to # pend[t].status
<1>1. t \in Txs /\ pend \in [Txs -> Pending] /\ run \in RunContext /\ pc = "process"
  BY DEF TypeInv, TypeOK, RunOK, ExecStatus
<1>2. /\ UNCHANGED <<db, ins, inflight, todo, chain, bcm, bq, replies>> /\ pc' = "flush"
      /\ pend' = [pend EXCEPT ![t].status = to]
  BY DEF ExecStatus, storeVars, apiVars, envVars
<1>3. IF changed THEN run' = [run EXCEPT !.updateType = "Update", !.fields = @ \cup {"status"},
                                        !.completed = to # "Pending"]
                 ELSE run' = run
  BY Zenon DEF ExecStatus
<1>4. changed => to \in Resolved \cup {"Suspended"}
  <2>1. run.act # "Resume"
    BY <1>1 DEF NoResume, RunContext, NoAction
  <2> QED BY <2>1 DEF StatusAfter, Resolved
<1> HIDE DEF to, changed
<1>5. /\ \A u \in Txs \ {t} : pend'[u] = pend[u]
      /\ pend'[t].status = to /\ pend'[t].del = pend[t].del
      /\ pend'[t].remove = pend[t].remove
      /\ pend'[t].receipt = pend[t].receipt /\ pend'[t].confirmed = pend[t].confirmed
  BY <1>1, <1>2 DEF Pending
<1>6. /\ run'.tx = t /\ run'.act = run.act /\ run'.req = run.req
      /\ IF changed THEN /\ run'.updateType = "Update" /\ run'.completed = (to # "Pending")
                         /\ run'.fields = run.fields \cup {"status"}
                    ELSE run' = run
  BY <1>1, <1>3 DEF RunContext
<1> QED BY <1>1, <1>2, <1>4, <1>5, <1>6 DEF to, changed

LEMMA PlanExecStatus ==
    ASSUME SuccessInv, PlanInv, ReqsAsked', NoResume, ExecStatus
    PROVE  PlanInv'
<1> DEFINE t == run.tx
           to == StatusAfter(pend[t])
           changed == Confirmed \/ to # pend[t].status
<1>0. TypeInv /\ DecisionSound
  BY DEF SuccessInv
<1>1. /\ t \in Txs /\ UNCHANGED <<db, inflight>>
      /\ pc = "process" /\ pc' = "flush"
      /\ \A u \in Txs \ {t} : pend'[u] = pend[u]
      /\ pend'[t].status = to /\ pend'[t].del = pend[t].del
      /\ pend'[t].remove = pend[t].remove
      /\ run'.tx = t
      /\ IF changed THEN /\ run'.updateType = "Update" /\ run'.completed = (to # "Pending")
                         /\ run'.fields = run.fields \cup {"status"}
                    ELSE run' = run
      /\ changed => to \in Resolved \cup {"Suspended"}
  BY <1>0, StatusPlan
<1> HIDE DEF to, changed
<1>2. IndexSound' /\ DeletesAsked'
  BY <1>1 DEF PlanInv, IndexSound, DeletesAsked
<1>3. "status" \notin run.fields
  BY <1>0, <1>1 DEF DecisionSound
<1>4. PlanSound'
  BY <1>1, <1>3 DEF PlanInv, PlanSound, Resolved
<1> QED BY <1>2, <1>4 DEF PlanInv

\* Tracking a hash leaves the marks of the record as they are.
LEMMA TrackMarks ==
    ASSUME NEW t \in Txs, NEW p \in Pending, pend \in [Txs -> Pending], Track(t, p)
    PROVE  /\ \A u \in Txs \ {t} : pend'[u] = pend[u]
           /\ pend'[t].status = p.status /\ pend'[t].del = p.del /\ pend'[t].remove = p.remove
<1> DEFINE a == [p EXCEPT !.tracking = p.hash, !.ran = TRUE]
           b == [p EXCEPT !.ran = TRUE]
<1>1. /\ a.status = p.status /\ a.del = p.del /\ a.remove = p.remove
      /\ b.status = p.status /\ b.del = p.del /\ b.remove = p.remove
  BY DEF Pending
<1>2. pend' = [pend EXCEPT ![t] = a] \/ pend' = [pend EXCEPT ![t] = b]
  BY Zenon DEF Track
<1> HIDE DEF a, b
<1> QED BY <1>1, <1>2

\* What processTransaction plans: a deletion or an update of other fields than
\* the status. It sends only for a record that is not to be deleted.
LEMMA ProcessPlan ==
    ASSUME TypeInv, ProcessNoSend \/ ProcessSend
    PROVE  /\ run.tx \in Txs /\ pc = "process" /\ pc' = "flush"
           /\ UNCHANGED <<db, seq, ins, inflight, stale, refresh, todo, bcm, replies>>
           /\ ~Confirmed /\ run.act \notin {"Suspend", "Resume"}
           /\ MarksSame
           /\ \A u \in Txs : /\ pend'[u].receipt = pend[u].receipt
                             /\ pend'[u].confirmed = pend[u].confirmed
           /\ \A u \in Txs \ {run.tx} : pend'[u] = pend[u]
           /\ run'.tx = run.tx /\ run'.act = run.act /\ run'.req = run.req
           /\ run'.completed = run.completed
           /\ "status" \in run'.fields => "status" \in run.fields
           /\ IF pend[run.tx].del THEN run'.updateType = "Delete"
              ELSE run'.updateType \in {run.updateType, "Update"}
           /\ ChainSame
<1> DEFINE t == run.tx
           p == pend[t]
<1>1. /\ t \in Txs /\ pend \in [Txs -> Pending] /\ run \in RunContext /\ p \in Pending
      /\ pc = "process" /\ chain \in [Txs -> Chain]
  BY DEF TypeInv, TypeOK, RunOK, ProcessNoSend, ProcessSend, Default
<1>2. /\ UNCHANGED <<db, seq, ins, inflight, stale, refresh, todo, bcm, replies>> /\ pc' = "flush"
      /\ ~Confirmed /\ run.act \notin {"Suspend", "Resume"}
  BY DEF ProcessNoSend, ProcessSend, Default, storeVars, apiVars, envVars
<1>3. CASE ProcessNoSend
  <2>1. Track(t, p) /\ chain' = chain
    BY <1>3 DEF ProcessNoSend
  <2>2. /\ \A u \in Txs \ {t} : pend'[u] = pend[u]
        /\ pend'[t].receipt = p.receipt /\ pend'[t].confirmed = p.confirmed
    BY <1>1, <2>1, TrackKeeps
  <2>3. pend'[t].status = p.status /\ pend'[t].del = p.del /\ pend'[t].remove = p.remove
    BY <1>1, <2>1, TrackMarks
  <2>4. run' = IF p.del THEN [run EXCEPT !.updateType = "Delete"] ELSE run
    BY <1>3 DEF ProcessNoSend
  <2>5. /\ run'.tx = run.tx /\ run'.act = run.act /\ run'.req = run.req
        /\ run'.completed = run.completed /\ run'.fields = run.fields
        /\ IF p.del THEN run'.updateType = "Delete"
           ELSE run'.updateType \in {run.updateType, "Update"}
    BY <1>1, <2>4 DEF RunContext
  <2>6. ChainSame
    BY <2>1 DEF ChainSame
  <2>7. MarksSame
    BY <2>2, <2>3 DEF MarksSame
  <2> QED BY <1>1, <1>2, <2>2, <2>5, <2>6, <2>7
<1>4. CASE ProcessSend
  <2> DEFINE have(s) == s.out \in {"known", "low"} /\ p.hash # NoHash
             good(s) == s.out = "ok" \/ have(s) \/ (s.out = "known" /\ p.first)
             q(s) == [p EXCEPT !.hash = IF s.out = "ok" THEN s.hash ELSE @,
                               !.first = @ \/ good(s)]
             fields(s) == (IF s.out = "ok" THEN {"hash"} ELSE {})
                          \cup (IF q(s).first # p.first THEN {"first"} ELSE {})
  <2>1. PICK s \in Sends(chain[t]) :
          /\ chain' = [chain EXCEPT ![t] = s.chain]
          /\ run' = [run EXCEPT !.fields = @ \cup fields(s),
               !.updateType = IF s.out = "ok" \/ p.first \/ ~good(s) THEN "Update" ELSE @]
          /\ IF good(s) THEN Track(t, q(s))
             ELSE pend' = [pend EXCEPT ![t] = q(s)] /\ UNCHANGED bq
    BY <1>4, Zenon DEF ProcessSend
  <2>2. /\ s.chain.mined = chain[t].mined /\ s.chain.outcome = chain[t].outcome
        /\ s.chain.final = chain[t].final /\ (s.out = "ok" => s.hash \in Hashes)
    BY <1>1, SendsType
  <2>3. ChainSame
    BY <1>1, <2>1, <2>2 DEF ChainSame
  <2>4. fields(s) \in SUBSET {"hash", "first"}
    OBVIOUS
  <2>5. /\ run'.tx = run.tx /\ run'.act = run.act /\ run'.req = run.req
        /\ run'.completed = run.completed
        /\ "status" \in run'.fields => "status" \in run.fields
        /\ run'.updateType \in {run.updateType, "Update"}
    <3> DEFINE fs == fields(s)
               u == IF s.out = "ok" \/ p.first \/ ~good(s) THEN "Update" ELSE run.updateType
    <3>1. run' = [run EXCEPT !.fields = @ \cup fs, !.updateType = u] /\ "status" \notin fs
          /\ u \in {run.updateType, "Update"}
      BY <2>1, <2>4
    <3> HIDE DEF fs, u
    <3> QED BY <1>1, <3>1 DEF RunContext
  <2>6. /\ q(s) \in Pending /\ q(s).receipt = p.receipt /\ q(s).confirmed = p.confirmed
        /\ q(s).status = p.status /\ q(s).del = p.del /\ q(s).remove = p.remove
    <3> DEFINE h == IF s.out = "ok" THEN s.hash ELSE p.hash
               f == p.first \/ good(s)
    <3>1. h \in HashOrNone /\ f \in BOOLEAN
      BY <1>1, <2>2 DEF Pending, HashOrNone
    <3> HIDE DEF h, f, p
    <3>2. LET x == [p EXCEPT !.hash = h, !.first = f]
          IN x \in Pending /\ x.receipt = p.receipt /\ x.confirmed = p.confirmed
             /\ x.status = p.status /\ x.del = p.del /\ x.remove = p.remove
      BY <1>1, <3>1 DEF Pending
    <3> QED BY <3>2, Zenon DEF h, f
  <2>7. Track(t, q(s)) \/ pend' = [pend EXCEPT ![t] = q(s)]
    BY <2>1, Zenon
  <2> HIDE DEF q
  <2>8. /\ \A u \in Txs \ {t} : pend'[u] = pend[u]
        /\ pend'[t].receipt = p.receipt /\ pend'[t].confirmed = p.confirmed
        /\ pend'[t].status = p.status /\ pend'[t].del = p.del /\ pend'[t].remove = p.remove
    <3>1. CASE Track(t, q(s))
      BY <1>1, <2>6, <3>1, TrackKeeps, TrackMarks
    <3>2. CASE pend' = [pend EXCEPT ![t] = q(s)]
      BY <1>1, <2>6, <3>2
    <3> QED BY <2>7, <3>1, <3>2
  <2>9. ~p.del
    BY <1>4 DEF ProcessSend
  <2>10. MarksSame
    BY <2>8 DEF MarksSame
  <2> QED BY <1>1, <1>2, <2>3, <2>5, <2>8, <2>9, <2>10
<1> QED BY <1>3, <1>4

LEMMA PlanProcess ==
    ASSUME TypeInv, PlanInv, ReqsAsked', SuccessInv, ProcessNoSend \/ ProcessSend
    PROVE  PlanInv'
<1>1. /\ run.tx \in Txs /\ pc = "process" /\ pc' = "flush" /\ UNCHANGED <<db, inflight>>
      /\ MarksSame /\ run'.tx = run.tx /\ run'.completed = run.completed
      /\ "status" \in run'.fields => "status" \in run.fields
      /\ IF pend[run.tx].del THEN run'.updateType = "Delete"
         ELSE run'.updateType \in {run.updateType, "Update"}
  BY ProcessPlan
<1>2. IndexSound' /\ DeletesAsked'
  BY <1>1 DEF PlanInv, IndexSound, DeletesAsked, MarksSame
<1>3. "status" \notin run'.fields
  BY <1>1 DEF SuccessInv, DecisionSound
<1>4. PlanSound'
  BY <1>1, <1>3 DEF PlanInv, PlanSound, DeletesAsked
<1> QED BY <1>2, <1>4 DEF PlanInv

LEMMA PlanExecNotDue ==
    ASSUME SuccessInv, PlanInv, ReqsAsked', ExecNotDue
    PROVE  PlanInv'
<1>1. UNCHANGED <<db, inflight, pend, run>> /\ pc = "process" /\ pc' = "flush"
  BY DEF ExecNotDue, Default, storeVars, memVars
<1>2. "status" \notin run.fields
  BY <1>1 DEF SuccessInv, DecisionSound
<1>3. IndexSound' /\ DeletesAsked'
  BY <1>1 DEF PlanInv, IndexSound, DeletesAsked
<1>4. PlanSound'
  BY <1>1, <1>2 DEF PlanInv, PlanSound
<1> QED BY <1>3, <1>4 DEF PlanInv

\* What updateTransaction does to the index.
LEMMA UpdatedIndex ==
    ASSUME NEW t \in Txs, db \in [Txs -> Row], pend \in [Txs -> Pending]
    PROVE  /\ Updated(t).listed = IF Store = "postgres" THEN Updated(t).status = "Pending"
                                  ELSE db[t].listed /\ Updated(t).status = "Pending"
           /\ Updated(t).del \in {pend[t].del, db[t].del}
<1> DEFINE st == IF "status" \in run.fields THEN pend[t].status ELSE db[t].status
           hs == IF "hash" \in run.fields THEN pend[t].hash ELSE db[t].hash
           fi == IF "first" \in run.fields THEN pend[t].first ELSE db[t].first
           de == IF "del" \in run.fields THEN pend[t].del ELSE db[t].del
           li == IF Store = "postgres" THEN st = "Pending" ELSE db[t].listed /\ st = "Pending"
           x == [db[t] EXCEPT !.status = st, !.hash = hs, !.first = fi, !.del = de, !.listed = li]
<1>1. db[t] \in Row
  OBVIOUS
<1>2. Updated(t) = x
  BY Zenon DEF Updated
<1>3. de \in {pend[t].del, db[t].del}
  OBVIOUS
<1> HIDE DEF st, hs, fi, de, li
<1>4. x.del = de /\ x.status = st /\ x.listed = li
  BY <1>1 DEF Row
<1>5. li = IF Store = "postgres" THEN st = "Pending" ELSE db[t].listed /\ st = "Pending"
  BY DEF li
<1> HIDE DEF x
<1> QED BY <1>2, <1>3, <1>4, <1>5

LEMMA PlanFlushUpdate ==
    ASSUME TypeInv, PlanInv, ReqsAsked', NoResume, FlushUpdate
    PROVE  PlanInv'
<1> DEFINE t == run.tx
           complete == run.act # "Resume" /\ run.completed
<1>1. /\ t \in Txs /\ db \in [Txs -> Row] /\ pend \in [Txs -> Pending] /\ pc = "flush"
      /\ run \in RunContext /\ inflight' = inflight
  BY DEF TypeInv, TypeOK, RunOK, FlushUpdate
<1>2. /\ db' = [db EXCEPT ![t] = Updated(t)]
      /\ pend' = [pend EXCEPT ![t].remove = @ \/ complete]
      /\ pc' = IF complete /\ pend[t].status \in Resolved THEN "emit" ELSE AfterExec(run.req)
  BY Zenon DEF FlushUpdate
<1>3. pc' \notin {"process", "flush"}
  BY <1>2 DEF AfterExec
<1>4. complete => run.completed
  OBVIOUS
<1> HIDE DEF complete
<1>5. /\ \A u \in Txs \ {t} : pend'[u] = pend[u] /\ db'[u] = db[u]
      /\ pend'[t].del = pend[t].del /\ (pend'[t].remove => pend[t].remove \/ run.completed)
  BY <1>1, <1>2, <1>4 DEF Pending
<1>6. /\ db'[t].status = IF "status" \in run.fields THEN pend[t].status ELSE db[t].status
      /\ db'[t].listed = IF Store = "postgres" THEN db'[t].status = "Pending"
                         ELSE db[t].listed /\ db'[t].status = "Pending"
      /\ db'[t].del \in {pend[t].del, db[t].del}
  BY <1>1, <1>2, UpdatedKeeps, UpdatedIndex
<1>7. run.completed => ~db'[t].listed
  BY <1>1, <1>6 DEF PlanInv, PlanSound, Resolved
<1>8. db'[t].listed => db[t].listed
  BY <1>1, <1>6, StoreAssumption DEF PlanInv, PlanSound, IndexSound, Resolved
<1>9. IndexSound'
  <2>1. /\ db'[t].listed => db'[t].status = "Pending"
        /\ Store = "postgres" /\ db'[t].status = "Pending" => db'[t].listed
    BY <1>6
  <2>2. t \in inflight /\ pend'[t].remove => ~db'[t].listed
    BY <1>1, <1>5, <1>7, <1>8 DEF PlanInv, IndexSound
  <2> QED BY <1>1, <1>5, <2>1, <2>2 DEF PlanInv, IndexSound
<1>10. DeletesAsked'
  BY <1>1, <1>5, <1>6 DEF PlanInv, DeletesAsked
<1>11. PlanSound'
  BY <1>3 DEF PlanSound
<1> QED BY <1>9, <1>10, <1>11 DEF PlanInv

LEMMA PlanFlushDelete ==
    ASSUME TypeInv, PlanInv, ReqsAsked', FlushDelete
    PROVE  PlanInv'
<1> DEFINE t == run.tx
<1>1. /\ t \in Txs /\ db \in [Txs -> Row] /\ pend \in [Txs -> Pending] /\ inflight' = inflight
      /\ db' = [db EXCEPT ![t] = NoRow] /\ pend' = [pend EXCEPT ![t].remove = TRUE]
      /\ pc' = "emit"
  BY DEF TypeInv, TypeOK, RunOK, FlushDelete
<1>2. /\ db'[t].status = "None" /\ ~db'[t].listed /\ ~db'[t].del
      /\ \A u \in Txs \ {t} : db'[u] = db[u] /\ pend'[u] = pend[u]
      /\ pend'[t].del = pend[t].del
  BY <1>1 DEF NoRow, Pending
<1>3. IndexSound'
  BY <1>1, <1>2 DEF PlanInv, IndexSound
<1>4. DeletesAsked'
  BY <1>1, <1>2 DEF PlanInv, DeletesAsked
<1>5. PlanSound'
  BY <1>1 DEF PlanSound
<1> QED BY <1>3, <1>4, <1>5 DEF PlanInv

\* What a failed flush leaves: at most the index of LevelDB is ahead of the row.
LEMMA FailEffect ==
    ASSUME TypeInv, FlushFail
    PROVE  /\ run.tx \in Txs /\ pc = "flush" /\ pc' \in {"cycle", "respond"}
           /\ UNCHANGED <<seq, ins, inflight, pend, stale, refresh, todo, run, chain, bcm, bq, replies>>
           /\ \A u \in Txs : /\ db'[u].status = db[u].status /\ db'[u].del = db[u].del
                             /\ db'[u].receipt = db[u].receipt
                             /\ db'[u].listed => db[u].listed
                             /\ db'[u].listed = db[u].listed \/ Store = "leveldb"
           /\ Fault("write") \/ db[run.tx].status = "None"
<1>1. /\ run.tx \in Txs /\ pc = "flush" /\ db \in [Txs -> Row]
      /\ db' = db \/ (Store = "leveldb" /\ db' = [db EXCEPT ![run.tx].listed = FALSE])
      /\ pc' \in {"cycle", "respond"}
      /\ Fault("write") \/ db[run.tx].status = "None"
      /\ UNCHANGED <<seq, ins, inflight, pend, stale, refresh, todo, run, chain, bcm, bq, replies>>
  BY DEF TypeInv, TypeOK, RunOK, FlushFail, AfterExec, memVars, envVars
<1>2. \A u \in Txs : /\ db'[u].status = db[u].status /\ db'[u].del = db[u].del
                     /\ db'[u].receipt = db[u].receipt
                     /\ db'[u].listed => db[u].listed
                     /\ db'[u].listed = db[u].listed \/ Store = "leveldb"
  BY <1>1 DEF Row
<1> QED BY <1>1, <1>2

LEMMA PlanFlushFail ==
    ASSUME TypeInv, PlanInv, ReqsAsked', FlushFail
    PROVE  PlanInv'
<1>1. /\ pc' \in {"cycle", "respond"} /\ UNCHANGED <<inflight, pend>>
      /\ \A u \in Txs : /\ db'[u].status = db[u].status /\ db'[u].del = db[u].del
                        /\ db'[u].listed => db[u].listed
                        /\ db'[u].listed = db[u].listed \/ Store = "leveldb"
  BY FailEffect
<1>2. IndexSound'
  BY <1>1 DEF PlanInv, IndexSound
<1>3. DeletesAsked'
  BY <1>1 DEF PlanInv, DeletesAsked
<1>4. PlanSound'
  BY <1>1 DEF PlanSound
<1> QED BY <1>2, <1>3, <1>4 DEF PlanInv

LEMMA PlanRestart ==
    ASSUME PlanInv, ReqsAsked', Restart
    PROVE  PlanInv'
<1>1. db' = db /\ inflight' = {} /\ pc' = "idle" /\ pend' = [t \in Txs |-> NoPending]
  BY DEF Restart, storeVars
<1>2. ~NoPending.del
  BY DEF NoPending, NewPending, NoRow
<1> QED BY <1>1, <1>2 DEF PlanInv, IndexSound, DeletesAsked, PlanSound

LEMMA PlanStep ==
    ASSUME SuccessInv, PlanInv, NoResume, [Next]_vars
    PROVE  PlanInv'
<1>0. TypeInv /\ ReqsAsked'
  BY ReqsStep DEF SuccessInv, PlanInv
<1>1. CASE \E t \in Txs : Insert(t)
  BY <1>0, <1>1, PlanQuiet, PlanInsertCommit
<1>2. CASE \E r \in Reqs : ApiRequest(r)
  BY <1>0, <1>2, PlanQuiet
<1>3. CASE Process
  BY <1>0, <1>3, PlanExecStatus, PlanExecNotDue, PlanProcess, PlanQuiet DEF Process
<1>4. CASE Flush
  BY <1>0, <1>4, PlanQuiet, PlanFlushUpdate, PlanFlushDelete, PlanFlushFail DEF Flush
<1>5. CASE Loop
  BY <1>0, <1>3, <1>4, <1>5, PlanQuiet, PlanExecRequest, PlanRespond, PlanUpdateInflightSet,
     PlanExecInflight DEF Loop
<1>6. CASE Bcm
  BY <1>0, <1>6, PlanQuiet, PlanCallback DEF Bcm
<1>7. CASE Blockchain
  BY <1>0, <1>7, PlanQuiet
<1>8. CASE Restart
  BY <1>0, <1>8, PlanRestart
<1>9. CASE UNCHANGED vars
  BY <1>0, <1>9, PlanQuiet
<1> QED BY <1>1, <1>2, <1>5, <1>6, <1>7, <1>8, <1>9 DEF Next

(***************************************************************************)
(* Tracking                                                                *)
(***************************************************************************)

\* What the outcome of a transaction depends on. Light mode may confirm a hash in
\* another block than the one whose receipt it has delivered, so the mode is full.
\* No request resumes or updates a transaction, and where requests delete, writes
\* do not fail: a deletion that fails half way leaves a pending transaction whose
\* hash is tracked and whose receipt nobody takes.
OutcomeCond ==
    /\ ChainTrackingMode = "full"
    /\ Actions \subseteq {"Suspend", "Delete"}
    /\ "Delete" \in Actions => ~Fault("write")

\* The plan to delete t is about to be carried out.
Deleting(t) == pc = "flush" /\ run.tx = t /\ run.updateType = "Delete"

\* No receipt passes an in-flight record by, and none is confirmed without one.
Informed ==
    \A t \in inflight :
        /\ (\E h \in Hashes : bcm[t][h] \in {"ok", "fail"}) => pend[t].receipt # "none"
        /\ pend[t].confirmed => pend[t].receipt # "none"

\* A transaction that may yet join the in-flight set is not tracked: there is no
\* receipt it could miss.
Untracked ==
    \A t \in Txs \ inflight : (db[t].listed \/ Submitting(t)) /\ ~Deleting(t) =>
        /\ \A h \in Hashes : bcm[t][h] = "off"
        /\ \A i \in 1..Len(bq) : bq[i].tx = t => bq[i].op # "add"

\* The execution in progress decides by a receipt.
DecidesInformed == pc = "process" /\ run.confirmed => run.receipt # "none"

TrackInv == Informed /\ Untracked /\ DecidesInformed

ReceiptsSame == \A t \in inflight : /\ pend'[t].receipt = pend[t].receipt
                                    /\ pend'[t].confirmed = pend[t].confirmed

\* A step that leaves records and tracking alone, lists no row and finishes no
\* deletion of a row that stays.
LEMMA TrackKept ==
    ASSUME DecisionSound, TrackInv, ReceiptsSame, SubmittingShrinks,
           \A t \in Txs : db'[t].listed => db[t].listed,
           bcm' = bcm, bq' = bq, inflight' = inflight,
           \A t \in Txs \ inflight : Deleting(t) => Deleting(t)' \/ ~db'[t].listed,
           DecidesInformed'
    PROVE  TrackInv'
<1>1. Informed'
  BY DEF TrackInv, Informed, ReceiptsSame
<1>2. \A t \in Txs : Deleting(t) => ~(ins'[t] \in {"new", "inserting"})
  BY DEF Deleting, DecisionSound, Submitting, SubmittingShrinks
<1>3. Untracked'
  <2> SUFFICES ASSUME NEW t \in Txs \ inflight, db'[t].listed \/ Submitting(t)', ~Deleting(t)'
               PROVE  /\ \A h \in Hashes : bcm[t][h] = "off"
                      /\ \A i \in 1..Len(bq) : bq[i].tx = t => bq[i].op # "add"
    BY DEF Untracked
  <2>1. db[t].listed \/ Submitting(t)
    BY DEF SubmittingShrinks, Submitting
  <2>2. ~Deleting(t)
    BY <1>2 DEF Submitting
  <2> QED BY <2>1, <2>2 DEF TrackInv, Untracked
<1> QED BY <1>1, <1>3 DEF TrackInv

LEMMA InitTrack == Init => TrackInv
BY DEF Init, TrackInv, Informed, Untracked, DecidesInformed

LEMMA TrackQuiet ==
    ASSUME SuccessInv, TrackInv,
           \/ \E t \in Txs : Insert(t) /\ ~InsertCommit(t)
           \/ \E r \in Reqs : ApiRequest(r)
           \/ BeginCycle \/ SkipInflightSet \/ EndCycle \/ ProcessPanic \/ FlushNone \/ Emit
           \/ ExecNotDue
           \/ \E t \in Txs, h \in Hashes, o \in Outcomes : Mine(t, h, o)
           \/ UNCHANGED vars
    PROVE  TrackInv'
<1>0. TypeInv /\ DecisionSound
  BY DEF SuccessInv
<1>1. /\ UNCHANGED <<db, inflight, pend, bcm, bq>> /\ SubmittingShrinks
      /\ (pc' = pc /\ run' = run) \/ (pc' # "process" /\ (pc = "flush" => run.updateType # "Delete"))
  <2>0. ins \in [Txs -> {"new", "inserting", "inserted", "marked", "done", "failed"}]
    BY <1>0 DEF TypeInv, TypeOK
  <2>1. CASE \E t \in Txs : Insert(t) /\ ~InsertCommit(t)
    BY <2>0, <2>1 DEF Insert, InsertBegin, InsertFail, InsertHistoryFail, InsertMarkStale,
                InsertMarkUpdate, SubmittingShrinks, Submitting, storeVars, memVars, loopVars, envVars
  <2>2. CASE \E r \in Reqs : ApiRequest(r)
    BY <2>2 DEF ApiRequest, RequestQueue, RequestWait, RequestTimeout, SubmittingShrinks, Submitting,
                storeVars, memVars, loopVars, envVars
  <2>3. CASE BeginCycle \/ SkipInflightSet \/ EndCycle \/ ProcessPanic \/ FlushNone \/ Emit \/ ExecNotDue
    BY <2>3 DEF BeginCycle, SkipInflightSet, EndCycle, ProcessPanic, FlushNone, Emit, ExecNotDue, Default,
                AfterExec, SubmittingShrinks, Submitting, storeVars, memVars, envVars
  <2>4. CASE \E t \in Txs, h \in Hashes, o \in Outcomes : Mine(t, h, o)
    BY <2>4 DEF Mine, SubmittingShrinks, Submitting, storeVars, memVars, loopVars
  <2>5. CASE UNCHANGED vars
    BY <2>5 DEF vars, SubmittingShrinks, Submitting
  <2> QED BY <2>1, <2>2, <2>3, <2>4, <2>5
<1>2. ReceiptsSame /\ DecidesInformed'
  BY <1>1 DEF ReceiptsSame, TrackInv, DecidesInformed
<1>3. \A t \in Txs \ inflight : Deleting(t) => Deleting(t)'
  BY <1>1 DEF Deleting
<1> QED BY <1>0, <1>1, <1>2, <1>3, TrackKept

LEMMA TrackInsertCommit ==
    ASSUME SuccessInv, TrackInv, NEW t \in Txs, InsertCommit(t)
    PROVE  TrackInv'
<1>0. /\ db \in [Txs -> Row] /\ DecisionSound
      /\ ins \in [Txs -> {"new", "inserting", "inserted", "marked", "done", "failed"}]
  BY DEF SuccessInv, TypeInv, TypeOK
<1>1. /\ ins[t] = "inserting" /\ ins' = [ins EXCEPT ![t] = "inserted"]
      /\ db' = [db EXCEPT ![t] = [NoRow EXCEPT !.status = "Pending", !.listed = TRUE]]
      /\ UNCHANGED <<inflight, pend, pc, run, bcm, bq>>
  BY DEF InsertCommit, memVars, loopVars, envVars
<1>2. Submitting(t) /\ ~Deleting(t)
  BY <1>0, <1>1 DEF Submitting, Deleting, DecisionSound
<1>3. \A u \in Txs \ {t} : db'[u] = db[u] /\ ins'[u] = ins[u]
  BY <1>0, <1>1
<1>4. Untracked'
  BY <1>1, <1>2, <1>3 DEF TrackInv, Untracked, Submitting, Deleting
<1> QED BY <1>1, <1>4 DEF TrackInv, Informed, DecidesInformed

LEMMA TrackRespond ==
    ASSUME SuccessInv, TrackInv, NEW r \in Reqs, Respond(r)
    PROVE  TrackInv'
<1>0. DecisionSound /\ pend \in [Txs -> Pending] /\ inflight \subseteq Txs
  BY DEF SuccessInv, TypeInv, TypeOK
<1>1. /\ UNCHANGED <<inflight, bcm, bq, ins, db>> /\ pc = "respond"
      /\ pc' \notin {"process", "flush"}
      /\ pend' = IF run.tx \in inflight THEN pend ELSE [pend EXCEPT ![run.tx] = NoPending]
  BY DEF Respond, storeVars, envVars
<1>2. ReceiptsSame /\ SubmittingShrinks /\ DecidesInformed'
  BY <1>0, <1>1 DEF ReceiptsSame, SubmittingShrinks, Submitting, DecidesInformed
<1>3. \A t \in Txs : ~Deleting(t)
  BY <1>1 DEF Deleting
<1> QED BY <1>0, <1>1, <1>2, <1>3, TrackKept

\* A transaction joins the in-flight set untracked, and leaves it unlisted.
LEMMA TrackUpdateInflightSet ==
    ASSUME SuccessInv, PlanInv, TrackInv, UpdateInflightSet
    PROVE  TrackInv'
<1>0. TypeInv /\ inflight \subseteq Txs
  BY DEF SuccessInv, TypeInv, TypeOK
<1>1. /\ UNCHANGED <<db, ins, bcm, bq>> /\ pc = "requests" /\ pc' = "cycle"
      /\ inflight' = Kept \cup Polled
  BY DEF UpdateInflightSet, storeVars, envVars
<1>2. /\ Kept \subseteq inflight /\ Polled \subseteq Txs
      /\ \A t \in Polled : db[t].listed /\ t \notin Kept
      /\ \A t \in Kept : pend'[t] = pend[t] /\ ~pend[t].remove
      /\ \A t \in Polled : pend'[t] = NewPending(db[t], TRUE)
  BY <1>0, RefreshEffect
<1>3. \A row : NewPending(row, TRUE).receipt = "none" /\ ~NewPending(row, TRUE).confirmed
  BY DEF NewPending
<1>4. \A t \in Txs : ~Deleting(t) /\ ~Deleting(t)'
  BY <1>1 DEF Deleting
<1>5. \A t \in inflight : t \notin Kept => ~db[t].listed
  BY <1>0 DEF Kept, PlanInv, IndexSound
<1>6. \A t \in Polled : t \notin inflight
  BY <1>2, <1>5
<1>7. Informed'
  <2> SUFFICES ASSUME NEW t \in Kept \cup Polled
               PROVE  /\ (\E h \in Hashes : bcm[t][h] \in {"ok", "fail"}) => pend'[t].receipt # "none"
                      /\ pend'[t].confirmed => pend'[t].receipt # "none"
    BY <1>1 DEF Informed
  <2>1. CASE t \in Kept
    BY <1>2, <2>1 DEF TrackInv, Informed
  <2>2. CASE t \in Polled
    <3>1. \A h \in Hashes : bcm[t][h] = "off"
      BY <1>2, <1>4, <1>6, <2>2 DEF TrackInv, Untracked
    <3> QED BY <1>2, <1>3, <2>2, <3>1
  <2> QED BY <2>1, <2>2
<1>8. Untracked'
  <2> SUFFICES ASSUME NEW t \in Txs, t \notin Kept, t \notin Polled, db[t].listed \/ Submitting(t)
               PROVE  /\ \A h \in Hashes : bcm[t][h] = "off"
                      /\ \A i \in 1..Len(bq) : bq[i].tx = t => bq[i].op # "add"
    BY <1>1 DEF Untracked, Submitting
  <2>1. t \notin inflight
    BY <1>5 DEF SuccessInv, DataInv, SubmittingUnknown
  <2> QED BY <1>4, <2>1 DEF TrackInv, Untracked
<1> QED BY <1>1, <1>7, <1>8 DEF TrackInv, DecidesInformed

LEMMA TrackSnapshot ==
    ASSUME SuccessInv, TrackInv, NEW t \in Txs, NEW a \in Actions \cup {NoAction},
           NEW r \in Reqs \cup {NoReq}, NEW touched \in BOOLEAN,
           PendingToRunContext(t, a, r, touched), pc # "flush",
           UNCHANGED <<inflight, bcm, bq, ins>>
    PROVE  TrackInv'
<1> DEFINE p == Record(t)
<1>0. TypeInv /\ DecisionSound /\ inflight \subseteq Txs
  BY DEF SuccessInv, TypeInv, TypeOK
<1>1. /\ \A u \in Txs \ {t} : db'[u] = db[u] /\ pend'[u] = pend[u]
      /\ db'[t].listed = db[t].listed
      /\ pend'[t].receipt = p.receipt /\ pend'[t].confirmed = p.confirmed
      /\ run'.receipt = p.receipt /\ run'.confirmed = p.confirmed
  BY <1>0, SnapshotEffect
<1>2. /\ t \in inflight => p = pend[t]
      /\ t \notin inflight => ~p.confirmed
  BY DEF Record, NewPending
<1> HIDE DEF p
<1>3. ReceiptsSame
  BY <1>0, <1>1, <1>2 DEF ReceiptsSame
<1>4. DecidesInformed'
  BY <1>1, <1>2 DEF DecidesInformed, TrackInv, Informed
<1>5. SubmittingShrinks /\ \A u \in Txs : ~Deleting(u)
  BY DEF SubmittingShrinks, Submitting, Deleting
<1>6. \A u \in Txs : db'[u].listed => db[u].listed
  BY <1>1
<1> QED BY <1>0, <1>3, <1>4, <1>5, <1>6, TrackKept

LEMMA TrackExec ==
    ASSUME SuccessInv, PlanInv, TrackInv,
           (\E r \in Reqs : ExecRequest(r)) \/ (\E t \in Txs : ExecInflight(t))
    PROVE  TrackInv'
<1>0. TypeInv /\ DecisionSound
  BY DEF SuccessInv
<1>1. CASE \E r \in Reqs : ExecRequest(r)
  <2>1. PICK r \in Reqs : ExecRequest(r)
    BY <1>1
  <2>2. /\ req[r].tx \in Txs /\ req[r].act \in Actions
        /\ UNCHANGED <<inflight, bcm, bq, ins>> /\ pc = "requests"
    BY <1>0, <2>1, HeadRequest DEF PlanInv, ExecRequest, envVars
  <2>3. CASE \E touched \in BOOLEAN : PendingToRunContext(req[r].tx, req[r].act, r, touched)
    BY <2>2, <2>3, TrackSnapshot
  <2>4. CASE pc' = "respond" /\ UNCHANGED <<db, pend>>
    <3>1. ReceiptsSame /\ SubmittingShrinks /\ DecidesInformed' /\ \A u \in Txs : ~Deleting(u)
      BY <2>2, <2>4 DEF ReceiptsSame, SubmittingShrinks, Submitting, DecidesInformed, Deleting
    <3> QED BY <1>0, <2>2, <2>4, <3>1, TrackKept
  <2> QED BY <2>1, <2>3, <2>4 DEF ExecRequest
<1>2. CASE \E t \in Txs : ExecInflight(t)
  <2>1. PICK t \in Txs : ExecInflight(t)
    BY <1>2
  <2>2. /\ UNCHANGED <<inflight, bcm, bq, ins>> /\ pc = "cycle"
        /\ PendingToRunContext(t, NoAction, NoReq, FALSE)
    BY <2>1 DEF ExecInflight, envVars
  <2> QED BY <2>2, TrackSnapshot
<1> QED BY <1>1, <1>2

LEMMA TrackExecStatus ==
    ASSUME SuccessInv, TrackInv, NoResume, ExecStatus
    PROVE  TrackInv'
<1>0. TypeInv /\ DecisionSound /\ inflight \subseteq Txs
  BY DEF SuccessInv, TypeInv, TypeOK
<1>1. /\ UNCHANGED <<db, ins, inflight, bcm, bq>> /\ pc = "process" /\ pc' = "flush"
      /\ \A u \in Txs \ {run.tx} : pend'[u] = pend[u]
      /\ pend'[run.tx].receipt = pend[run.tx].receipt /\ pend'[run.tx].confirmed = pend[run.tx].confirmed
  BY <1>0, StatusPlan
<1>2. ReceiptsSame /\ SubmittingShrinks /\ DecidesInformed' /\ \A u \in Txs : ~Deleting(u)
  BY <1>0, <1>1 DEF ReceiptsSame, SubmittingShrinks, Submitting, DecidesInformed, Deleting
<1> QED BY <1>0, <1>1, <1>2, TrackKept

\* An element of a concatenation is an element of one part.
LEMMA ConcatElement ==
    ASSUME NEW N, NEW a \in Seq(N), NEW b \in Seq(N), NEW i \in 1..Len(a \o b)
    PROVE  \/ i \in 1..Len(a) /\ (a \o b)[i] = a[i]
           \/ i - Len(a) \in 1..Len(b) /\ (a \o b)[i] = b[i - Len(a)]
BY ConcatProperties

\* Tracking queues notifications of the one transaction only.
LEMMA TrackNotes ==
    ASSUME TypeInv, NEW t \in Txs, NEW p \in Pending, Track(t, p)
    PROVE  \A i \in 1..Len(bq') : bq'[i].tx = t \/ \E j \in 1..Len(bq) : bq'[i] = bq[j]
<1> DEFINE Note == [op : {"add", "remove"}, tx : Txs, hash : HashOrNone]
           x == [op |-> "remove", tx |-> t, hash |-> p.tracking]
           y == [op |-> "add", tx |-> t, hash |-> p.hash]
           removed == IF p.tracking = NoHash THEN <<>> ELSE <<x>>
           added == <<y>>
<1>1. bq \in Seq(Note) /\ p.hash \in HashOrNone /\ p.tracking \in HashOrNone
  BY DEF TypeInv, TypeOK, Pending
<1>2. x \in Note /\ y \in Note /\ x.tx = t /\ y.tx = t
  BY <1>1
<1>3. bq' = bq \o removed \o added \/ bq' = bq \o removed \/ bq' = bq
  BY Zenon DEF Track
<1> HIDE DEF x, y, Note
<1>4. /\ removed \in Seq(Note) /\ added \in Seq(Note)
      /\ \A i \in 1..Len(removed) : removed[i].tx = t
      /\ \A i \in 1..Len(added) : added[i].tx = t
  BY <1>2
<1> HIDE DEF removed, added
<1>5. bq \o removed \in Seq(Note)
  BY <1>1, <1>4, ConcatProperties
<1>6. ASSUME NEW i \in 1..Len(bq \o removed)
      PROVE  (bq \o removed)[i].tx = t \/ \E j \in 1..Len(bq) : (bq \o removed)[i] = bq[j]
  <2>1. \/ i \in 1..Len(bq) /\ (bq \o removed)[i] = bq[i]
        \/ i - Len(bq) \in 1..Len(removed) /\ (bq \o removed)[i] = removed[i - Len(bq)]
    BY <1>1, <1>4, ConcatElement
  <2> QED BY <1>4, <2>1
<1>7. ASSUME NEW i \in 1..Len(bq \o removed \o added)
      PROVE  (bq \o removed \o added)[i].tx = t \/ \E j \in 1..Len(bq) : (bq \o removed \o added)[i] = bq[j]
  <2> DEFINE z == bq \o removed
  <2>1. \/ i \in 1..Len(z) /\ (z \o added)[i] = z[i]
        \/ i - Len(z) \in 1..Len(added) /\ (z \o added)[i] = added[i - Len(z)]
    BY <1>4, <1>5, ConcatElement
  <2> QED BY <1>4, <1>6, <2>1
<1> QED BY <1>3, <1>6, <1>7

LEMMA TrackProcess ==
    ASSUME SuccessInv, PlanInv, TrackInv, OutcomeCond, ProcessNoSend \/ ProcessSend
    PROVE  TrackInv'
<1> DEFINE t == run.tx
<1>0. TypeInv /\ DecisionSound /\ inflight \subseteq Txs /\ pend \in [Txs -> Pending]
  BY DEF SuccessInv, TypeInv, TypeOK
<1>1. /\ t \in Txs /\ pc = "process" /\ pc' = "flush"
      /\ UNCHANGED <<db, ins, inflight, bcm>>
      /\ run.act \notin {"Suspend", "Resume"}
      /\ \A u \in Txs : /\ pend'[u].receipt = pend[u].receipt
                        /\ pend'[u].confirmed = pend[u].confirmed
      /\ run'.tx = t
      /\ pend[t].del => run'.updateType = "Delete"
  BY <1>0, ProcessPlan
<1>2. t \notin inflight => run'.updateType = "Delete"
  <2>1. t \notin inflight => run.act \in Actions /\ (run.act = "Delete" => pend[t].del)
    BY <1>1 DEF PlanInv, PlanSound
  <2> QED BY <1>1, <2>1 DEF OutcomeCond
<1>3. \A i \in 1..Len(bq') : bq'[i].tx = t \/ \E j \in 1..Len(bq) : bq'[i] = bq[j]
  <2>1. CASE ProcessNoSend
    BY <1>0, <1>1, <2>1, TrackNotes DEF ProcessNoSend
  <2>2. CASE ProcessSend
    <3> DEFINE p == pend[t]
               have(s) == s.out \in {"known", "low"} /\ p.hash # NoHash
               good(s) == s.out = "ok" \/ have(s) \/ (s.out = "known" /\ p.first)
               q(s) == [p EXCEPT !.hash = IF s.out = "ok" THEN s.hash ELSE @,
                                 !.first = @ \/ good(s)]
    <3>1. PICK s \in Sends(chain[t]) :
            IF good(s) THEN Track(t, q(s)) ELSE UNCHANGED bq
      BY <2>2, Zenon DEF ProcessSend
    <3>2. s.out = "ok" => s.hash \in Hashes
      <4>1. chain[t] \in Chain
        BY <1>0, <1>1 DEF TypeInv, TypeOK
      <4> QED BY <4>1, SendsType
    <3>3. q(s) \in Pending
      <4> DEFINE h == IF s.out = "ok" THEN s.hash ELSE p.hash
                 f == p.first \/ good(s)
      <4>1. p \in Pending
        BY <1>0, <1>1
      <4>2. h \in HashOrNone /\ f \in BOOLEAN
        BY <4>1, <3>2 DEF Pending, HashOrNone
      <4> HIDE DEF h, f, p
      <4>3. [p EXCEPT !.hash = h, !.first = f] \in Pending
        BY <4>1, <4>2 DEF Pending
      <4> QED BY <4>3, Zenon DEF h, f
    <3>4. Track(t, q(s)) \/ bq' = bq
      BY <3>1, Zenon
    <3> HIDE DEF q
    <3> QED BY <1>0, <1>1, <3>3, <3>4, TrackNotes
  <2> QED BY <2>1, <2>2
<1>4. Informed'
  BY <1>0, <1>1 DEF TrackInv, Informed
<1>5. Untracked'
  <2> SUFFICES ASSUME NEW u \in Txs \ inflight, db[u].listed \/ Submitting(u), ~Deleting(u)'
               PROVE  /\ \A h \in Hashes : bcm[u][h] = "off"
                      /\ \A i \in 1..Len(bq') : bq'[i].tx = u => bq'[i].op # "add"
    BY <1>1 DEF Untracked, Submitting
  <2>1. u # t
    BY <1>1, <1>2 DEF Deleting
  <2>2. ~Deleting(u)
    BY <1>1 DEF Deleting
  <2>3. /\ \A h \in Hashes : bcm[u][h] = "off"
        /\ \A i \in 1..Len(bq) : bq[i].tx = u => bq[i].op # "add"
    BY <2>2 DEF TrackInv, Untracked
  <2> QED BY <1>3, <2>1, <2>3
<1> QED BY <1>1, <1>4, <1>5 DEF TrackInv, DecidesInformed

\* What a flushed update does to row and record.
LEMMA UpdateEffect ==
    ASSUME TypeInv, PlanInv, NoResume, FlushUpdate
    PROVE  LET t == run.tx
           IN /\ t \in Txs /\ pc = "flush" /\ run.updateType = "Update" /\ db[t].status # "None"
              /\ UNCHANGED <<seq, ins, inflight, refresh, todo, run, chain, bcm, bq, replies>>
              /\ \A u \in Txs \ {t} : db'[u] = db[u] /\ pend'[u] = pend[u]
              /\ db'[t].receipt = db[t].receipt
              /\ db'[t].status = IF "status" \in run.fields THEN pend[t].status ELSE db[t].status
              /\ db'[t].listed => db[t].listed
              /\ pend'[t].status = pend[t].status
              /\ pend'[t].receipt = pend[t].receipt /\ pend'[t].confirmed = pend[t].confirmed
              /\ pend'[t].remove = (pend[t].remove \/ run.completed)
              /\ stale' = (stale \/ run.completed)
              /\ pc' = IF run.completed /\ pend[t].status \in Resolved THEN "emit"
                       ELSE AfterExec(run.req)
<1> DEFINE t == run.tx
           complete == run.act # "Resume" /\ run.completed
<1>1. /\ t \in Txs /\ db \in [Txs -> Row] /\ pend \in [Txs -> Pending] /\ pc = "flush"
      /\ run \in RunContext /\ run.updateType = "Update" /\ db[t].status # "None"
  BY DEF TypeInv, TypeOK, RunOK, FlushUpdate
<1>2. UNCHANGED <<seq, ins, inflight, refresh, todo, run, chain, bcm, bq, replies>>
  BY DEF FlushUpdate, envVars
<1>3. run.act # "Resume" /\ run.completed \in BOOLEAN
  BY <1>1 DEF NoResume, RunContext, NoAction
<1>4. /\ db' = [db EXCEPT ![t] = Updated(t)]
      /\ pend' = [pend EXCEPT ![t].remove = @ \/ complete]
      /\ stale' = (stale \/ run.act = "Resume" \/ complete)
      /\ pc' = IF complete /\ pend[t].status \in Resolved THEN "emit" ELSE AfterExec(run.req)
  BY Zenon DEF FlushUpdate
<1>5. complete = run.completed
  BY <1>3
<1> HIDE DEF complete
<1>6. stale' = (stale \/ run.completed)
  BY <1>3, <1>4, <1>5
<1>7. /\ \A u \in Txs \ {t} : db'[u] = db[u] /\ pend'[u] = pend[u]
      /\ pend'[t].status = pend[t].status
      /\ pend'[t].receipt = pend[t].receipt /\ pend'[t].confirmed = pend[t].confirmed
      /\ pend'[t].remove = (pend[t].remove \/ run.completed)
  BY <1>1, <1>4, <1>5 DEF Pending
<1>8. /\ db'[t].receipt = db[t].receipt
      /\ db'[t].status = IF "status" \in run.fields THEN pend[t].status ELSE db[t].status
      /\ db'[t].listed = IF Store = "postgres" THEN db'[t].status = "Pending"
                         ELSE db[t].listed /\ db'[t].status = "Pending"
  BY <1>1, <1>4, UpdatedKeeps, UpdatedIndex
<1>9. db'[t].listed => db[t].listed
  BY <1>1, <1>8, StoreAssumption DEF PlanInv, PlanSound, IndexSound, Resolved
<1> QED BY <1>1, <1>2, <1>4, <1>5, <1>6, <1>7, <1>8, <1>9

LEMMA TrackFlushUpdate ==
    ASSUME SuccessInv, PlanInv, TrackInv, NoResume, FlushUpdate
    PROVE  TrackInv'
<1>0. TypeInv /\ DecisionSound /\ inflight \subseteq Txs
  BY DEF SuccessInv, TypeInv, TypeOK
<1>1. /\ run.tx \in Txs /\ pc = "flush" /\ run.updateType = "Update"
      /\ UNCHANGED <<ins, inflight, run, bcm, bq>>
      /\ \A u \in Txs \ {run.tx} : db'[u] = db[u] /\ pend'[u] = pend[u]
      /\ db'[run.tx].listed => db[run.tx].listed
      /\ pend'[run.tx].receipt = pend[run.tx].receipt /\ pend'[run.tx].confirmed = pend[run.tx].confirmed
      /\ pc' \in {"emit", AfterExec(run.req)}
  BY <1>0, UpdateEffect
<1>2. ReceiptsSame /\ SubmittingShrinks /\ DecidesInformed' /\ \A u \in Txs : ~Deleting(u)
  BY <1>0, <1>1 DEF ReceiptsSame, SubmittingShrinks, Submitting, DecidesInformed, Deleting, AfterExec
<1>3. \A u \in Txs : db'[u].listed => db[u].listed
  BY <1>1
<1> QED BY <1>0, <1>1, <1>2, <1>3, TrackKept

LEMMA TrackFlushDelete ==
    ASSUME SuccessInv, TrackInv, FlushDelete
    PROVE  TrackInv'
<1> DEFINE t == run.tx
<1>0. /\ TypeInv /\ DecisionSound /\ inflight \subseteq Txs
      /\ db \in [Txs -> Row] /\ pend \in [Txs -> Pending]
  BY DEF SuccessInv, TypeInv, TypeOK
<1>1. /\ t \in Txs /\ pc = "flush" /\ UNCHANGED <<ins, inflight, run, bcm, bq>>
      /\ db' = [db EXCEPT ![t] = NoRow] /\ pend' = [pend EXCEPT ![t].remove = TRUE]
      /\ pc' = "emit"
  BY <1>0 DEF TypeInv, RunOK, FlushDelete, envVars
<1>2. ~db'[t].listed /\ \A u \in Txs \ {t} : db'[u] = db[u]
  BY <1>0, <1>1 DEF NoRow
<1>3. ReceiptsSame
  BY <1>0, <1>1 DEF ReceiptsSame, Pending
<1>4. SubmittingShrinks /\ DecidesInformed' /\ \A u \in Txs : Deleting(u) => u = t
  BY <1>1 DEF SubmittingShrinks, Submitting, DecidesInformed, Deleting
<1>5. /\ \A u \in Txs : db'[u].listed => db[u].listed
      /\ \A u \in Txs \ inflight : Deleting(u) => Deleting(u)' \/ ~db'[u].listed
  BY <1>2, <1>4
<1> QED BY <1>0, <1>1, <1>3, <1>4, <1>5, TrackKept

\* A deletion can only fail because the row is gone.
LEMMA TrackFlushFail ==
    ASSUME SuccessInv, PlanInv, TrackInv, OutcomeCond, FlushFail
    PROVE  TrackInv'
<1> DEFINE t == run.tx
<1>0. TypeInv /\ DecisionSound
  BY DEF SuccessInv
<1>1. /\ t \in Txs /\ pc = "flush" /\ pc' \in {"cycle", "respond"}
      /\ UNCHANGED <<ins, inflight, pend, run, bcm, bq>>
      /\ \A u \in Txs : db'[u].listed => db[u].listed
      /\ Fault("write") \/ db[t].status = "None"
  BY <1>0, FailEffect
<1>2. run.updateType = "Delete" => ~db[t].listed
  BY <1>1 DEF PlanInv, PlanSound, IndexSound, OutcomeCond
<1>3. ReceiptsSame /\ SubmittingShrinks /\ DecidesInformed'
  BY <1>1 DEF ReceiptsSame, SubmittingShrinks, Submitting, DecidesInformed
<1>4. \A u \in Txs \ inflight : Deleting(u) => ~db'[u].listed
  BY <1>1, <1>2 DEF Deleting
<1> QED BY <1>0, <1>1, <1>3, <1>4, TrackKept

LEMMA TrackBcmNotification ==
    ASSUME SuccessInv, TrackInv, BcmNotification
    PROVE  TrackInv'
<1> DEFINE Note == [op : {"add", "remove"}, tx : Txs, hash : HashOrNone]
           n == Head(bq)
           k == IF n.op = "add" THEN "new" ELSE "off"
<1>1. /\ bcm \in [Txs -> [Hashes -> Tracked]] /\ bq \in Seq(Note) /\ bq # <<>>
      /\ bcm' = [bcm EXCEPT ![n.tx][n.hash] = k] /\ bq' = Tail(bq)
      /\ UNCHANGED <<db, ins, inflight, pend, pc, run>>
  BY DEF SuccessInv, TypeInv, TypeOK, BcmNotification, storeVars, memVars, loopVars
<1>2. n = bq[1] /\ 1 \in 1..Len(bq)
  <2> HIDE DEF Note
  <2> QED BY <1>1
<1>3. \A i \in 1..Len(bq') : i + 1 \in 1..Len(bq) /\ bq'[i] = bq[i + 1]
  <2> HIDE DEF Note, n
  <2> QED BY <1>1
<1>4. k \notin {"ok", "fail"} /\ (n.op # "add" => k = "off")
  OBVIOUS
<1> HIDE DEF n, k, Note
<1>5. \A t \in Txs, h \in Hashes :
        /\ bcm'[t][h] \in {"ok", "fail"} => bcm'[t][h] = bcm[t][h]
        /\ n.tx # t \/ n.op # "add" => bcm'[t][h] \in {"off", bcm[t][h]}
  BY <1>1, <1>4
<1>6. Informed'
  <2>1. inflight \subseteq Txs
    BY DEF SuccessInv, TypeInv, TypeOK
  <2> QED BY <1>1, <1>5, <2>1 DEF TrackInv, Informed
<1>7. Untracked'
  <2> SUFFICES ASSUME NEW t \in Txs \ inflight, db[t].listed \/ Submitting(t), ~Deleting(t)
               PROVE  /\ \A h \in Hashes : bcm'[t][h] = "off"
                      /\ \A i \in 1..Len(bq') : bq'[i].tx = t => bq'[i].op # "add"
    BY <1>1 DEF Untracked, Submitting, Deleting
  <2>1. /\ \A h \in Hashes : bcm[t][h] = "off"
        /\ \A i \in 1..Len(bq) : bq[i].tx = t => bq[i].op # "add"
    BY DEF TrackInv, Untracked
  <2>2. n.tx # t \/ n.op # "add"
    BY <1>2, <2>1
  <2> QED BY <1>3, <1>5, <2>1, <2>2
<1> QED BY <1>1, <1>6, <1>7 DEF TrackInv, DecidesInformed

LEMMA TrackBcmReceipt ==
    ASSUME SuccessInv, TrackInv, NEW t \in Txs, NEW h \in Hashes, BcmReceipt(t, h)
    PROVE  TrackInv'
<1> DEFINE o == chain[t].outcome
<1>0. TypeInv /\ ChainOK
  BY DEF SuccessInv
<1>1. /\ UNCHANGED <<db, ins, inflight, pc, run, bq>> /\ bcm[t][h] # "off"
      /\ bcm' = [bcm EXCEPT ![t][h] = o] /\ chain[t].mined = h
      /\ HandleTransactionReceiptReceived(t, o)
  BY DEF BcmReceipt, storeVars, loopVars
<1>2. /\ bcm \in [Txs -> [Hashes -> Tracked]] /\ pend \in [Txs -> Pending]
      /\ chain \in [Txs -> Chain] /\ inflight \subseteq Txs
  BY <1>0 DEF TypeInv, TypeOK
<1>3. o \in Receipts /\ o # "none"
  BY <1>0, <1>1, <1>2, HashesAssumption DEF ChainOK, Chain
<1>4. /\ \A u \in Txs \ {t} : pend'[u] = pend[u] /\ bcm'[u] = bcm[u]
      /\ t \in inflight => pend'[t].receipt = o
  BY <1>1, <1>2, <1>3, ReceiptEffect
<1> HIDE DEF o
<1>5. Informed'
  BY <1>1, <1>2, <1>3, <1>4 DEF TrackInv, Informed
<1>6. Untracked'
  BY <1>1, <1>4 DEF TrackInv, Untracked, Submitting, Deleting
<1> QED BY <1>1, <1>5, <1>6 DEF TrackInv, DecidesInformed

LEMMA TrackBcmConfirm ==
    ASSUME SuccessInv, TrackInv, OutcomeCond, NEW t \in Txs, NEW h \in Hashes,
           BcmConfirmations(t, h) \/ BcmConfirm(t, h)
    PROVE  TrackInv'
<1>0. TypeInv /\ ChainOK
  BY DEF SuccessInv
<1>1. /\ UNCHANGED <<db, ins, inflight, pc, run, bq>>
      /\ bcm[t][h] = chain[t].outcome /\ chain[t].mined = h
      /\ bcm' = [bcm EXCEPT ![t][h] = "off"] \/ bcm' = bcm
      /\ \E c \in BOOLEAN : HandleTransactionConfirmations(t, c)
  BY DEF BcmConfirmations, BcmConfirm, Counted, OutcomeCond, storeVars, loopVars, envVars
<1>2. /\ bcm \in [Txs -> [Hashes -> Tracked]] /\ pend \in [Txs -> Pending]
      /\ inflight \subseteq Txs
  BY <1>0 DEF TypeInv, TypeOK
<1>3. bcm[t][h] \in {"ok", "fail"}
  BY <1>0, <1>1, HashesAssumption DEF ChainOK
<1>4. /\ \A u \in Txs \ {t} : pend'[u] = pend[u]
      /\ \A u \in Txs : pend'[u].receipt = pend[u].receipt
  BY <1>1, <1>2, ConfirmEffect
<1>5. \A u \in Txs, g \in Hashes : bcm'[u][g] \in {"off", bcm[u][g]}
  BY <1>1, <1>2
<1>6. t \in inflight => pend[t].receipt # "none"
  BY <1>3 DEF TrackInv, Informed
<1>7. Informed'
  <2> SUFFICES ASSUME NEW u \in inflight
               PROVE  /\ (\E g \in Hashes : bcm'[u][g] \in {"ok", "fail"}) => pend'[u].receipt # "none"
                      /\ pend'[u].confirmed => pend'[u].receipt # "none"
    BY <1>1 DEF Informed
  <2>1. CASE u = t
    BY <1>4, <1>6, <2>1
  <2>2. CASE u # t
    BY <1>2, <1>4, <1>5, <2>2 DEF TrackInv, Informed
  <2> QED BY <2>1, <2>2
<1>8. Untracked'
  BY <1>1, <1>5 DEF TrackInv, Untracked, Submitting, Deleting
<1> QED BY <1>1, <1>7, <1>8 DEF TrackInv, DecidesInformed

LEMMA TrackReorg ==
    ASSUME SuccessInv, TrackInv, OutcomeCond, NEW t \in Txs, Reorg(t)
    PROVE  TrackInv'
<1>1. /\ UNCHANGED <<db, ins, inflight, pend, pc, run, bq>>
      /\ bcm' = [bcm EXCEPT ![t] = [h \in Hashes |-> IF bcm[t][h] = "off" THEN "off" ELSE "new"]]
      /\ bcm \in [Txs -> [Hashes -> Tracked]] /\ inflight \subseteq Txs
  BY DEF SuccessInv, TypeInv, TypeOK, Reorg, OutcomeCond, storeVars, memVars, loopVars
<1>2. \A u \in Txs, g \in Hashes :
        /\ bcm'[u][g] \in {"ok", "fail"} => bcm'[u][g] = bcm[u][g]
        /\ bcm[u][g] = "off" => bcm'[u][g] = "off"
  BY <1>1
<1>3. Informed'
  BY <1>1, <1>2 DEF TrackInv, Informed
<1>4. Untracked'
  BY <1>1, <1>2 DEF TrackInv, Untracked, Submitting, Deleting
<1> QED BY <1>1, <1>3, <1>4 DEF TrackInv, DecidesInformed

LEMMA TrackRestart ==
    ASSUME Restart
    PROVE  TrackInv'
BY DEF Restart, TrackInv, Informed, Untracked, DecidesInformed

LEMMA TrackStep ==
    ASSUME SuccessInv, PlanInv, TrackInv, OutcomeCond, [Next]_vars
    PROVE  TrackInv'
<1>0. NoResume
  BY DEF OutcomeCond, NoResume
<1>1. CASE \E t \in Txs : Insert(t)
  BY <1>1, TrackQuiet, TrackInsertCommit
<1>2. CASE \E r \in Reqs : ApiRequest(r)
  BY <1>2, TrackQuiet
<1>3. CASE Process
  BY <1>0, <1>3, TrackExecStatus, TrackProcess, TrackQuiet DEF Process
<1>4. CASE Flush
  BY <1>0, <1>4, TrackQuiet, TrackFlushUpdate, TrackFlushDelete, TrackFlushFail DEF Flush
<1>5. CASE Loop
  BY <1>3, <1>4, <1>5, TrackQuiet, TrackExec, TrackRespond, TrackUpdateInflightSet DEF Loop
<1>6. CASE Bcm
  <2>1. \A t \in Txs, h \in Hashes : ~BcmReceiptGone(t, h)
    BY DEF BcmReceiptGone, OutcomeCond
  <2> QED BY <1>6, <2>1, TrackBcmNotification, TrackBcmReceipt, TrackBcmConfirm DEF Bcm
<1>7. CASE Blockchain
  BY <1>7, TrackQuiet, TrackReorg DEF Blockchain
<1>8. CASE Restart
  BY <1>8, TrackRestart
<1>9. CASE UNCHANGED vars
  BY <1>9, TrackQuiet
<1> QED BY <1>1, <1>2, <1>5, <1>6, <1>7, <1>8, <1>9 DEF Next

(***************************************************************************)
(* Outcomes, receipts and replies                                          *)
(***************************************************************************)

\* What the chain's outcome makes of the status of t.
StatusOf(t) == IF chain[t].outcome = "ok" THEN "Succeeded" ELSE "Failed"

\* A resolved row has the receipt it was resolved by; Postgres may have lost it.
ReceiptKept == \A t \in Txs : db[t].status \in Resolved => Stored(t, chain[t].outcome)

\* An outcome about to be written is final, and its receipt is stored.
DecisionMatches ==
    pc = "flush" /\ "status" \in run.fields /\ pend[run.tx].status \in Resolved =>
       /\ chain[run.tx].final /\ pend[run.tx].status = StatusOf(run.tx)
       /\ Stored(run.tx, chain[run.tx].outcome)

\* A record whose row is resolved agrees with the row.
Settled ==
    \A t \in Txs :
        /\ db[t].status \in Resolved
        /\ t \in inflight \/ (pc \in {"process", "flush"} /\ run.tx = t)
        => pend[t].status = db[t].status

\* What is about to be reported is stored, or deleted; nothing is reported of a
\* transaction that is still being submitted.
Announced ==
    /\ pc = "emit" => /\ ~Submitting(run.tx)
                      /\ IF run.updateType = "Delete" THEN db[run.tx].status = "None"
                         ELSE db[run.tx].status = pend[run.tx].status
    /\ \A t \in Txs : Submitting(t) => replies[t] = <<>>

OutcomeInv == /\ OutcomeMatchesChain /\ ReceiptKept /\ DecisionMatches /\ Settled
              /\ Announced /\ RepliesReportStore

\* What the chain has finally made of a transaction stays.
ChainSettled == \A t \in Txs : chain[t].final =>
                    chain'[t].final /\ chain'[t].outcome = chain[t].outcome

LEMMA ChainSettles ==
    ASSUME SuccessInv, [Next]_vars
    PROVE  ChainSettled
<1>0. TypeInv /\ ChainOK /\ chain \in [Txs -> Chain]
  BY DEF SuccessInv, TypeInv, TypeOK
<1>1. ASSUME chain' = chain PROVE ChainSettled
  BY <1>1 DEF ChainSettled
<1>2. CASE ProcessSend
  BY <1>0, <1>2, ProcessPlan DEF ChainSettled, ChainSame
<1>3. CASE Loop /\ ~ProcessSend
  <2>1. chain' = chain
    BY <1>3, Zenon DEF Loop, BeginCycle, ExecRequest, Respond, UpdateInflightSet, SkipInflightSet,
          ExecInflight, EndCycle, Process, ExecStatus, ExecNotDue, ProcessNoSend, ProcessPanic,
          Flush, FlushNone, FlushUpdate, FlushDelete, FlushFail, Emit, envVars
  <2> QED BY <1>1, <2>1
<1>4. CASE \E t \in Txs : Insert(t)
  BY <1>1, <1>4 DEF Insert, InsertBegin, InsertCommit, InsertFail, InsertHistoryFail,
                    InsertMarkStale, InsertMarkUpdate, envVars
<1>5. CASE \E r \in Reqs : ApiRequest(r)
  BY <1>1, <1>5 DEF ApiRequest, RequestQueue, RequestWait, RequestTimeout, envVars
<1>6. CASE Bcm
  <2>1. CASE BcmNotification
    BY <1>1, <2>1 DEF BcmNotification
  <2>2. ASSUME NEW t \in Txs, NEW h \in Hashes, BcmReceipt(t, h) \/ BcmConfirmations(t, h)
        PROVE  ChainSettled
    BY <1>1, <2>2 DEF BcmReceipt, BcmConfirmations, envVars
  <2>3. ASSUME NEW t \in Txs, NEW h \in Hashes, BcmConfirm(t, h) PROVE ChainSettled
    <3>1. chain' = [chain EXCEPT ![t].final = TRUE]
      BY <2>3 DEF BcmConfirm
    <3> QED BY <1>0, <3>1 DEF ChainSettled, Chain
  <2>4. ASSUME NEW t \in Txs, NEW h \in Hashes, BcmReceiptGone(t, h) PROVE ChainSettled
    BY <1>1, <2>4 DEF BcmReceiptGone
  <2> QED BY <1>6, <2>1, <2>2, <2>3, <2>4 DEF Bcm
<1>7. CASE Blockchain
  <2>1. ASSUME NEW t \in Txs, NEW h \in Hashes, NEW o \in Outcomes, Mine(t, h, o)
        PROVE  ChainSettled
    <3>1. chain' = [chain EXCEPT ![t].mined = h, ![t].outcome = o] /\ ~chain[t].final
      BY <1>0, <2>1 DEF Mine, ChainOK
    <3>2. \A u \in Txs \ {t} : chain'[u] = chain[u]
      BY <1>0, <3>1
    <3> QED BY <3>1, <3>2 DEF ChainSettled
  <2>2. ASSUME NEW t \in Txs, Reorg(t) PROVE ChainSettled
    <3>1. chain' = [chain EXCEPT ![t].mined = NoHash, ![t].outcome = "none"] /\ ~chain[t].final
      BY <2>2 DEF Reorg
    <3>2. \A u \in Txs \ {t} : chain'[u] = chain[u]
      BY <1>0, <3>1
    <3> QED BY <3>1, <3>2 DEF ChainSettled
  <2> QED BY <1>7, <2>1, <2>2 DEF Blockchain
<1>8. CASE Restart
  BY <1>1, <1>8 DEF Restart
<1>9. CASE UNCHANGED vars
  BY <1>1, <1>9 DEF vars
<1> QED BY <1>2, <1>3, <1>4, <1>5, <1>6, <1>7, <1>8, <1>9 DEF Next

\* The store, and the statuses in memory that still matter, stay as they are.
StoreSame == \A t \in Txs : db'[t].status = db[t].status /\ db'[t].receipt = db[t].receipt

StatusSame == \A t \in Txs : t \in inflight \/ pc' \in {"process", "flush", "emit"} =>
                  pend'[t].status = pend[t].status

LEMMA OutcomeKept ==
    ASSUME SuccessInv, OutcomeInv, ChainSettled, StoreSame, StatusSame, SubmittingShrinks,
           inflight' = inflight, replies' = replies,
           (pc' = pc /\ run' = run) \/ pc' \notin {"process", "flush", "emit"}
    PROVE  OutcomeInv'
<1>0. inflight \subseteq Txs /\ (pc \in {"process", "flush", "emit"} => run.tx \in Txs)
  BY DEF SuccessInv, TypeInv, TypeOK, RunOK
<1>1. OutcomeMatchesChain'
  BY DEF OutcomeInv, OutcomeMatchesChain, ChainSettled, StoreSame
<1>2. ReceiptKept'
  BY DEF OutcomeInv, OutcomeMatchesChain, ReceiptKept, Stored, ChainSettled, StoreSame
<1>3. DecisionMatches'
  BY <1>0 DEF OutcomeInv, DecisionMatches, StatusOf, Stored, ChainSettled, StoreSame, StatusSame
<1>4. Settled'
  BY <1>0 DEF OutcomeInv, Settled, StoreSame, StatusSame
<1>5. Announced'
  BY <1>0 DEF OutcomeInv, Announced, Submitting, SubmittingShrinks, StoreSame, StatusSame
<1>6. RepliesReportStore'
  BY DEF OutcomeInv, RepliesReportStore, StoreSame
<1> QED BY <1>1, <1>2, <1>3, <1>4, <1>5, <1>6 DEF OutcomeInv

LEMMA InitOutcome == Init => OutcomeInv
BY DEF Init, OutcomeInv, OutcomeMatchesChain, ReceiptKept, DecisionMatches, Settled, Announced,
       RepliesReportStore, NoRow, Resolved

LEMMA OutcomeQuiet ==
    ASSUME SuccessInv, OutcomeInv, ChainSettled,
           \/ \E t \in Txs : Insert(t) /\ ~InsertCommit(t)
           \/ \E r \in Reqs : ApiRequest(r)
           \/ BeginCycle \/ SkipInflightSet \/ EndCycle \/ ProcessPanic \/ FlushNone
           \/ BcmNotification \/ Blockchain \/ UNCHANGED vars
           \/ \E t \in Txs, h \in Hashes : BcmReceiptGone(t, h)
    PROVE  OutcomeInv'
<1>0. ins \in [Txs -> {"new", "inserting", "inserted", "marked", "done", "failed"}]
  BY DEF SuccessInv, TypeInv, TypeOK
<1>1. /\ UNCHANGED <<db, inflight, pend, replies>> /\ SubmittingShrinks
      /\ (pc' = pc /\ run' = run) \/ pc' \notin {"process", "flush", "emit"}
  <2>1. CASE \E t \in Txs : Insert(t) /\ ~InsertCommit(t)
    BY <1>0, <2>1 DEF Insert, InsertBegin, InsertFail, InsertHistoryFail, InsertMarkStale,
                InsertMarkUpdate, SubmittingShrinks, Submitting, storeVars, memVars, loopVars
  <2>2. CASE \E r \in Reqs : ApiRequest(r)
    BY <2>2 DEF ApiRequest, RequestQueue, RequestWait, RequestTimeout, SubmittingShrinks, Submitting,
                storeVars, memVars, loopVars
  <2>3. CASE BeginCycle \/ SkipInflightSet \/ EndCycle \/ ProcessPanic \/ FlushNone
    BY <2>3 DEF BeginCycle, SkipInflightSet, EndCycle, ProcessPanic, FlushNone,
                AfterExec, SubmittingShrinks, Submitting, storeVars, memVars
  <2>4. CASE BcmNotification \/ Blockchain \/ \E t \in Txs, h \in Hashes : BcmReceiptGone(t, h)
    BY <2>4 DEF BcmNotification, BcmReceiptGone, Blockchain, Mine, Reorg, SubmittingShrinks, Submitting,
                storeVars, memVars, loopVars
  <2>5. CASE UNCHANGED vars
    BY <2>5 DEF vars, SubmittingShrinks, Submitting
  <2> QED BY <2>1, <2>2, <2>3, <2>4, <2>5
<1>2. StoreSame /\ StatusSame
  BY <1>1 DEF StoreSame, StatusSame
<1> QED BY <1>1, <1>2, OutcomeKept

LEMMA OutcomeCallback ==
    ASSUME SuccessInv, OutcomeInv, ChainSettled, NEW t \in Txs, NEW h \in Hashes,
           BcmReceipt(t, h) \/ BcmConfirmations(t, h) \/ BcmConfirm(t, h)
    PROVE  OutcomeInv'
<1>1. UNCHANGED <<db, ins, inflight, pc, run, replies>>
  BY DEF BcmReceipt, BcmConfirmations, BcmConfirm, storeVars, loopVars
<1>2. MarksSame
  <2>1. pend \in [Txs -> Pending]
    BY DEF SuccessInv, TypeInv, TypeOK
  <2> QED BY <2>1, CallbackMarks DEF BcmReceipt, BcmConfirmations, BcmConfirm
<1>3. StoreSame /\ StatusSame /\ SubmittingShrinks
  BY <1>1, <1>2 DEF StoreSame, StatusSame, SubmittingShrinks, Submitting, MarksSame
<1> QED BY <1>1, <1>3, OutcomeKept

LEMMA OutcomeRespond ==
    ASSUME SuccessInv, OutcomeInv, ChainSettled, NEW r \in Reqs, Respond(r)
    PROVE  OutcomeInv'
<1>0. pend \in [Txs -> Pending] /\ inflight \subseteq Txs
  BY DEF SuccessInv, TypeInv, TypeOK
<1>1. /\ UNCHANGED <<inflight, ins, db, replies>>
      /\ pc' \notin {"process", "flush", "emit"}
      /\ pend' = IF run.tx \in inflight THEN pend ELSE [pend EXCEPT ![run.tx] = NoPending]
  BY DEF Respond, storeVars
<1>2. StoreSame /\ StatusSame /\ SubmittingShrinks
  BY <1>0, <1>1 DEF StoreSame, StatusSame, SubmittingShrinks, Submitting
<1> QED BY <1>1, <1>2, OutcomeKept

LEMMA OutcomeFlushFail ==
    ASSUME SuccessInv, OutcomeInv, ChainSettled, FlushFail
    PROVE  OutcomeInv'
<1>1. /\ pc' \in {"cycle", "respond"} /\ UNCHANGED <<ins, inflight, pend, replies>>
      /\ \A u \in Txs : db'[u].status = db[u].status /\ db'[u].receipt = db[u].receipt
  BY FailEffect DEF SuccessInv
<1>2. StoreSame /\ StatusSame /\ SubmittingShrinks
  BY <1>1 DEF StoreSame, StatusSame, SubmittingShrinks, Submitting
<1> QED BY <1>1, <1>2, OutcomeKept

LEMMA OutcomeInsertCommit ==
    ASSUME SuccessInv, OutcomeInv, NEW t \in Txs, InsertCommit(t)
    PROVE  OutcomeInv'
<1>0. /\ db \in [Txs -> Row] /\ DecisionSound
      /\ ins \in [Txs -> {"new", "inserting", "inserted", "marked", "done", "failed"}]
      /\ pc \in {"process", "flush", "emit"} => run.tx \in Txs
  BY DEF SuccessInv, TypeInv, TypeOK, RunOK
<1>1. /\ ins[t] = "inserting" /\ ins' = [ins EXCEPT ![t] = "inserted"]
      /\ db' = [db EXCEPT ![t] = [NoRow EXCEPT !.status = "Pending", !.listed = TRUE]]
      /\ UNCHANGED <<inflight, pend, pc, run, chain, replies>>
  BY DEF InsertCommit, memVars, loopVars, envVars
<1>2. /\ \A u \in Txs \ {t} : db'[u] = db[u] /\ ins'[u] = ins[u]
      /\ db'[t].status = "Pending" /\ ins'[t] = "inserted"
  BY <1>0, <1>1 DEF NoRow
<1>3. Submitting(t) /\ (pc \in {"process", "flush", "emit"} => run.tx # t)
  BY <1>0, <1>1 DEF Submitting, DecisionSound, OutcomeInv, Announced
<1>4. OutcomeMatchesChain'
  BY <1>1, <1>2 DEF OutcomeInv, OutcomeMatchesChain, Resolved
<1>5. ReceiptKept'
  BY <1>1, <1>2 DEF OutcomeInv, ReceiptKept, Stored, Resolved
<1>6. DecisionMatches'
  BY <1>0, <1>1, <1>2, <1>3 DEF OutcomeInv, DecisionMatches, StatusOf, Stored
<1>7. Settled'
  BY <1>1, <1>2 DEF OutcomeInv, Settled, Resolved
<1>8. Announced'
  BY <1>0, <1>1, <1>2, <1>3 DEF OutcomeInv, Announced, Submitting
<1>9. RepliesReportStore'
  BY <1>1, <1>2, <1>3 DEF OutcomeInv, Announced, RepliesReportStore
<1> QED BY <1>4, <1>5, <1>6, <1>7, <1>8, <1>9 DEF OutcomeInv

LEMMA OutcomeUpdateInflightSet ==
    ASSUME SuccessInv, PlanInv, OutcomeInv, UpdateInflightSet
    PROVE  OutcomeInv'
<1>0. TypeInv /\ inflight \subseteq Txs
  BY DEF SuccessInv, TypeInv, TypeOK
<1>1. /\ UNCHANGED <<db, ins, chain, replies>> /\ pc' = "cycle"
      /\ inflight' = Kept \cup Polled
  BY DEF UpdateInflightSet, storeVars, envVars
<1>2. /\ Kept \subseteq inflight /\ Polled \subseteq Txs
      /\ \A t \in Polled : db[t].listed
      /\ \A t \in Kept : pend'[t] = pend[t]
  BY <1>0, RefreshEffect
<1>3. \A t \in Polled : db[t].status = "Pending"
  BY <1>2 DEF PlanInv, IndexSound
<1>4. Settled'
  BY <1>1, <1>2, <1>3 DEF OutcomeInv, Settled, Resolved
<1>5. OutcomeMatchesChain' /\ ReceiptKept' /\ RepliesReportStore'
  BY <1>1 DEF OutcomeInv, OutcomeMatchesChain, ReceiptKept, Stored, RepliesReportStore
<1>6. DecisionMatches' /\ Announced'
  BY <1>1 DEF OutcomeInv, DecisionMatches, Announced, Submitting
<1> QED BY <1>4, <1>5, <1>6 DEF OutcomeInv

\* The snapshot of a resolved transaction can only store the receipt it has.
LEMMA OutcomeSnapshot ==
    ASSUME SuccessInv, OutcomeInv, OutcomeCond, NEW t \in Txs,
           NEW a \in Actions \cup {NoAction}, NEW r \in Reqs \cup {NoReq}, NEW touched \in BOOLEAN,
           PendingToRunContext(t, a, r, touched),
           t \in inflight \/ db[t].status # "None",
           pc \notin {"process", "flush", "emit"},
           UNCHANGED <<inflight, chain, ins, replies>>
    PROVE  OutcomeInv'
<1> DEFINE p == Record(t)
<1>0. TypeInv /\ DataInv /\ inflight \subseteq Txs
  BY DEF SuccessInv, TypeInv, TypeOK
<1>1. /\ \A u \in Txs \ {t} : db'[u] = db[u] /\ pend'[u] = pend[u]
      /\ db'[t].status = db[t].status
      /\ \/ db'[t].receipt = db[t].receipt
         \/ p.receiptNotify /\ db'[t].receipt = p.receipt
      /\ pc' \in {"process", "cycle", "respond"}
      /\ run'.tx = t
  BY <1>0, SnapshotEffect
<1>2. pend'[t].status = p.status
  BY <1>0, SnapshotMarks
<1>3. /\ t \in inflight => p = pend[t]
      /\ t \notin inflight => p.status = db[t].status /\ ~p.receiptNotify
  BY DEF Record, NewPending
<1> HIDE DEF p
<1>4. db[t].status \in Resolved => db'[t].receipt \in {db[t].receipt, chain[t].outcome}
  <2>1. CASE p.receiptNotify
    <3>1. t \in inflight /\ p = pend[t] /\ pend[t].receipt # "none"
      BY <1>0, <1>3, <2>1 DEF DataInv, RecordsCurrent
    <3>2. db[t].status \in Resolved => Delivered(t)
      BY DEF OutcomeInv, OutcomeMatchesChain, Delivered, OutcomeCond
    <3> QED BY <1>0, <1>1, <3>1, <3>2 DEF DataInv, RecordsCurrent
  <2>2. CASE ~p.receiptNotify
    BY <1>1, <2>2
  <2> QED BY <2>1, <2>2
<1>5. OutcomeMatchesChain'
  BY <1>1 DEF OutcomeInv, OutcomeMatchesChain
<1>6. ReceiptKept'
  BY <1>1, <1>4 DEF OutcomeInv, ReceiptKept, Stored
<1>7. DecisionMatches'
  BY <1>1 DEF DecisionMatches
<1>8. Settled'
  BY <1>0, <1>1, <1>2, <1>3 DEF OutcomeInv, Settled
<1>9. Announced'
  BY <1>1 DEF OutcomeInv, Announced, Submitting
<1>10. RepliesReportStore'
  BY <1>1 DEF OutcomeInv, RepliesReportStore
<1> QED BY <1>5, <1>6, <1>7, <1>8, <1>9, <1>10 DEF OutcomeInv

LEMMA OutcomeExec ==
    ASSUME SuccessInv, PlanInv, OutcomeInv, OutcomeCond, ChainSettled,
           (\E r \in Reqs : ExecRequest(r)) \/ (\E t \in Txs : ExecInflight(t))
    PROVE  OutcomeInv'
<1>0. TypeInv
  BY DEF SuccessInv
<1>1. CASE \E r \in Reqs : ExecRequest(r)
  <2>1. PICK r \in Reqs : ExecRequest(r)
    BY <1>1
  <2>2. /\ req[r].tx \in Txs /\ req[r].act \in Actions
        /\ UNCHANGED <<inflight, chain, ins, replies>> /\ pc = "requests"
    BY <1>0, <2>1, HeadRequest DEF PlanInv, ExecRequest, envVars
  <2>3. CASE /\ req[r].tx \in inflight \/ db[req[r].tx].status # "None"
             /\ \E touched \in BOOLEAN : PendingToRunContext(req[r].tx, req[r].act, r, touched)
    BY <2>2, <2>3, OutcomeSnapshot
  <2>4. CASE pc' = "respond" /\ UNCHANGED <<db, pend>>
    <3>1. StoreSame /\ StatusSame /\ SubmittingShrinks
      BY <2>2, <2>4 DEF StoreSame, StatusSame, SubmittingShrinks, Submitting
    <3> QED BY <2>2, <2>4, <3>1, OutcomeKept
  <2> QED BY <2>1, <2>3, <2>4 DEF ExecRequest
<1>2. CASE \E t \in Txs : ExecInflight(t)
  <2>1. PICK t \in Txs : ExecInflight(t)
    BY <1>2
  <2>2. /\ UNCHANGED <<inflight, chain, ins, replies>> /\ pc = "cycle"
        /\ PendingToRunContext(t, NoAction, NoReq, FALSE) /\ t \in inflight
    BY <2>1 DEF ExecInflight, envVars, SuccessInv, DataInv
  <2> QED BY <2>2, OutcomeSnapshot
<1> QED BY <1>1, <1>2

\* The outcome is decided by the receipt of the snapshot: the chain's, and not
\* missing.
LEMMA OutcomeExecStatus ==
    ASSUME SuccessInv, TrackInv, OutcomeInv, NoResume, OutcomeCond, ExecStatus
    PROVE  OutcomeInv'
<1> DEFINE t == run.tx
           to == StatusAfter(pend[t])
           changed == Confirmed \/ to # pend[t].status
<1>0. /\ TypeInv /\ ChainOK /\ DecisionSound /\ inflight \subseteq Txs
      /\ run \in RunContext
  BY DEF SuccessInv, TypeInv, TypeOK
<1>1. /\ t \in Txs /\ UNCHANGED <<db, ins, inflight, chain, replies>>
      /\ pc = "process" /\ pc' = "flush"
      /\ \A u \in Txs \ {t} : pend'[u] = pend[u]
      /\ pend'[t].status = to /\ run'.tx = t
      /\ ~changed => run' = run
  BY <1>0, StatusPlan
<1>2. Confirmed => chain[t].final /\ run.receipt = chain[t].outcome /\ to = StatusOf(t)
                   /\ Stored(t, chain[t].outcome)
  <2>1. Confirmed => /\ run.confirmed /\ run.receipt # "none"
                     /\ run.receipt \in {"none", chain[t].outcome} /\ chain[t].final
                     /\ Stored(t, run.receipt)
    BY <1>0, <1>1 DEF Confirmed, TrackInv, DecidesInformed, DecisionSound, OutcomeCond
  <2> QED BY <2>1 DEF StatusAfter, StatusOf
<1>3. ~Confirmed => to = pend[t].status \/ (to = "Suspended" /\ pend[t].status = "Pending")
  <2>1. run.act # "Resume"
    BY <1>0 DEF NoResume, RunContext, NoAction
  <2> QED BY <2>1 DEF StatusAfter, Resolved
<1>4. "status" \notin run.fields
  BY <1>0, <1>1 DEF DecisionSound
<1> HIDE DEF to
<1>5. "status" \in run'.fields /\ pend'[t].status \in Resolved => Confirmed
  BY <1>1, <1>3, <1>4 DEF Resolved
<1>6. DecisionMatches'
  BY <1>1, <1>2, <1>5 DEF DecisionMatches, StatusOf, Stored
<1>7. db[t].status \in Resolved => to = db[t].status
  <2>1. db[t].status \in Resolved => db[t].status = StatusOf(t)
    BY <1>1 DEF OutcomeInv, OutcomeMatchesChain, StatusOf
  <2>2. db[t].status \in Resolved => pend[t].status = db[t].status
    BY <1>1 DEF OutcomeInv, Settled
  <2> QED BY <1>2, <1>3, <2>1, <2>2 DEF Resolved
<1>8. Settled'
  BY <1>0, <1>1, <1>7 DEF OutcomeInv, Settled
<1>9. OutcomeMatchesChain' /\ ReceiptKept' /\ RepliesReportStore'
  BY <1>1 DEF OutcomeInv, OutcomeMatchesChain, ReceiptKept, Stored, RepliesReportStore
<1>10. Announced'
  BY <1>1 DEF OutcomeInv, Announced, Submitting
<1> QED BY <1>6, <1>8, <1>9, <1>10 DEF OutcomeInv

\* Executions that do not touch the status have nothing to announce.
LEMMA OutcomeProcess ==
    ASSUME SuccessInv, OutcomeInv, ChainSettled, ExecNotDue \/ ProcessNoSend \/ ProcessSend
    PROVE  OutcomeInv'
<1>0. TypeInv /\ DecisionSound /\ inflight \subseteq Txs
  BY DEF SuccessInv, TypeInv, TypeOK
<1>1. /\ UNCHANGED <<db, ins, inflight, replies>> /\ pc = "process" /\ pc' = "flush"
      /\ run.tx \in Txs
      /\ \A u \in Txs : pend'[u].status = pend[u].status
      /\ run'.tx = run.tx
      /\ "status" \in run'.fields => "status" \in run.fields
  <2>1. CASE ExecNotDue
    BY <1>0, <2>1 DEF ExecNotDue, Default, TypeInv, RunOK, storeVars, memVars
  <2>2. CASE ProcessNoSend \/ ProcessSend
    BY <1>0, <2>2, ProcessPlan DEF MarksSame
  <2> QED BY <2>1, <2>2
<1>2. "status" \notin run'.fields
  BY <1>0, <1>1 DEF DecisionSound
<1>3. OutcomeMatchesChain'
  BY <1>1 DEF OutcomeInv, OutcomeMatchesChain, ChainSettled
<1>4. ReceiptKept'
  BY <1>1 DEF OutcomeInv, OutcomeMatchesChain, ReceiptKept, Stored, ChainSettled
<1>5. DecisionMatches'
  BY <1>2 DEF DecisionMatches
<1>6. Settled'
  BY <1>0, <1>1 DEF OutcomeInv, Settled
<1>7. Announced' /\ RepliesReportStore'
  BY <1>1 DEF OutcomeInv, Announced, Submitting, RepliesReportStore
<1> QED BY <1>3, <1>4, <1>5, <1>6, <1>7 DEF OutcomeInv

\* A flushed update writes the chain's outcome, and of a row that is resolved
\* already nothing but what it has.
LEMMA OutcomeFlushUpdate ==
    ASSUME SuccessInv, PlanInv, OutcomeInv, NoResume, FlushUpdate
    PROVE  OutcomeInv'
<1> DEFINE t == run.tx
<1>0. TypeInv /\ DecisionSound /\ inflight \subseteq Txs /\ db \in [Txs -> Row]
      /\ replies \in [Txs -> Seq({"Succeeded", "Failed", "Deleted"})]
  BY DEF SuccessInv, TypeInv, TypeOK
<1>1. /\ t \in Txs /\ pc = "flush" /\ db[t].status # "None" /\ run.updateType = "Update"
      /\ UNCHANGED <<ins, inflight, run, chain, replies>>
      /\ \A u \in Txs \ {t} : db'[u] = db[u] /\ pend'[u] = pend[u]
      /\ db'[t].receipt = db[t].receipt
      /\ db'[t].status = IF "status" \in run.fields THEN pend[t].status ELSE db[t].status
      /\ pend'[t].status = pend[t].status
      /\ pc' = IF run.completed /\ pend[t].status \in Resolved THEN "emit" ELSE AfterExec(run.req)
  BY <1>0, UpdateEffect
<1>2. pc' \notin {"process", "flush"}
  BY <1>1 DEF AfterExec
<1>3. db'[t].status \in Resolved =>
        /\ chain[t].final /\ db'[t].status = StatusOf(t)
        /\ Store = "postgres" \/ db[t].receipt = chain[t].outcome
        /\ pend[t].status = db'[t].status
  <2>1. CASE "status" \in run.fields
    BY <1>1, <2>1 DEF OutcomeInv, DecisionMatches, Stored
  <2>2. CASE "status" \notin run.fields
    BY <1>1, <2>2 DEF OutcomeInv, OutcomeMatchesChain, ReceiptKept, Settled, StatusOf, Stored
  <2> QED BY <2>1, <2>2
<1>4. db[t].status \in Resolved => db'[t].status = db[t].status
  BY <1>1 DEF OutcomeInv, Settled
<1>5. OutcomeMatchesChain'
  BY <1>1, <1>3 DEF OutcomeInv, OutcomeMatchesChain, StatusOf
<1>6. ReceiptKept'
  BY <1>1, <1>3 DEF OutcomeInv, ReceiptKept, Stored
<1>7. DecisionMatches'
  BY <1>2 DEF DecisionMatches
<1>8. Settled'
  BY <1>0, <1>1, <1>2, <1>3 DEF OutcomeInv, Settled
<1>9. Announced'
  <2>1. pc' = "emit" => "status" \in run.fields
    BY <1>1 DEF PlanInv, PlanSound, AfterExec
  <2>2. ~Submitting(t)
    BY <1>0, <1>1 DEF DecisionSound
  <2> QED BY <1>1, <2>1, <2>2 DEF OutcomeInv, Announced, Submitting
<1>10. RepliesReportStore'
  <2>1. replies[t] # <<>> => db[t].status \in Resolved
    <3>1. replies[t] # <<>> => replies[t][Len(replies[t])] \in {"Succeeded", "Failed", "Deleted"}
      BY <1>0, <1>1
    <3>2. db[t].status # "Deleted"
      BY <1>0, <1>1 DEF Row, Statuses
    <3> QED BY <1>1, <3>1, <3>2 DEF OutcomeInv, RepliesReportStore, Resolved
  <2> QED BY <1>1, <1>4, <2>1 DEF OutcomeInv, RepliesReportStore
<1> QED BY <1>5, <1>6, <1>7, <1>8, <1>9, <1>10 DEF OutcomeInv

LEMMA OutcomeFlushDelete ==
    ASSUME SuccessInv, OutcomeInv, FlushDelete
    PROVE  OutcomeInv'
<1> DEFINE t == run.tx
<1>0. TypeInv /\ DecisionSound /\ inflight \subseteq Txs /\ db \in [Txs -> Row]
      /\ pend \in [Txs -> Pending]
  BY DEF SuccessInv, TypeInv, TypeOK
<1>1. /\ t \in Txs /\ pc = "flush" /\ run.updateType = "Delete"
      /\ UNCHANGED <<ins, inflight, run, chain, replies>>
      /\ db' = [db EXCEPT ![t] = NoRow] /\ pend' = [pend EXCEPT ![t].remove = TRUE]
      /\ pc' = "emit"
  BY <1>0 DEF TypeInv, RunOK, FlushDelete, envVars
<1>2. /\ db'[t].status = "None" /\ \A u \in Txs \ {t} : db'[u] = db[u] /\ pend'[u] = pend[u]
  BY <1>0, <1>1 DEF NoRow
<1>3. OutcomeMatchesChain' /\ ReceiptKept' /\ RepliesReportStore'
  BY <1>1, <1>2 DEF OutcomeInv, OutcomeMatchesChain, ReceiptKept, Stored, RepliesReportStore, Resolved
<1>4. DecisionMatches'
  BY <1>1 DEF DecisionMatches
<1>5. Settled'
  BY <1>0, <1>1, <1>2 DEF OutcomeInv, Settled, Resolved
<1>6. Announced'
  BY <1>0, <1>1, <1>2 DEF OutcomeInv, Announced, Submitting, DecisionSound
<1> QED BY <1>3, <1>4, <1>5, <1>6 DEF OutcomeInv

\* The reply tells of what is stored.
LEMMA OutcomeEmit ==
    ASSUME SuccessInv, OutcomeInv, Emit
    PROVE  OutcomeInv'
<1> DEFINE t == run.tx
           e == IF run.updateType = "Delete" THEN "Deleted" ELSE pend[t].status
           Events == {"Succeeded", "Failed", "Deleted"}
<1>0. TypeInv /\ inflight \subseteq Txs /\ replies \in [Txs -> Seq(Events)]
  BY DEF SuccessInv, TypeInv, TypeOK
<1>1. /\ t \in Txs /\ pc = "emit" /\ UNCHANGED <<db, ins, inflight, pend, run, chain>>
      /\ replies' = [replies EXCEPT ![t] = Append(@, e)]
      /\ pc' \notin {"process", "flush", "emit"}
  BY <1>0 DEF TypeInv, RunOK, Emit, AfterExec, storeVars, memVars, envVars
<1>2. /\ ~Submitting(t) /\ (db[t].status = "None" \/ db[t].status = e)
  BY <1>1 DEF OutcomeInv, Announced
<1>3. e \in Events
  BY <1>0, <1>1 DEF TypeInv, RunOK, Resolved
<1> HIDE DEF e, Events
<1>4. /\ \A u \in Txs \ {t} : replies'[u] = replies[u]
      /\ replies'[t] # <<>> /\ replies'[t][Len(replies'[t])] = e
  BY <1>0, <1>1, <1>3
<1>5. RepliesReportStore'
  BY <1>1, <1>2, <1>4 DEF OutcomeInv, RepliesReportStore
<1>6. OutcomeMatchesChain' /\ ReceiptKept' /\ DecisionMatches' /\ Settled'
  BY <1>0, <1>1 DEF OutcomeInv, OutcomeMatchesChain, ReceiptKept, Stored, DecisionMatches, Settled
<1>7. Announced'
  BY <1>1, <1>2, <1>4 DEF OutcomeInv, Announced, Submitting
<1> QED BY <1>5, <1>6, <1>7 DEF OutcomeInv

LEMMA OutcomeRestart ==
    ASSUME OutcomeInv, Restart
    PROVE  OutcomeInv'
<1>1. /\ UNCHANGED <<db, chain, replies>> /\ inflight' = {} /\ pc' = "idle"
      /\ ins' = [t \in Txs |-> IF ins[t] = "new" THEN "new" ELSE "done"]
  BY DEF Restart, storeVars
<1>2. OutcomeMatchesChain' /\ ReceiptKept' /\ DecisionMatches' /\ Settled' /\ RepliesReportStore'
  BY <1>1 DEF OutcomeInv, OutcomeMatchesChain, ReceiptKept, Stored, DecisionMatches, Settled,
              RepliesReportStore
<1>3. Announced'
  BY <1>1 DEF OutcomeInv, Announced, Submitting
<1> QED BY <1>2, <1>3 DEF OutcomeInv

LEMMA OutcomeStep ==
    ASSUME SuccessInv, PlanInv, TrackInv, OutcomeInv, OutcomeCond, [Next]_vars
    PROVE  OutcomeInv'
<1>0. NoResume /\ ChainSettled /\ OutcomeCond
  BY ChainSettles DEF OutcomeCond, NoResume
<1>1. CASE \E t \in Txs : Insert(t)
  BY <1>0, <1>1, OutcomeQuiet, OutcomeInsertCommit
<1>2. CASE \E r \in Reqs : ApiRequest(r)
  BY <1>0, <1>2, OutcomeQuiet
<1>3. CASE Process
  BY <1>0, <1>3, OutcomeExecStatus, OutcomeProcess, OutcomeQuiet DEF Process
<1>4. CASE Flush
  BY <1>0, <1>4, OutcomeQuiet, OutcomeFlushUpdate, OutcomeFlushDelete, OutcomeFlushFail,
     OutcomeEmit DEF Flush
<1>5. CASE Loop
  BY <1>0, <1>3, <1>4, <1>5, OutcomeQuiet, OutcomeExec, OutcomeRespond, OutcomeUpdateInflightSet DEF Loop
<1>6. CASE Bcm
  BY <1>0, <1>6, OutcomeQuiet, OutcomeCallback DEF Bcm
<1>7. CASE Blockchain
  BY <1>0, <1>7, OutcomeQuiet
<1>8. CASE Restart
  BY <1>8, OutcomeRestart
<1>9. CASE UNCHANGED vars
  BY <1>0, <1>9, OutcomeQuiet
<1> QED BY <1>1, <1>2, <1>5, <1>6, <1>7, <1>8, <1>9 DEF Next

\* The four invariants are inductive together.
OutcomeSafe == SuccessInv /\ PlanInv /\ TrackInv /\ OutcomeInv

LEMMA OutcomeInvariant ==
    ASSUME OutcomeCond
    PROVE  Spec => []OutcomeSafe
<1>1. Init => OutcomeSafe
  BY InitSuccess, InitPlan, InitTrack, InitOutcome DEF OutcomeSafe
<1>2. OutcomeSafe /\ [Next]_vars => OutcomeSafe'
  <2>1. NoResume
    BY DEF OutcomeCond, NoResume
  <2> QED BY <2>1, SuccessStep, PlanStep, TrackStep, OutcomeStep DEF OutcomeSafe
<1> QED BY <1>1, <1>2, PTL DEF Spec

\* In full mode execPolicy never gives a transaction another outcome than the chain finally
\* gave it, whatever the callbacks, reorganisations, failing writes and restarts
\* in between.
THEOREM OutcomeCorrect ==
    ASSUME OutcomeCond
    PROVE  Spec => []OutcomeMatchesChain
<1>1. OutcomeSafe => OutcomeMatchesChain
  BY DEF OutcomeSafe, OutcomeInv
<1> QED BY <1>1, OutcomeInvariant, PTL

\* LevelDB never has a resolved transaction without the receipt that resolved it.
THEOREM ReceiptCorrect ==
    ASSUME OutcomeCond, Store = "leveldb"
    PROVE  Spec => []ReceiptStored
<1>1. OutcomeSafe => ReceiptStored
  BY DEF OutcomeSafe, OutcomeInv, ReceiptKept, ReceiptStored, Stored, Resolved
<1> QED BY <1>1, OutcomeInvariant, PTL

\* A completion event is handed out only after what it tells of is stored, and
\* nothing is stored over it afterwards.
THEOREM RepliesCorrect ==
    ASSUME OutcomeCond
    PROVE  Spec => []RepliesReportStore
<1>1. OutcomeSafe => RepliesReportStore
  BY DEF OutcomeSafe, OutcomeInv
<1> QED BY <1>1, OutcomeInvariant, PTL

(***************************************************************************)
(* Refinement of TxLifecycle                                               *)
(***************************************************************************)

\* The status a client sees; the function the refinement maps status to.
StatusMap == [t \in Txs |->
                 IF db[t].status # "None" THEN db[t].status
                 ELSE IF ins[t] \in {"new", "inserting"} THEN "New" ELSE "Gone"]

\* Steps that change neither a status nor a reply are stuttering steps.
LEMMA LifeQuiet ==
    ASSUME replies' = replies, \A t \in Txs : db'[t].status = db[t].status,
           \A t \in Txs : (ins'[t] \in {"new", "inserting"}) = (ins[t] \in {"new", "inserting"})
    PROVE  UNCHANGED Abstract!vars
BY DEF Abstract!vars

LEMMA LifeInit == Init => Abstract!Init
BY DEF Init, Abstract!Init, NoRow

LEMMA OnePoint ==
    ASSUME NEW D, NEW F, NEW G, NEW t \in D, NEW to,
           F = [u \in D |-> F[u]], G = [u \in D |-> G[u]],
           G[t] = to, \A u \in D \ {t} : G[u] = F[u]
    PROVE  G = [F EXCEPT ![t] = to]
OBVIOUS

\* One step of the status of one transaction.
LEMMA LifeMove ==
    ASSUME NEW t \in Txs, NEW from, NEW to, replies' = replies,
           StatusMap[t] \in from, StatusMap'[t] = to,
           \A u \in Txs \ {t} : StatusMap'[u] = StatusMap[u]
    PROVE  Abstract!Move(t, from, to)
<1>1. StatusMap = [u \in Txs |-> StatusMap[u]]
  BY DEF StatusMap
<1>2. StatusMap' = [u \in Txs |-> StatusMap'[u]]
  BY DEF StatusMap
<1>3. StatusMap' = [StatusMap EXCEPT ![t] = to]
  BY <1>1, <1>2, OnePoint, Zenon
<1> QED BY <1>3, Zenon DEF Abstract!Move, StatusMap

\* What a step does to the statuses, in terms of the rows.
LEMMA LifeRow ==
    ASSUME NEW t \in Txs, NEW from, NEW to, replies' = replies, ins' = ins,
           db[t].status \in from, db[t].status # "None",
           \A u \in Txs \ {t} : db'[u] = db[u],
           to = IF db'[t].status # "None" THEN db'[t].status ELSE "Gone",
           ~Submitting(t)
    PROVE  Abstract!Move(t, from, to)
<1>1. StatusMap[t] \in from /\ StatusMap'[t] = to
  BY DEF StatusMap, Submitting
<1>2. \A u \in Txs \ {t} : StatusMap'[u] = StatusMap[u]
  BY DEF StatusMap
<1> QED BY <1>1, <1>2, LifeMove

\* Steps that neither write a row nor give a reply.
LEMMA LifeStutter ==
    ASSUME SuccessInv,
           \/ \E t \in Txs : InsertBegin(t) \/ InsertHistoryFail(t) \/ InsertMarkStale(t)
                             \/ InsertMarkUpdate(t)
           \/ \E r \in Reqs : ApiRequest(r)
           \/ BeginCycle \/ UpdateInflightSet \/ SkipInflightSet \/ EndCycle
           \/ Process \/ FlushNone \/ Bcm \/ Blockchain
           \/ \E r \in Reqs : Respond(r)
           \/ UNCHANGED vars
    PROVE  UNCHANGED Abstract!vars
<1>0. ins \in [Txs -> {"new", "inserting", "inserted", "marked", "done", "failed"}]
  BY DEF SuccessInv, TypeInv, TypeOK
<1>1. /\ UNCHANGED <<db, replies>>
      /\ \A t \in Txs : (ins'[t] \in {"new", "inserting"}) = (ins[t] \in {"new", "inserting"})
  <2>1. CASE \E t \in Txs : InsertBegin(t) \/ InsertHistoryFail(t) \/ InsertMarkStale(t)
                             \/ InsertMarkUpdate(t)
    BY <1>0, <2>1 DEF InsertBegin, InsertHistoryFail, InsertMarkStale, InsertMarkUpdate, storeVars
  <2>2. CASE \E r \in Reqs : ApiRequest(r) \/ Respond(r)
    BY <2>2 DEF ApiRequest, RequestQueue, RequestWait, RequestTimeout, Respond, storeVars
  <2>3. CASE BeginCycle \/ UpdateInflightSet \/ SkipInflightSet \/ EndCycle \/ FlushNone
    BY <2>3 DEF BeginCycle, UpdateInflightSet, SkipInflightSet, EndCycle, FlushNone, storeVars
  <2>4. CASE Process
    BY <2>4 DEF Process, ExecStatus, ExecNotDue, ProcessNoSend, ProcessSend, ProcessPanic, storeVars
  <2>5. CASE Bcm \/ Blockchain
    BY <2>5 DEF Bcm, BcmNotification, BcmReceipt, BcmConfirmations, BcmConfirm, BcmReceiptGone,
                Blockchain, Mine, Reorg, storeVars
  <2>6. CASE UNCHANGED vars
    BY <2>6 DEF vars
  <2> QED BY <2>1, <2>2, <2>3, <2>4, <2>5, <2>6
<1> QED BY <1>1, LifeQuiet

\* The snapshot of a record may write its receipt, never its status.
LEMMA LifeExec ==
    ASSUME SuccessInv, PlanInv,
           (\E r \in Reqs : ExecRequest(r)) \/ (\E t \in Txs : ExecInflight(t))
    PROVE  UNCHANGED Abstract!vars
<1>0. TypeInv
  BY DEF SuccessInv
<1>1. UNCHANGED <<ins, replies>> /\ \A t \in Txs : db'[t].status = db[t].status
  <2>1. CASE \E t \in Txs : ExecInflight(t)
    <3>1. PICK t \in Txs : ExecInflight(t)
      BY <2>1
    <3>2. PendingToRunContext(t, NoAction, NoReq, FALSE)
      BY <3>1 DEF ExecInflight
    <3> QED BY <1>0, <3>1, <3>2, SnapshotMarks DEF ExecInflight
  <2>2. CASE \E r \in Reqs : ExecRequest(r)
    <3>1. PICK r \in Reqs : ExecRequest(r)
      BY <2>2
    <3>2. req[r].tx \in Txs /\ req[r].act \in Actions /\ UNCHANGED <<ins, replies>>
      BY <1>0, <3>1, HeadRequest DEF PlanInv, ExecRequest
    <3>3. CASE \E touched \in BOOLEAN : PendingToRunContext(req[r].tx, req[r].act, r, touched)
      BY <1>0, <3>2, <3>3, SnapshotMarks
    <3> QED BY <3>1, <3>2, <3>3 DEF ExecRequest
  <2> QED BY <2>1, <2>2
<1> QED BY <1>1, LifeQuiet

\* A row that a flush writes keeps its status, is suspended or is resolved.
LEMMA LifeFlushUpdate ==
    ASSUME SuccessInv, PlanInv, OutcomeInv, NoResume, FlushUpdate
    PROVE  [Abstract!Next]_(Abstract!vars)
<1> DEFINE t == run.tx
<1>0. TypeInv /\ DecisionSound /\ db \in [Txs -> Row] /\ pend \in [Txs -> Pending]
  BY DEF SuccessInv, TypeInv, TypeOK
<1>1. /\ t \in Txs /\ pc = "flush" /\ db[t].status # "None"
      /\ UNCHANGED <<ins, replies>>
      /\ \A u \in Txs \ {t} : db'[u] = db[u]
      /\ db'[t].status = IF "status" \in run.fields THEN pend[t].status ELSE db[t].status
  BY <1>0, UpdateEffect
<1>2. ~Submitting(t) /\ db[t].status \in Resolved \cup {"Pending", "Suspended"}
  BY <1>0, <1>1 DEF DecisionSound, Row, Statuses, Resolved
<1>3. CASE db'[t].status = db[t].status
  BY <1>1, <1>3, LifeQuiet
<1>4. CASE db'[t].status # db[t].status
  <2>1. /\ db'[t].status = pend[t].status
        /\ pend[t].status \in Resolved \cup {"Suspended"}
    BY <1>1, <1>4 DEF PlanInv, PlanSound
  <2>2. db[t].status \in {"Pending", "Suspended"}
    BY <1>1, <1>2, <1>4, <2>1 DEF OutcomeInv, Settled
  <2>3. db'[t].status # "None"
    BY <2>1 DEF Resolved
  <2>4. CASE db'[t].status \in Resolved
    <3>1. PICK to \in Abstract!Resolved : db'[t].status = to
      BY <2>4 DEF Abstract!Resolved, Resolved
    <3>2. to = IF db'[t].status # "None" THEN db'[t].status ELSE "Gone"
      BY <2>3, <3>1
    <3>3. Abstract!Move(t, {"Pending", "Suspended"}, to)
      BY <1>1, <1>2, <2>2, <3>2, LifeRow
    <3> QED BY <1>1, <3>3 DEF Abstract!Next, Abstract!Resolve
  <2>5. CASE db'[t].status = "Suspended"
    <3>1. db[t].status \in {"Pending"}
      BY <1>4, <2>2, <2>5
    <3>2. Abstract!Move(t, {"Pending"}, "Suspended")
      BY <1>1, <1>2, <2>5, <3>1, LifeRow
    <3> QED BY <1>1, <3>2 DEF Abstract!Next, Abstract!Suspend
  <2> QED BY <2>1, <2>4, <2>5
<1> QED BY <1>3, <1>4

LEMMA LifeFlushDelete ==
    ASSUME SuccessInv, FlushDelete
    PROVE  [Abstract!Next]_(Abstract!vars)
<1> DEFINE t == run.tx
<1>0. TypeInv /\ DecisionSound /\ db \in [Txs -> Row]
  BY DEF SuccessInv, TypeInv, TypeOK
<1>1. /\ t \in Txs /\ pc = "flush" /\ UNCHANGED <<ins, replies>>
      /\ db' = [db EXCEPT ![t] = NoRow]
  BY <1>0 DEF TypeInv, RunOK, FlushDelete
<1>2. db'[t].status = "None" /\ \A u \in Txs \ {t} : db'[u] = db[u]
  BY <1>0, <1>1 DEF NoRow
<1>3. CASE db[t].status = "None"
  BY <1>1, <1>2, <1>3, LifeQuiet
<1>4. CASE db[t].status # "None"
  <2>1. ~Submitting(t) /\ db[t].status \in Abstract!Stored
    BY <1>0, <1>1, <1>4 DEF DecisionSound, Row, Statuses, Abstract!Stored, Abstract!Resolved
  <2>2. Abstract!Move(t, Abstract!Stored, "Gone")
    BY <1>1, <1>2, <1>4, <2>1, LifeRow
  <2> QED BY <1>1, <2>2 DEF Abstract!Next, Abstract!Delete
<1> QED BY <1>3, <1>4

\* The reply tells of what is stored.
LEMMA LifeEmit ==
    ASSUME SuccessInv, OutcomeInv, Emit
    PROVE  Abstract!Next
<1> DEFINE t == run.tx
           e == IF run.updateType = "Delete" THEN "Deleted" ELSE pend[t].status
<1>0. TypeInv
  BY DEF SuccessInv
<1>1. /\ t \in Txs /\ pc = "emit" /\ UNCHANGED <<db, ins>>
      /\ replies' = [replies EXCEPT ![t] = Append(@, e)]
  BY <1>0 DEF TypeInv, RunOK, Emit, storeVars
<1>2. /\ ~Submitting(t)
      /\ IF run.updateType = "Delete" THEN db[t].status = "None"
         ELSE db[t].status = pend[t].status /\ pend[t].status \in Resolved
  BY <1>0, <1>1 DEF OutcomeInv, Announced, TypeInv, RunOK
<1>3. StatusMap' = StatusMap
  BY <1>1 DEF StatusMap
<1>4. /\ StatusMap[t] \in Resolved \cup {"Gone"}
      /\ e = IF StatusMap[t] = "Gone" THEN "Deleted" ELSE StatusMap[t]
  BY <1>1, <1>2 DEF StatusMap, Resolved, Submitting
<1> HIDE DEF e
<1>5. Abstract!Report(t)
  <2>1. replies' = [replies EXCEPT ![t] =
                      Append(@, IF StatusMap[t] = "Gone" THEN "Deleted" ELSE StatusMap[t])]
    BY <1>1, <1>4
  <2> QED BY <1>3, <1>4, <2>1, Zenon DEF Abstract!Report, Abstract!Resolved, Resolved, StatusMap
<1> QED BY <1>1, <1>5 DEF Abstract!Next


LEMMA LifeInsertCommit ==
    ASSUME SuccessInv, NEW t \in Txs, InsertCommit(t)
    PROVE  Abstract!Next
<1>0. /\ db \in [Txs -> Row] /\ SubmittingUnknown
      /\ ins \in [Txs -> {"new", "inserting", "inserted", "marked", "done", "failed"}]
  BY DEF SuccessInv, DataInv, TypeInv, TypeOK
<1>1. /\ ins[t] = "inserting" /\ ins' = [ins EXCEPT ![t] = "inserted"] /\ replies' = replies
      /\ db' = [db EXCEPT ![t] = [NoRow EXCEPT !.status = "Pending", !.listed = TRUE]]
  BY DEF InsertCommit
<1>2. db[t].status = "None" /\ db'[t].status = "Pending"
  BY <1>0, <1>1 DEF SubmittingUnknown, Submitting, NoRow
<1>3. StatusMap[t] \in {"New"} /\ StatusMap'[t] = "Pending"
  BY <1>1, <1>2 DEF StatusMap
<1>4. \A u \in Txs \ {t} : db'[u] = db[u] /\ ins'[u] = ins[u]
  BY <1>0, <1>1
<1>5. \A u \in Txs \ {t} : StatusMap'[u] = StatusMap[u]
  BY <1>4 DEF StatusMap
<1>6. Abstract!Move(t, {"New"}, "Pending")
  BY <1>1, <1>3, <1>5, LifeMove
<1> QED BY <1>6 DEF Abstract!Next, Abstract!Accept

\* A submission that ends without a row is refused: one whose insert fails, or
\* all those a restart takes in the middle of their insert.
LEMMA LifeRefuse ==
    ASSUME SuccessInv, NEW S \in SUBSET Txs, UNCHANGED <<db, replies>>,
           \A t \in S : ins[t] = "inserting" /\ ~(ins'[t] \in {"new", "inserting"}),
           \A t \in Txs \ S : (ins'[t] \in {"new", "inserting"}) = (ins[t] \in {"new", "inserting"})
    PROVE  Abstract!Next
<1>1. \A t \in S : db[t].status = "None"
  BY DEF SuccessInv, DataInv, SubmittingUnknown, Submitting
<1>2. \A t \in S : StatusMap[t] = "New"
  BY <1>1 DEF StatusMap
<1>3. StatusMap' = [t \in Txs |-> IF t \in S THEN "Gone" ELSE StatusMap[t]]
  BY <1>1 DEF StatusMap
<1>4. Abstract!Refuse(S)
  BY <1>2, <1>3, Zenon DEF Abstract!Refuse, StatusMap
<1> QED BY <1>4 DEF Abstract!Next

LEMMA LifeStep ==
    ASSUME OutcomeSafe, OutcomeCond, [Next]_vars
    PROVE  [Abstract!Next]_(Abstract!vars)
<1>0. /\ SuccessInv /\ PlanInv /\ TrackInv /\ OutcomeInv /\ NoResume
      /\ ins \in [Txs -> {"new", "inserting", "inserted", "marked", "done", "failed"}]
  BY DEF OutcomeSafe, OutcomeCond, NoResume, SuccessInv, TypeInv, TypeOK
<1>1. CASE \E t \in Txs : InsertFail(t)
  <2>1. PICK t \in Txs : InsertFail(t)
    BY <1>1
  <2>2. /\ UNCHANGED <<db, replies>> /\ ins[t] = "inserting" /\ ins' = [ins EXCEPT ![t] = "failed"]
    BY <2>1 DEF InsertFail, storeVars
  <2>3. /\ \A u \in {t} : ins[u] = "inserting" /\ ~(ins'[u] \in {"new", "inserting"})
        /\ \A u \in Txs \ {t} : (ins'[u] \in {"new", "inserting"}) = (ins[u] \in {"new", "inserting"})
    BY <1>0, <2>2
  <2>4. {t} \in SUBSET Txs
    OBVIOUS
  <2> QED BY <1>0, <2>2, <2>3, <2>4, LifeRefuse
<1>2. CASE Restart
  <2> DEFINE S == {t \in Txs : ins[t] = "inserting"}
  <2>1. UNCHANGED <<db, replies>> /\ ins' = [t \in Txs |-> IF ins[t] = "new" THEN "new" ELSE "done"]
    BY <1>2 DEF Restart, storeVars
  <2>2. /\ \A t \in S : ins[t] = "inserting" /\ ~(ins'[t] \in {"new", "inserting"})
        /\ \A t \in Txs \ S : (ins'[t] \in {"new", "inserting"}) = (ins[t] \in {"new", "inserting"})
    BY <1>0, <2>1
  <2> QED BY <1>0, <2>1, <2>2, LifeRefuse
<1>3. CASE FlushFail
  BY <1>0, <1>3, FailEffect, LifeQuiet DEF SuccessInv
<1>4. CASE \E t \in Txs : Insert(t)
  BY <1>0, <1>1, <1>4, LifeInsertCommit, LifeStutter DEF Insert
<1>5. CASE Flush
  BY <1>0, <1>3, <1>5, LifeStutter, LifeFlushUpdate, LifeFlushDelete, LifeEmit DEF Flush
<1>6. CASE Loop
  BY <1>0, <1>5, <1>6, LifeStutter, LifeExec DEF Loop
<1>7. CASE \/ \E r \in Reqs : ApiRequest(r)
           \/ Bcm \/ Blockchain \/ UNCHANGED vars
  BY <1>0, <1>7, LifeStutter
<1> QED BY <1>2, <1>4, <1>6, <1>7 DEF Next

\* The policy loop implements the life TxLifecycle promises of a transaction:
\* flushChanges is the only writer of a status, and never leads out of Succeeded
\* or Failed but by deletion; a completion event tells of the status stored.
THEOREM LifecycleCorrect ==
    ASSUME OutcomeCond
    PROVE  Spec => Lifecycle
<1>1. Spec => []OutcomeSafe
  BY OutcomeInvariant
<1>2. OutcomeSafe /\ [Next]_vars => [Abstract!Next]_(Abstract!vars)
  BY LifeStep
<1> QED BY <1>1, <1>2, LifeInit, PTL DEF Spec, Lifecycle, Abstract!Spec

(***************************************************************************)
(* The two phases of a cycle                                               *)
(***************************************************************************)

\* The cycle answers requests first, then executes what is in flight.
InRequests == pc = "requests" \/ (pc \in {"process", "flush", "emit", "respond"} /\ run.req # NoReq)
InCycle == pc \in {"idle", "cycle"} \/ (pc \in {"process", "flush", "emit"} /\ run.req = NoReq)

\* Only an execution for a request has an action, nothing is left to execute
\* until the requests are answered, and what is executed is left no more.
PhaseInv ==
    /\ pc \in {"process", "flush", "emit"} => (run.act = NoAction <=> run.req = NoReq)
    /\ InRequests \/ pc = "idle" => todo = {}
    /\ pc \in {"process", "flush", "emit"} /\ run.req = NoReq => run.tx \notin todo

LEMMA InitPhase == Init => PhaseInv
BY DEF Init, PhaseInv, InRequests

\* The execution in progress goes on, or ends.
LEMMA PhaseExec ==
    ASSUME PhaseInv, todo' = todo, run'.tx = run.tx, run'.act = run.act, run'.req = run.req,
           pc \in {"process", "flush", "emit"}, pc' \in {"flush", "emit", "panic", AfterExec(run.req)}
    PROVE  PhaseInv' /\ (InRequests' => InRequests) /\ (InCycle' => InCycle)
BY DEF PhaseInv, InRequests, InCycle, AfterExec

\* What does not start a cycle, refresh the in-flight set or restart leaves the
\* phase, the set and its marker as they are; the marker may be set.
Steady == /\ InRequests' => InRequests /\ refresh' = refresh
          /\ InCycle' => InCycle /\ (stale => stale')
          /\ todo' \subseteq todo /\ inflight' = inflight

LEMMA PhaseProcess ==
    ASSUME TypeInv, PhaseInv, Process
    PROVE  PhaseInv' /\ Steady
<1>1. /\ UNCHANGED <<todo, refresh, stale, inflight>> /\ pc = "process" /\ pc' \in {"flush", "panic"}
      /\ run'.tx = run.tx /\ run'.act = run.act /\ run'.req = run.req
  <2>1. CASE ProcessNoSend \/ ProcessSend
    BY <2>1, ProcessPlan
  <2>2. CASE ExecStatus
    <3>1. run \in RunContext /\ pc = "process" /\ pc' = "flush" /\ UNCHANGED <<todo, refresh, stale, inflight>>
      BY <2>2 DEF TypeInv, TypeOK, ExecStatus
    <3>2. \/ run' = run
          \/ \E c : run' = [run EXCEPT !.updateType = "Update", !.fields = @ \cup {"status"}, !.completed = c]
      BY <2>2, Zenon DEF ExecStatus
    <3> QED BY <3>1, <3>2 DEF RunContext
  <2>3. CASE ExecNotDue \/ ProcessPanic
    BY <2>3 DEF ExecNotDue, ProcessPanic, Default, memVars
  <2> QED BY <2>1, <2>2, <2>3 DEF Process
<1> QED BY <1>1, PhaseExec DEF Steady

LEMMA PhaseFlush ==
    ASSUME TypeInv, PhaseInv, Flush
    PROVE  PhaseInv' /\ Steady
<1>1. /\ UNCHANGED <<todo, refresh, inflight, run>> /\ (stale => stale')
      /\ pc \in {"flush", "emit"} /\ pc' \in {"emit", AfterExec(run.req)}
  <2>1. CASE FlushNone \/ FlushFail \/ Emit
    BY <2>1 DEF FlushNone, FlushFail, Emit, memVars
  <2>2. CASE FlushUpdate
    BY <2>2 DEF FlushUpdate
  <2>3. CASE FlushDelete
    BY <2>3 DEF FlushDelete
  <2> QED BY <2>1, <2>2, <2>3 DEF Flush
<1> QED BY <1>1, PhaseExec DEF Steady

LEMMA PhaseExecRequest ==
    ASSUME TypeInv, ReqsAsked, PhaseInv, NEW r \in Reqs, ExecRequest(r)
    PROVE  PhaseInv' /\ Steady
<1>1. /\ req[r].tx \in Txs /\ req[r].act \in Actions /\ pc = "requests"
      /\ UNCHANGED <<todo, refresh, stale, inflight>>
  BY HeadRequest DEF ExecRequest
<1>2. r # NoReq /\ req[r].act # NoAction
  BY <1>1, RequestsAssumption, ActionsAssumption DEF NoAction
<1>3. /\ pc' \in {"process", "respond"} /\ run'.act = req[r].act /\ run'.req = r
  <2>1. CASE \E touched \in BOOLEAN : PendingToRunContext(req[r].tx, req[r].act, r, touched)
    <3>1. pc' \in {"process", AfterExec(r)} /\ run'.act = req[r].act /\ run'.req = r
      BY <1>1, <2>1, SnapshotMarks
    <3> QED BY <1>2, <3>1 DEF AfterExec
  <2>2. CASE run' = [NoRun EXCEPT !.tx = req[r].tx, !.req = r, !.act = req[r].act] /\ pc' = "respond"
    BY <2>2 DEF NoRun
  <2> QED BY <2>1, <2>2 DEF ExecRequest
<1> QED BY <1>1, <1>2, <1>3 DEF PhaseInv, Steady, InRequests, InCycle

LEMMA PhaseExecInflight ==
    ASSUME TypeInv, PhaseInv, NEW t \in Txs, ExecInflight(t)
    PROVE  PhaseInv' /\ Steady
<1>1. /\ pc = "cycle" /\ t \in todo /\ todo' = todo \ {t}
      /\ UNCHANGED <<refresh, stale, inflight>> /\ PendingToRunContext(t, NoAction, NoReq, FALSE)
  BY DEF ExecInflight
<1>2. /\ pc' \in {"process", AfterExec(NoReq)}
      /\ run'.tx = t /\ run'.act = NoAction /\ run'.req = NoReq
  BY <1>1, SnapshotMarks
<1> QED BY <1>1, <1>2 DEF PhaseInv, Steady, InRequests, InCycle, AfterExec

LEMMA PhaseLoop ==
    ASSUME TypeInv, PhaseInv,
           (\E r \in Reqs : Respond(r)) \/ BeginCycle \/ UpdateInflightSet \/ SkipInflightSet
           \/ EndCycle \/ Restart
    PROVE  PhaseInv' /\ ((\E r \in Reqs : Respond(r)) \/ EndCycle => Steady)
<1>1. CASE \E r \in Reqs : Respond(r)
  <2>1. /\ UNCHANGED <<todo, refresh, stale, inflight>> /\ pc = "respond" /\ pc' \in {"hung", "requests"}
        /\ run.req \in Reqs
    BY <1>1 DEF TypeInv, RunOK, Respond
  <2> QED BY <2>1, RequestsAssumption DEF PhaseInv, Steady, InRequests, InCycle, Respond,
             BeginCycle, UpdateInflightSet, SkipInflightSet, EndCycle
<1>2. CASE EndCycle
  BY <1>2 DEF EndCycle, memVars, PhaseInv, Steady, InRequests, InCycle
<1>3. CASE BeginCycle \/ UpdateInflightSet \/ SkipInflightSet
  BY <1>3 DEF BeginCycle, UpdateInflightSet, SkipInflightSet, PhaseInv, InRequests, EndCycle, Respond
<1>4. CASE Restart
  <2>1. pc' = "idle" /\ todo' = {}
    BY <1>4 DEF Restart
  <2> QED BY <1>1, <1>2, <2>1 DEF PhaseInv, InRequests
<1> QED BY <1>1, <1>2, <1>3, <1>4

LEMMA PhaseStep ==
    ASSUME TypeInv, ReqsAsked, PhaseInv, [Next]_vars
    PROVE  PhaseInv' /\ (Steady \/ BeginCycle \/ UpdateInflightSet \/ SkipInflightSet \/ Restart)
<1>1. ASSUME UNCHANGED <<refresh, inflight, todo, run>>, pc' = pc, stale => stale'
      PROVE  PhaseInv' /\ Steady
  BY <1>1 DEF PhaseInv, Steady, InRequests, InCycle
<1>2. CASE \E t \in Txs : Insert(t)
  BY <1>1, <1>2 DEF Insert, InsertBegin, InsertCommit, InsertFail, InsertHistoryFail,
                    InsertMarkStale, InsertMarkUpdate, memVars, loopVars
<1>3. CASE \E r \in Reqs : ApiRequest(r)
  BY <1>1, <1>3 DEF ApiRequest, RequestQueue, RequestWait, RequestTimeout, memVars, loopVars
<1>4. CASE Bcm
  <2>1. UNCHANGED <<refresh, inflight, todo, run, pc, stale>>
    <3>1. CASE BcmNotification
      BY <3>1 DEF BcmNotification, memVars, loopVars
    <3>2. ASSUME NEW t \in Txs, NEW h \in Hashes, BcmReceipt(t, h) \/ BcmConfirmations(t, h) \/ BcmConfirm(t, h)
          PROVE  UNCHANGED <<refresh, inflight, todo, run, pc, stale>>
      BY <3>2 DEF BcmReceipt, BcmConfirmations, BcmConfirm, loopVars
    <3>3. ASSUME NEW t \in Txs, NEW h \in Hashes, BcmReceiptGone(t, h)
          PROVE  UNCHANGED <<refresh, inflight, todo, run, pc, stale>>
      BY <3>3 DEF BcmReceiptGone, memVars, loopVars
    <3> QED BY <1>4, <3>1, <3>2, <3>3 DEF Bcm
  <2> QED BY <1>1, <2>1
<1>5. CASE Blockchain
  <2>1. UNCHANGED <<refresh, inflight, todo, run, pc, stale>>
    BY <1>5 DEF Blockchain, Mine, Reorg, memVars, loopVars
  <2> QED BY <1>1, <2>1
<1>6. CASE UNCHANGED vars
  BY <1>1, <1>6 DEF vars
<1>7. CASE Loop
  BY <1>7, PhaseProcess, PhaseFlush, PhaseExecRequest, PhaseExecInflight, PhaseLoop DEF Loop
<1>8. CASE Restart
  BY <1>8, PhaseLoop
<1> QED BY <1>2, <1>3, <1>4, <1>5, <1>6, <1>7, <1>8 DEF Next

(***************************************************************************)
(* One completion event                                                    *)
(***************************************************************************)

\* An index key is written by an insert only, and a record marked for removal
\* stays marked as long as it is in flight.
IndexShrinks == \A t \in Txs : db'[t].listed => db[t].listed \/ (Submitting(t) /\ InsertCommit(t))
RemoveKept == \A t \in inflight : pend[t].remove => pend'[t].remove

LEMMA MarksQuiet ==
    ASSUME TypeInv,
           \/ \E t \in Txs : Insert(t)
           \/ \E r \in Reqs : ApiRequest(r) \/ Respond(r)
           \/ BeginCycle \/ SkipInflightSet \/ EndCycle \/ ExecNotDue \/ ProcessPanic \/ FlushNone
           \/ Emit \/ Bcm \/ Blockchain \/ UNCHANGED vars
    PROVE  SubmittingShrinks /\ IndexShrinks /\ RemoveKept
<1>0. /\ ins \in [Txs -> {"new", "inserting", "inserted", "marked", "done", "failed"}]
      /\ db \in [Txs -> Row] /\ pend \in [Txs -> Pending] /\ inflight \subseteq Txs
  BY DEF TypeInv, TypeOK
<1>1. ASSUME UNCHANGED <<db, ins>>, MarksSame
      PROVE  SubmittingShrinks /\ IndexShrinks /\ RemoveKept
  BY <1>0, <1>1 DEF SubmittingShrinks, IndexShrinks, RemoveKept, Submitting, MarksSame
<1>2. CASE \E t \in Txs : Insert(t)
  <2>1. PICK t \in Txs : Insert(t)
    BY <1>2
  <2>2. pend' = pend /\ ins[t] \in {"new", "inserting", "inserted", "marked"}
    BY <2>1 DEF Insert, InsertBegin, InsertCommit, InsertFail, InsertHistoryFail, InsertMarkStale,
                InsertMarkUpdate, memVars
  <2>3. /\ \A u \in Txs \ {t} : ins'[u] = ins[u] /\ db'[u] = db[u]
        /\ ins'[t] \in {"new", "inserting"} => Submitting(t)
        /\ db'[t].listed => db[t].listed \/ (Submitting(t) /\ InsertCommit(t))
    BY <1>0, <2>1 DEF Insert, InsertBegin, InsertCommit, InsertFail, InsertHistoryFail,
                      InsertMarkStale, InsertMarkUpdate, Submitting, storeVars
  <2> QED BY <2>2, <2>3 DEF SubmittingShrinks, IndexShrinks, RemoveKept, Submitting
<1>3. CASE \E r \in Reqs : ApiRequest(r)
  <2>1. UNCHANGED <<db, ins, pend>>
    BY <1>3 DEF ApiRequest, RequestQueue, RequestWait, RequestTimeout, storeVars, memVars
  <2> QED BY <1>1, <2>1 DEF MarksSame
<1>4. CASE \E r \in Reqs : Respond(r)
  <2>1. /\ UNCHANGED <<db, ins>>
        /\ pend' = IF run.tx \in inflight THEN pend ELSE [pend EXCEPT ![run.tx] = NoPending]
    BY <1>4 DEF Respond, storeVars
  <2>2. \A t \in inflight : pend'[t] = pend[t]
    BY <1>0, <2>1
  <2> QED BY <2>1, <2>2 DEF SubmittingShrinks, IndexShrinks, RemoveKept, Submitting
<1>5. CASE \/ BeginCycle \/ SkipInflightSet \/ EndCycle \/ ExecNotDue \/ ProcessPanic \/ FlushNone
           \/ Emit \/ Blockchain \/ UNCHANGED vars
  <2>1. UNCHANGED <<db, ins, pend>>
    BY <1>5 DEF BeginCycle, SkipInflightSet, EndCycle, ExecNotDue, ProcessPanic, FlushNone, Emit,
                Blockchain, Mine, Reorg, vars, storeVars, memVars
  <2> QED BY <1>1, <2>1 DEF MarksSame
<1>6. CASE Bcm
  <2>1. UNCHANGED <<db, ins>>
    BY <1>6 DEF Bcm, BcmNotification, BcmReceipt, BcmConfirmations, BcmConfirm, BcmReceiptGone, storeVars
  <2>2. CASE BcmNotification
    BY <1>1, <2>1, <2>2 DEF BcmNotification, memVars, MarksSame
  <2>3. ASSUME NEW t \in Txs, NEW h \in Hashes,
               BcmReceipt(t, h) \/ BcmConfirmations(t, h) \/ BcmConfirm(t, h)
        PROVE  MarksSame
    BY <1>0, <2>3, CallbackMarks DEF BcmReceipt, BcmConfirmations, BcmConfirm
  <2>4. ASSUME NEW t \in Txs, NEW h \in Hashes, BcmReceiptGone(t, h)
        PROVE  MarksSame
    BY <2>4 DEF BcmReceiptGone, memVars, MarksSame
  <2> QED BY <1>1, <1>6, <2>1, <2>2, <2>3, <2>4 DEF Bcm
<1> QED BY <1>2, <1>3, <1>4, <1>5, <1>6

LEMMA MarksExec ==
    ASSUME SuccessInv, PlanInv, NoResume,
           \/ \E r \in Reqs : ExecRequest(r)
           \/ \E t \in Txs : ExecInflight(t)
           \/ ExecStatus \/ ProcessNoSend \/ ProcessSend
           \/ FlushUpdate \/ FlushDelete \/ FlushFail
    PROVE  SubmittingShrinks /\ IndexShrinks /\ RemoveKept
<1>0. TypeInv /\ db \in [Txs -> Row] /\ pend \in [Txs -> Pending] /\ inflight \subseteq Txs
  BY DEF SuccessInv, TypeInv, TypeOK
<1>1. ASSUME NEW t \in Txs, NEW a \in Actions \cup {NoAction}, NEW r \in Reqs \cup {NoReq},
             NEW touched \in BOOLEAN, PendingToRunContext(t, a, r, touched), ins' = ins
      PROVE  SubmittingShrinks /\ IndexShrinks /\ RemoveKept
  <2>0. TypeInv
    BY <1>0
  <2>1. /\ \A u \in Txs \ {t} : db'[u] = db[u] /\ pend'[u] = pend[u]
        /\ db'[t].listed = db[t].listed /\ pend'[t].remove = Record(t).remove
    BY <2>0, <1>1, SnapshotMarks
  <2>2. t \in inflight => Record(t) = pend[t]
    BY DEF Record
  <2> QED BY <1>0, <1>1, <2>1, <2>2 DEF SubmittingShrinks, IndexShrinks, RemoveKept, Submitting
<1>2. CASE \E r \in Reqs : ExecRequest(r)
  <2>1. PICK r \in Reqs : ExecRequest(r)
    BY <1>2
  <2>2. req[r].tx \in Txs /\ req[r].act \in Actions /\ ins' = ins
    BY <1>0, <2>1, HeadRequest DEF PlanInv, ExecRequest
  <2>3. CASE UNCHANGED <<db, pend>>
    BY <2>2, <2>3 DEF SubmittingShrinks, IndexShrinks, RemoveKept, Submitting
  <2>4. CASE \E touched \in BOOLEAN : PendingToRunContext(req[r].tx, req[r].act, r, touched)
    BY <1>1, <2>2, <2>4
  <2> QED BY <2>1, <2>3, <2>4 DEF ExecRequest
<1>3. CASE \E t \in Txs : ExecInflight(t)
  BY <1>1, <1>3 DEF ExecInflight
<1>4. CASE ExecStatus \/ ProcessNoSend \/ ProcessSend
  <2>1. UNCHANGED <<db, ins>> /\ \A t \in Txs : pend'[t].remove = pend[t].remove
    BY <1>0, <1>4, StatusPlan, ProcessPlan DEF MarksSame
  <2> QED BY <1>0, <2>1 DEF SubmittingShrinks, IndexShrinks, RemoveKept, Submitting
<1>5. CASE FlushUpdate
  <2>1. /\ run.tx \in Txs /\ ins' = ins
        /\ \A u \in Txs \ {run.tx} : db'[u] = db[u] /\ pend'[u] = pend[u]
        /\ db'[run.tx].listed => db[run.tx].listed
        /\ pend'[run.tx].remove = (pend[run.tx].remove \/ run.completed)
    BY <1>0, <1>5, UpdateEffect
  <2> QED BY <1>0, <2>1 DEF SubmittingShrinks, IndexShrinks, RemoveKept, Submitting
<1>6. CASE FlushDelete
  <2>1. /\ run.tx \in Txs /\ ins' = ins /\ db' = [db EXCEPT ![run.tx] = NoRow]
        /\ pend' = [pend EXCEPT ![run.tx].remove = TRUE]
    BY <1>0, <1>6 DEF FlushDelete, TypeInv, RunOK
  <2>2. /\ \A u \in Txs : db'[u].listed => db[u].listed
        /\ \A u \in Txs : pend[u].remove => pend'[u].remove
    BY <1>0, <2>1 DEF NoRow, Pending
  <2> QED BY <1>0, <2>1, <2>2 DEF SubmittingShrinks, IndexShrinks, RemoveKept, Submitting
<1>7. CASE FlushFail
  <2>1. UNCHANGED <<ins, pend>> /\ \A u \in Txs : db'[u].listed => db[u].listed
    BY <1>0, <1>7, FailEffect
  <2> QED BY <1>0, <2>1 DEF SubmittingShrinks, IndexShrinks, RemoveKept, Submitting
<1> QED BY <1>2, <1>3, <1>4, <1>5, <1>6, <1>7

LEMMA MarksStep ==
    ASSUME SuccessInv, PlanInv, NoResume, [Next]_vars
    PROVE  SubmittingShrinks /\ IndexShrinks /\ (RemoveKept \/ UpdateInflightSet \/ Restart)
<1>0. TypeInv
  BY DEF SuccessInv
<1>1. CASE UpdateInflightSet
  BY <1>1 DEF UpdateInflightSet, SubmittingShrinks, IndexShrinks, Submitting, storeVars
<1>2. CASE Restart
  <2>1. db' = db /\ ins' = [t \in Txs |-> IF ins[t] = "new" THEN "new" ELSE "done"]
    BY <1>2 DEF Restart, storeVars
  <2> QED BY <1>2, <2>1 DEF SubmittingShrinks, IndexShrinks, Submitting
<1>3. CASE Process
  BY <1>0, <1>3, MarksQuiet, MarksExec DEF Process
<1>4. CASE Flush
  BY <1>0, <1>4, MarksQuiet, MarksExec DEF Flush
<1>5. CASE Loop
  BY <1>0, <1>1, <1>3, <1>4, <1>5, MarksQuiet, MarksExec DEF Loop
<1> QED BY <1>0, <1>2, <1>5, MarksQuiet DEF Next

\* Nothing but a deletion is asked for: a suspension or an update of a record
\* that is confirmed and about to leave the set resolves it once more.
ReplyCond == Actions \subseteq {"Delete"}

\* t has been told its outcome, or is about to be.
Replied(t) == \E i \in DOMAIN replies[t] : replies[t][i] \in Resolved
Concluded(t) == Replied(t) \/ (pc = "emit" /\ run.tx = t /\ run.updateType # "Delete")

\* A transaction that is over is not listed and will not be executed: if it is
\* still in flight, it is taken out before the next execution of the set.
Over ==
    \A t \in Txs : Concluded(t) =>
        /\ ~Submitting(t) /\ ~db[t].listed
        /\ t \in inflight => /\ pend[t].remove /\ t \notin todo
                             /\ InRequests => refresh
                             /\ InCycle => stale

\* Only an execution of the set completes, and of a transaction not told yet.
FirstReply ==
    /\ pc = "flush" /\ run.completed => run.req = NoReq
    /\ pc = "emit" /\ run.updateType # "Delete" => run.req = NoReq
    /\ pc \in {"process", "flush", "emit"} /\ run.req = NoReq => ~Replied(run.tx)

ToldOnce == \A t \in Txs : Cardinality({i \in DOMAIN replies[t] : replies[t][i] \in Resolved}) <= 1

ReplyInv == Over /\ FirstReply /\ ToldOnce

LEMMA InitReply == Init => ReplyInv
<1> SUFFICES ASSUME Init PROVE ReplyInv
  OBVIOUS
<1>1. pc = "idle" /\ \A t \in Txs : DOMAIN replies[t] = {}
  BY DEF Init
<1>2. Over /\ FirstReply
  BY <1>1 DEF Over, FirstReply, Concluded, Replied
<1>3. ToldOnce
  <2> SUFFICES ASSUME NEW t \in Txs
               PROVE  Cardinality({i \in DOMAIN replies[t] : replies[t][i] \in Resolved}) <= 1
    BY DEF ToldOnce
  <2>1. {i \in DOMAIN replies[t] : replies[t][i] \in Resolved} = {}
    BY <1>1
  <2> QED BY <2>1, FS_EmptySet
<1> QED BY <1>2, <1>3 DEF ReplyInv

\* Steps that conclude no transaction.
LEMMA OverKept ==
    ASSUME Over, SubmittingShrinks, IndexShrinks, RemoveKept, Steady,
           \A t \in Txs : Concluded(t)' => Concluded(t)
    PROVE  Over'
BY DEF Over, SubmittingShrinks, IndexShrinks, RemoveKept, Steady, Submitting

\* What a step does to the execution in progress and to the replies.
LEMMA ReplyFrame ==
    ASSUME TypeInv, ReqsAsked, [Next]_vars, ~Emit
    PROVE  /\ replies' = replies
           /\ pc' = "emit" /\ ~FlushUpdate /\ ~FlushDelete => pc = "emit" /\ run' = run
<1>1. CASE \E t \in Txs : Insert(t)
  BY <1>1 DEF Insert, InsertBegin, InsertCommit, InsertFail, InsertHistoryFail,
              InsertMarkStale, InsertMarkUpdate, loopVars
<1>2. CASE \E r \in Reqs : ApiRequest(r)
  BY <1>2 DEF ApiRequest, RequestQueue, RequestWait, RequestTimeout, loopVars
<1>3. CASE Bcm \/ Blockchain
  BY <1>3 DEF Bcm, BcmNotification, BcmReceipt, BcmConfirmations, BcmConfirm, BcmReceiptGone,
              Blockchain, Mine, Reorg, loopVars
<1>4. CASE UNCHANGED vars \/ Restart
  BY <1>4 DEF vars, Restart
<1>5. CASE Process
  BY <1>5 DEF Process, ExecStatus, ExecNotDue, ProcessNoSend, ProcessSend, ProcessPanic
<1>6. CASE Flush
  BY <1>6 DEF Flush, FlushNone, FlushUpdate, FlushDelete, FlushFail, AfterExec
<1>7. CASE \E r \in Reqs : ExecRequest(r)
  <2>1. PICK r \in Reqs : ExecRequest(r)
    BY <1>7
  <2>2. req[r].tx \in Txs /\ req[r].act \in Actions /\ replies' = replies
    BY <2>1, HeadRequest DEF ExecRequest
  <2>3. CASE \E touched \in BOOLEAN : PendingToRunContext(req[r].tx, req[r].act, r, touched)
    BY <2>2, <2>3, SnapshotMarks
  <2> QED BY <2>1, <2>2, <2>3 DEF ExecRequest
<1>8. CASE \E t \in Txs : ExecInflight(t)
  <2>1. PICK t \in Txs : ExecInflight(t)
    BY <1>8
  <2>2. replies' = replies /\ PendingToRunContext(t, NoAction, NoReq, FALSE)
    BY <2>1 DEF ExecInflight
  <2> QED BY <2>2, SnapshotMarks
<1>9. CASE \/ BeginCycle \/ UpdateInflightSet \/ SkipInflightSet \/ EndCycle
           \/ \E r \in Reqs : Respond(r)
  BY <1>9 DEF BeginCycle, UpdateInflightSet, SkipInflightSet, EndCycle, Respond
<1> QED BY <1>1, <1>2, <1>3, <1>4, <1>5, <1>6, <1>7, <1>8, <1>9 DEF Next, Loop

\* The event handed out is of the execution in progress.
LEMMA EmitReplies ==
    ASSUME TypeInv, Emit
    PROVE  LET t == run.tx
               e == IF run.updateType = "Delete" THEN "Deleted" ELSE pend[t].status
           IN /\ t \in Txs /\ pc = "emit" /\ pc' \notin {"process", "flush", "emit"}
              /\ replies[t] \in Seq({"Succeeded", "Failed", "Deleted"})
              /\ e \in {"Succeeded", "Failed", "Deleted"}
              /\ e \in Resolved <=> run.updateType # "Delete"
              /\ replies'[t] = Append(replies[t], e)
              /\ \A u \in Txs \ {t} : replies'[u] = replies[u]
<1> DEFINE t == run.tx
           e == IF run.updateType = "Delete" THEN "Deleted" ELSE pend[t].status
<1>1. /\ t \in Txs /\ pc = "emit" /\ replies \in [Txs -> Seq({"Succeeded", "Failed", "Deleted"})]
      /\ replies' = [replies EXCEPT ![t] = Append(@, e)]
      /\ pc' \notin {"process", "flush", "emit"}
  BY DEF TypeInv, TypeOK, RunOK, Emit, AfterExec
<1>2. e \in {"Succeeded", "Failed", "Deleted"} /\ (e \in Resolved <=> run.updateType # "Delete")
  BY <1>1 DEF TypeInv, RunOK, Resolved
<1> HIDE DEF e
<1> QED BY <1>1, <1>2 DEF e

LEMMA RepliedAfter ==
    ASSUME TypeInv, Emit, NEW u \in Txs
    PROVE  /\ Replied(u)' => Replied(u) \/ (u = run.tx /\ run.updateType # "Delete")
           /\ pc' # "emit"
<1> DEFINE t == run.tx
           e == IF run.updateType = "Delete" THEN "Deleted" ELSE pend[t].status
<1>1. /\ t \in Txs /\ pc' # "emit" /\ replies[t] \in Seq({"Succeeded", "Failed", "Deleted"})
      /\ e \in {"Succeeded", "Failed", "Deleted"} /\ (e \in Resolved <=> run.updateType # "Delete")
      /\ replies'[t] = Append(replies[t], e)
      /\ \A v \in Txs \ {t} : replies'[v] = replies[v]
  BY EmitReplies
<1> HIDE DEF e
<1>2. CASE u # t
  BY <1>1, <1>2 DEF Replied
<1>3. CASE u = t /\ Replied(u)' /\ run.updateType = "Delete"
  <2>1. PICK i \in DOMAIN replies'[t] : replies'[t][i] \in Resolved
    BY <1>3 DEF Replied
  <2>2. i \in DOMAIN replies[t] /\ replies[t][i] = replies'[t][i]
    BY <1>1, <1>3, <2>1
  <2> QED BY <1>1, <1>3, <2>1, <2>2 DEF Replied
<1> QED BY <1>1, <1>2, <1>3

LEMMA OverFlushUpdate ==
    ASSUME SuccessInv, PlanInv, PhaseInv, Over, FirstReply, ReplyCond, FlushUpdate, IndexSound'
    PROVE  Over'
<1> DEFINE t == run.tx
<1>0. TypeInv /\ NoResume /\ inflight \subseteq Txs /\ run.completed \in BOOLEAN
  BY DEF SuccessInv, TypeInv, TypeOK, ReplyCond, NoResume, RunContext
<1>1. /\ t \in Txs /\ pc = "flush" /\ run.updateType = "Update"
      /\ UNCHANGED <<seq, ins, inflight, refresh, todo, run, replies>>
      /\ \A u \in Txs \ {t} : db'[u] = db[u] /\ pend'[u] = pend[u]
      /\ db'[t].status = IF "status" \in run.fields THEN pend[t].status ELSE db[t].status
      /\ db'[t].listed => db[t].listed
      /\ pend'[t].remove = (pend[t].remove \/ run.completed)
      /\ stale' = (stale \/ run.completed)
      /\ pc' = IF run.completed /\ pend[t].status \in Resolved THEN "emit" ELSE AfterExec(run.req)
  BY <1>0, UpdateEffect
<1>2. /\ InRequests' => InRequests /\ refresh' = refresh
      /\ InCycle' => InCycle /\ (stale => stale')
  BY <1>1 DEF InRequests, InCycle, AfterExec
<1>3. /\ SubmittingShrinks /\ \A u \in Txs : db'[u].listed => db[u].listed
      /\ \A u \in Txs : pend[u].remove => pend'[u].remove
  BY <1>1 DEF SubmittingShrinks, Submitting
<1>4. ASSUME NEW u \in Txs, Concluded(u)'
      PROVE  Concluded(u) \/ (u = t /\ run.completed /\ pend[t].status \in Resolved)
  BY <1>1, <1>4 DEF Concluded, Replied, AfterExec
<1>5. ASSUME run.completed, pend[t].status \in Resolved
      PROVE  /\ ~Submitting(t)' /\ ~db'[t].listed /\ pend'[t].remove /\ t \notin todo'
             /\ ~InRequests' /\ stale'
  <2>1. run.req = NoReq /\ "status" \in run.fields
    BY <1>1, <1>5 DEF FirstReply, PlanInv, PlanSound
  <2>2. ~Submitting(t) /\ t \notin todo
    BY <1>1, <2>1 DEF SuccessInv, DecisionSound, PhaseInv
  <2>3. ~db'[t].listed
    BY <1>1, <1>5, <2>1 DEF IndexSound, Resolved
  <2> QED BY <1>1, <1>5, <2>1, <2>2, <2>3 DEF Submitting, InRequests
<1> QED BY <1>0, <1>1, <1>2, <1>3, <1>4, <1>5 DEF Over, SubmittingShrinks, Submitting

LEMMA OverStep ==
    ASSUME SuccessInv, PlanInv, PhaseInv, Over, FirstReply, ReplyCond, IndexSound', [Next]_vars
    PROVE  Over'
<1>0. TypeInv /\ ReqsAsked /\ NoResume /\ inflight \subseteq Txs
  BY DEF SuccessInv, PlanInv, TypeInv, TypeOK, ReplyCond, NoResume
<1>1. /\ SubmittingShrinks /\ IndexShrinks /\ (RemoveKept \/ UpdateInflightSet \/ Restart)
      /\ Steady \/ BeginCycle \/ UpdateInflightSet \/ SkipInflightSet \/ Restart
  BY <1>0, MarksStep, PhaseStep
<1>2. CASE FlushUpdate
  BY <1>2, OverFlushUpdate
<1>3. ASSUME NEW t \in Txs, ~FlushUpdate, Concluded(t)'
      PROVE  Concluded(t)
  <2>1. CASE Emit
    BY <1>0, <1>3, <2>1, RepliedAfter DEF Concluded, Emit
  <2>2. CASE FlushDelete
    BY <1>0, <1>3, <2>2 DEF FlushDelete, Concluded, Replied
  <2>3. CASE ~Emit /\ ~FlushDelete
    BY <1>0, <1>3, <2>3, ReplyFrame DEF Concluded, Replied
  <2> QED BY <2>1, <2>2, <2>3
<1>4. ASSUME NEW t \in Txs, ~FlushUpdate, Concluded(t)'
      PROVE  /\ ~Submitting(t)' /\ ~db'[t].listed /\ ~db[t].listed
             /\ t \in inflight => /\ pend[t].remove /\ t \notin todo
                                  /\ InRequests => refresh
                                  /\ InCycle => stale
  BY <1>1, <1>3, <1>4 DEF Over, SubmittingShrinks, IndexShrinks, Submitting
<1>5. CASE BeginCycle
  <2>1. /\ pc = "idle" /\ pc' = "requests" /\ refresh' = stale /\ UNCHANGED <<todo, inflight, pend>>
    BY <1>5 DEF BeginCycle, memVars
  <2>2. InCycle /\ ~InCycle' /\ ~FlushUpdate
    BY <2>1 DEF InCycle, FlushUpdate
  <2> QED BY <1>4, <2>1, <2>2 DEF Over
<1>6. CASE UpdateInflightSet
  <2>1. inflight' = Kept \cup Polled /\ pc = "requests"
    BY <1>6 DEF UpdateInflightSet
  <2>2. \A t \in Txs : pend[t].remove /\ ~db[t].listed => t \notin Kept \cup Polled
    BY DEF Kept, Polled, Candidates
  <2>3. \A t \in Txs \ inflight : ~db[t].listed => t \notin Kept \cup Polled
    BY DEF Kept, Polled, Candidates
  <2>4. ~FlushUpdate
    BY <2>1 DEF FlushUpdate
  <2> QED BY <1>4, <2>1, <2>2, <2>3, <2>4 DEF Over
<1>7. CASE SkipInflightSet
  <2>1. inflight' = inflight /\ pc = "requests" /\ ~refresh
    BY <1>7 DEF SkipInflightSet, memVars
  <2>2. InRequests /\ ~FlushUpdate
    BY <2>1 DEF InRequests, FlushUpdate
  <2> QED BY <1>4, <2>1, <2>2 DEF Over
<1>8. CASE Restart
  <2>1. inflight' = {} /\ pc' = "idle" /\ replies' = replies
    BY <1>8 DEF Restart
  <2>2. \A t \in Txs : Concluded(t)' => Concluded(t)
    BY <2>1 DEF Concluded, Replied
  <2> QED BY <1>1, <2>1, <2>2 DEF Over, SubmittingShrinks, IndexShrinks, Submitting
<1>9. CASE ~FlushUpdate /\ RemoveKept /\ Steady
  BY <1>1, <1>3, <1>9, OverKept
<1> QED BY <1>1, <1>2, <1>5, <1>6, <1>7, <1>8, <1>9

LEMMA FirstKept ==
    ASSUME FirstReply, replies' = replies,
           (pc' = pc /\ run' = run) \/ pc' \notin {"process", "flush", "emit"}
    PROVE  FirstReply'
BY DEF FirstReply, Replied

LEMMA FirstQuiet ==
    ASSUME FirstReply,
           \/ \E t \in Txs : Insert(t)
           \/ \E r \in Reqs : ApiRequest(r) \/ Respond(r)
           \/ BeginCycle \/ UpdateInflightSet \/ SkipInflightSet \/ EndCycle \/ ProcessPanic
           \/ FlushNone \/ FlushFail \/ Bcm \/ Blockchain \/ Restart \/ UNCHANGED vars
    PROVE  FirstReply'
<1>1. /\ replies' = replies
      /\ (pc' = pc /\ run' = run) \/ pc' \notin {"process", "flush", "emit"}
  <2>1. CASE \E t \in Txs : Insert(t)
    BY <2>1 DEF Insert, InsertBegin, InsertCommit, InsertFail, InsertHistoryFail, InsertMarkStale,
                InsertMarkUpdate, loopVars
  <2>2. CASE \E r \in Reqs : ApiRequest(r) \/ Respond(r)
    BY <2>2 DEF ApiRequest, RequestQueue, RequestWait, RequestTimeout, Respond, loopVars
  <2>3. CASE BeginCycle \/ UpdateInflightSet \/ SkipInflightSet \/ EndCycle \/ ProcessPanic
    BY <2>3 DEF BeginCycle, UpdateInflightSet, SkipInflightSet, EndCycle, ProcessPanic
  <2>4. CASE FlushNone \/ FlushFail
    BY <2>4 DEF FlushNone, FlushFail, AfterExec
  <2>5. CASE Bcm \/ Blockchain
    BY <2>5 DEF Bcm, BcmNotification, BcmReceipt, BcmConfirmations, BcmConfirm, BcmReceiptGone,
                Blockchain, Mine, Reorg, loopVars
  <2>6. CASE Restart \/ UNCHANGED vars
    BY <2>6 DEF Restart, vars
  <2> QED BY <2>1, <2>2, <2>3, <2>4, <2>5, <2>6
<1> QED BY <1>1, FirstKept

LEMMA FirstExec ==
    ASSUME SuccessInv, PlanInv, Over, FirstReply,
           (\E r \in Reqs : ExecRequest(r)) \/ (\E t \in Txs : ExecInflight(t))
    PROVE  FirstReply'
<1>0. TypeInv
  BY DEF SuccessInv
<1>1. CASE \E r \in Reqs : ExecRequest(r)
  <2>1. PICK r \in Reqs : ExecRequest(r)
    BY <1>1
  <2>2. req[r].tx \in Txs /\ req[r].act \in Actions /\ replies' = replies /\ r # NoReq
    BY <1>0, <2>1, HeadRequest, RequestsAssumption DEF PlanInv, ExecRequest
  <2>3. CASE \E touched \in BOOLEAN : PendingToRunContext(req[r].tx, req[r].act, r, touched)
    <3>1. pc' \in {"process", "cycle", "respond"} /\ run'.req = r
      BY <1>0, <2>2, <2>3, SnapshotMarks
    <3> QED BY <2>2, <3>1 DEF FirstReply
  <2>4. CASE pc' = "respond"
    BY <2>4 DEF FirstReply
  <2> QED BY <2>1, <2>3, <2>4 DEF ExecRequest
<1>2. CASE \E t \in Txs : ExecInflight(t)
  <2>1. PICK t \in Txs : ExecInflight(t)
    BY <1>2
  <2>2. replies' = replies /\ PendingToRunContext(t, NoAction, NoReq, FALSE) /\ t \in todo
        /\ t \in inflight
    BY <2>1 DEF ExecInflight, SuccessInv, DataInv
  <2>3. pc' \in {"process", "cycle", "respond"} /\ run'.tx = t
    BY <1>0, <2>2, SnapshotMarks
  <2>4. ~Replied(t)
    BY <2>2 DEF Over, Concluded
  <2> QED BY <2>2, <2>3, <2>4 DEF FirstReply, Replied
<1> QED BY <1>1, <1>2

LEMMA FirstProcess ==
    ASSUME SuccessInv, PlanInv, PhaseInv, FirstReply, ReplyCond, Process
    PROVE  FirstReply'
<1>0. TypeInv /\ NoResume /\ run \in RunContext /\ run.act \in {"Delete", NoAction}
  BY DEF SuccessInv, TypeInv, TypeOK, ReplyCond, NoResume, RunContext
<1>1. CASE ProcessPanic
  BY <1>1, FirstQuiet
<1>2. CASE ExecNotDue \/ ProcessNoSend \/ ProcessSend
  <2>1. /\ pc = "process" /\ pc' = "flush" /\ replies' = replies
        /\ run'.tx = run.tx /\ run'.req = run.req /\ run'.completed = run.completed
    BY <1>0, <1>2, ProcessPlan DEF ExecNotDue, Default
  <2> QED BY <2>1 DEF FirstReply, PlanInv, PlanSound, Replied
<1>3. CASE ExecStatus
  <2>1. /\ pc = "process" /\ pc' = "flush" /\ replies' = replies
        /\ run'.tx = run.tx /\ run'.req = run.req
    BY <1>0, <1>3, StatusPlan
  <2>2. Confirmed
    BY <1>0, <1>3 DEF ExecStatus, NoAction
  <2>3. run.req = NoReq
    BY <1>0, <2>1, <2>2 DEF PhaseInv, Confirmed
  <2> QED BY <2>1, <2>3 DEF FirstReply, Replied
<1> QED BY <1>1, <1>2, <1>3 DEF Process

LEMMA FirstFlush ==
    ASSUME SuccessInv, PlanInv, FirstReply, NoResume, FlushUpdate \/ FlushDelete \/ Emit
    PROVE  FirstReply'
<1>0. TypeInv
  BY DEF SuccessInv
<1>1. CASE FlushUpdate
  <2>1. /\ pc = "flush" /\ replies' = replies /\ run' = run
        /\ pc' = IF run.completed /\ pend[run.tx].status \in Resolved THEN "emit" ELSE AfterExec(run.req)
    BY <1>0, <1>1, UpdateEffect
  <2> QED BY <2>1 DEF FirstReply, Replied, AfterExec
<1>2. CASE FlushDelete
  <2>1. pc = "flush" /\ pc' = "emit" /\ run' = run /\ replies' = replies /\ run.updateType = "Delete"
    BY <1>2 DEF FlushDelete
  <2> QED BY <2>1 DEF FirstReply, Replied
<1>3. CASE Emit
  <2>1. pc' \notin {"process", "flush", "emit"}
    BY <1>3 DEF Emit, AfterExec
  <2> QED BY <2>1 DEF FirstReply
<1> QED BY <1>1, <1>2, <1>3

LEMMA ToldOnceStep ==
    ASSUME SuccessInv, PlanInv, FirstReply, ToldOnce, [Next]_vars
    PROVE  ToldOnce'
<1>0. TypeInv /\ ReqsAsked
  BY DEF SuccessInv, PlanInv
<1>1. CASE ~Emit
  BY <1>0, <1>1, ReplyFrame DEF ToldOnce
<1>2. CASE Emit
  <2> DEFINE t == run.tx
             e == IF run.updateType = "Delete" THEN "Deleted" ELSE pend[t].status
             Told(s) == {i \in DOMAIN s : s[i] \in Resolved}
  <2>1. /\ t \in Txs /\ pc = "emit" /\ replies[t] \in Seq({"Succeeded", "Failed", "Deleted"})
        /\ e \in {"Succeeded", "Failed", "Deleted"} /\ (e \in Resolved <=> run.updateType # "Delete")
        /\ replies'[t] = Append(replies[t], e)
        /\ \A u \in Txs \ {t} : replies'[u] = replies[u]
    BY <1>0, <1>2, EmitReplies
  <2> HIDE DEF e
  <2>0. /\ \A u \in Txs : Cardinality(Told(replies[u])) <= 1
        /\ (\A u \in Txs : Cardinality(Told(replies'[u])) <= 1) => ToldOnce'
    BY DEF ToldOnce
  <2>2. CASE run.updateType = "Delete"
    <3>1. Told(replies'[t]) = Told(replies[t])
      BY <2>1, <2>2
    <3> HIDE DEF Told
    <3> QED BY <2>0, <2>1, <3>1
  <2>3. CASE run.updateType # "Delete"
    <3>1. ~Replied(t)
      BY <2>1, <2>3 DEF FirstReply
    <3>2. \A i \in DOMAIN replies[t] : replies[t][i] \notin Resolved
      BY <3>1 DEF Replied
    <3>3. Told(replies'[t]) = {Len(replies[t]) + 1}
      BY <2>1, <2>3, <3>2
    <3>4. Cardinality(Told(replies'[t])) = 1
      BY <3>3, FS_Singleton
    <3>5. Cardinality(Told(replies'[t])) <= 1
      BY <3>4
    <3>6. \A u \in Txs \ {t} : Cardinality(Told(replies'[u])) <= 1
      <4> HIDE DEF Told
      <4> QED BY <2>0, <2>1
    <3> HIDE DEF Told
    <3> QED BY <2>0, <2>1, <3>5, <3>6
  <2> QED BY <2>2, <2>3
<1> QED BY <1>1, <1>2

\* The loop never executes a transaction again once it has told of its outcome.
ReplySafe == SuccessInv /\ PlanInv /\ PhaseInv /\ ReplyInv

LEMMA ReplyInvariant ==
    ASSUME ReplyCond
    PROVE  Spec => []ReplySafe
<1>0. NoResume
  BY DEF ReplyCond, NoResume
<1>1. Init => ReplySafe
  BY InitSuccess, InitPlan, InitPhase, InitReply DEF ReplySafe
<1>2. ReplySafe /\ [Next]_vars => ReplySafe'
  <2> SUFFICES ASSUME ReplySafe, [Next]_vars PROVE ReplySafe'
    OBVIOUS
  <2>0. SuccessInv /\ PlanInv /\ PhaseInv /\ Over /\ FirstReply /\ ToldOnce /\ TypeInv /\ ReqsAsked
    BY DEF ReplySafe, ReplyInv, SuccessInv, PlanInv
  <2>1. SuccessInv' /\ PlanInv' /\ PhaseInv' /\ IndexSound'
    BY <1>0, <2>0, SuccessStep, PlanStep, PhaseStep DEF PlanInv
  <2>2. Over' /\ ToldOnce'
    BY <2>0, <2>1, OverStep, ToldOnceStep
  <2>3. FirstReply'
    <3>1. CASE Loop
      BY <1>0, <2>0, <3>1, FirstQuiet, FirstExec, FirstProcess, FirstFlush DEF Loop, Flush
    <3> QED BY <2>0, <3>1, FirstQuiet DEF Next
  <2> QED BY <2>1, <2>2, <2>3 DEF ReplySafe, ReplyInv
<1> QED BY <1>1, <1>2, PTL DEF Spec

\* Where requests only delete, a client hears of the outcome of a transaction at
\* most once, although its record stays in flight, and confirmed, until the set is
\* next refreshed, and restarts, failing writes and deletions come in between.
THEOREM OneReplyCorrect ==
    ASSUME ReplyCond
    PROVE  Spec => []OneReply
<1>1. ReplySafe => OneReply
  BY DEF ReplySafe, ReplyInv, ToldOnce, OneReply
<1> QED BY <1>1, ReplyInvariant, PTL

(***************************************************************************)
(* Refilling the in-flight set                                             *)
(***************************************************************************)

LEMMA Smallest == ASSUME NEW S \in SUBSET Nat, S # {} PROVE \E m \in S : \A n \in S : m <= n
<1>1. PICK x \in S : \A y \in S : ~(<<y, x>> \in OpToRel(<, Nat))
  BY WFMin, NatLessThanWellFounded, Zenon
<1>2. \A y \in S : ~(y < x)
  BY <1>1 DEF OpToRel
<1> QED BY <1>2

\* Those of C that come before c.
Before(C, s, c) == {d \in C : s[d] < s[c]}

\* Adding to K the first of C, as long as there is room, leaves one of C out
\* only when there is no room left, and what is left out comes after what is
\* taken.
LEMMA TakeFirst ==
    ASSUME NEW C, IsFiniteSet(C), NEW s, \A c \in C : s[c] \in Nat,
           NEW K, IsFiniteSet(K), K \cap C = {}, NEW m \in Nat,
           NEW P \in SUBSET C,
           \A d \in C : d \in P <=> Cardinality(K) + Cardinality(Before(C, s, d)) < m,
           NEW c \in C \ P
    PROVE  Cardinality(K \cup P) >= m /\ \A p \in P : s[p] < s[c]
<1>1. \A d \in C : /\ IsFiniteSet(Before(C, s, d)) /\ Cardinality(Before(C, s, d)) \in Nat
  BY FS_Subset, FS_CardinalityType DEF Before
<1>2. Cardinality(K) \in Nat /\ IsFiniteSet(P) /\ IsFiniteSet(K \cup P) /\ Cardinality(K \cup P) \in Nat
  BY FS_Subset, FS_Union, FS_CardinalityType
<1>3. PICK e \in C \ P : \A d \in C \ P : s[e] <= s[d]
  <2> DEFINE S == {s[d] : d \in C \ P}
  <2>1. S \in SUBSET Nat /\ S # {}
    OBVIOUS
  <2>2. PICK n \in S : \A k \in S : n <= k
    BY <2>1, Smallest
  <2> QED BY <2>2
<1>4. Before(C, s, e) \subseteq P
  BY <1>3 DEF Before
<1>5. Cardinality(K \cup P) >= m
  <2> DEFINE L == Before(C, s, e)
  <2>1. K \cap L = {} /\ L \subseteq C
    BY DEF Before
  <2>2. IsFiniteSet(L) /\ Cardinality(L) \in Nat
    BY <1>1
  <2> HIDE DEF L
  <2>3. IsFiniteSet(K \cup L) /\ Cardinality(K \cup L) = Cardinality(K) + Cardinality(L)
    <3>1. Cardinality(K \cap L) = 0
      BY <2>1, FS_EmptySet
    <3>2. /\ IsFiniteSet(K \cup L)
          /\ Cardinality(K \cup L) = Cardinality(K) + Cardinality(L) - Cardinality(K \cap L)
      BY <2>2, FS_Union
    <3> QED BY <1>2, <2>2, <3>1, <3>2
  <2>4. Cardinality(K \cup L) <= Cardinality(K \cup P)
    BY <1>2, <1>4, FS_Subset DEF L
  <2>5. ~(Cardinality(K) + Cardinality(L) < m)
    BY DEF L
  <2> QED BY <1>2, <2>2, <2>3, <2>4, <2>5
<1>6. ASSUME NEW p \in P, ~(s[p] < s[c])
      PROVE  FALSE
  <2>1. Before(C, s, c) \subseteq Before(C, s, p)
    BY <1>6 DEF Before
  <2>2. Cardinality(Before(C, s, c)) <= Cardinality(Before(C, s, p))
    BY <1>1, <2>1, FS_Subset
  <2>3. /\ Cardinality(K) + Cardinality(Before(C, s, p)) < m
        /\ ~(Cardinality(K) + Cardinality(Before(C, s, c)) < m)
    OBVIOUS
  <2> QED BY <1>1, <1>2, <2>2, <2>3
<1> QED BY <1>5, <1>6

\* An insert is in progress at a time, and neither writes nor the history fail,
\* which would leave a row that nothing marks, and no request resumes.
RefillCond == Writers = 1 /\ ~Fault("write") /\ ~Fault("history") /\ NoResume

\* The index lists every pending row.
AllListed == \A t \in Txs : db[t].status = "Pending" => db[t].listed

\* The transaction being inserted has the greatest sequence number so far.
SeqOrder ==
    /\ \A t \in Txs : seq[t] <= Cardinality({u \in Txs : seq[u] # 0})
    /\ \A t \in Txs : ins[t] = "new" => seq[t] = 0
    /\ \A t \in Txs : ins[t] = "inserting" => \A u \in Txs \ {t} : seq[u] < seq[t]

\* What is left out of the in-flight set comes after what is in it ...
Younger == \A t \in Txs \ inflight, u \in inflight : db[t].listed => seq[u] < seq[t]

\* ... and is about to be looked for, unless there is no room.
Noticed ==
    \A t \in Txs \ inflight : db[t].listed =>
        \/ ins[t] = "inserted" \/ stale \/ (InRequests /\ refresh)
        \/ Cardinality(inflight) >= MaxInFlight \/ pc \in {"hung", "panic"}

RefillInv == AllListed /\ SeqOrder /\ Younger /\ Noticed

LEMMA InitRefill == Init => RefillInv
<1> SUFFICES ASSUME Init PROVE RefillInv
  OBVIOUS
<1>1. /\ inflight = {} /\ \A t \in Txs : /\ seq[t] = 0 /\ ins[t] = "new"
                                        /\ db[t].status = "None" /\ ~db[t].listed
  BY DEF Init, NoRow
<1>2. {u \in Txs : seq[u] # 0} = {}
  BY <1>1
<1> QED BY <1>1, <1>2, FS_EmptySet DEF RefillInv, AllListed, SeqOrder, Younger, Noticed

\* Sequence numbers are given in order, to one insert at a time.
LEMMA SeqInsertBegin ==
    ASSUME TypeInv, SeqOrder, RefillCond, NEW t \in Txs, InsertBegin(t)
    PROVE  SeqOrder'
<1> DEFINE S == {u \in Txs : seq[u] # 0}
           W == {u \in Txs : ins[u] = "inserting"}
<1>0. /\ seq \in [Txs -> Nat] /\ IsFiniteSet(Txs)
      /\ ins \in [Txs -> {"new", "inserting", "inserted", "marked", "done", "failed"}]
  BY TxsAssumption DEF TypeInv, TypeOK
<1>1. /\ ins[t] = "new" /\ ins' = [ins EXCEPT ![t] = "inserting"]
      /\ Cardinality(W) < Writers /\ seq' = [seq EXCEPT ![t] = NextSeq]
  BY DEF InsertBegin
<1>2. IsFiniteSet(S) /\ IsFiniteSet(W) /\ Cardinality(S) \in Nat /\ Cardinality(W) \in Nat
  <2>1. S \in SUBSET Txs /\ W \in SUBSET Txs
    OBVIOUS
  <2> HIDE DEF S, W
  <2> QED BY <1>0, <2>1, FS_Subset, FS_CardinalityType
<1>3. W = {}
  BY <1>1, <1>2, FS_EmptySet DEF RefillCond
<1>4. NextSeq = 1 + Cardinality(S)
  BY DEF NextSeq
<1>5. t \notin S
  BY <1>1 DEF SeqOrder
<1>6. {u \in Txs : seq'[u] # 0} = S \cup {t}
  BY <1>0, <1>1, <1>2, <1>4
<1>7. Cardinality(S \cup {t}) = Cardinality(S) + 1
  <2> HIDE DEF S
  <2> QED BY <1>2, <1>5, FS_AddElement
<1>8. \A u \in Txs : seq[u] <= Cardinality(S)
  BY DEF SeqOrder
<1>9. \A u \in Txs : ins[u] # "inserting"
  BY <1>3
<1> HIDE DEF S, W
<1>10. /\ seq'[t] = Cardinality(S) + 1 /\ ins'[t] = "inserting"
       /\ \A u \in Txs \ {t} : seq'[u] = seq[u] /\ ins'[u] = ins[u]
  BY <1>0, <1>1, <1>2, <1>4
<1>11. \A u \in Txs : seq[u] \in Nat
  BY <1>0
<1> QED BY <1>2, <1>6, <1>7, <1>8, <1>9, <1>10, <1>11 DEF SeqOrder

LEMMA SeqKept ==
    ASSUME SeqOrder, seq' = seq,
           \A t \in Txs : /\ ins'[t] = "new" => ins[t] = "new"
                          /\ ins'[t] = "inserting" => ins[t] = "inserting"
    PROVE  SeqOrder'
BY DEF SeqOrder

LEMMA SeqStep ==
    ASSUME TypeInv, SeqOrder, RefillCond, [Next]_vars
    PROVE  SeqOrder'
<1>0. ins \in [Txs -> {"new", "inserting", "inserted", "marked", "done", "failed"}]
  BY DEF TypeInv, TypeOK
<1>1. ASSUME UNCHANGED <<seq, ins>> PROVE SeqOrder'
  BY <1>1, SeqKept
<1>2. CASE \E t \in Txs : Insert(t)
  <2>1. PICK t \in Txs : Insert(t)
    BY <1>2
  <2>2. CASE InsertBegin(t)
    BY <2>2, SeqInsertBegin
  <2>3. CASE InsertCommit(t) \/ InsertFail(t) \/ InsertHistoryFail(t) \/ InsertMarkStale(t)
             \/ InsertMarkUpdate(t)
    <3>1. /\ seq' = seq
          /\ \E k \in {"inserted", "failed", "marked", "done"} : ins' = [ins EXCEPT ![t] = k]
      BY <2>3 DEF InsertCommit, InsertFail, InsertHistoryFail, InsertMarkStale, InsertMarkUpdate, storeVars
    <3> QED BY <1>0, <3>1, SeqKept
  <2> QED BY <2>1, <2>2, <2>3 DEF Insert
<1>3. CASE Restart
  <2>1. seq' = seq /\ ins' = [t \in Txs |-> IF ins[t] = "new" THEN "new" ELSE "done"]
    BY <1>3 DEF Restart, storeVars
  <2> QED BY <2>1, SeqKept
<1>4. CASE \E r \in Reqs : ApiRequest(r)
  BY <1>1, <1>4 DEF ApiRequest, RequestQueue, RequestWait, RequestTimeout, storeVars
<1>5. CASE Bcm \/ Blockchain
  <2>1. UNCHANGED <<seq, ins>>
    BY <1>5 DEF Bcm, BcmNotification, BcmReceipt, BcmConfirmations, BcmConfirm, BcmReceiptGone,
                Blockchain, Mine, Reorg, storeVars
  <2> QED BY <1>1, <2>1
<1>6. CASE Process
  BY <1>1, <1>6 DEF Process, ExecStatus, ExecNotDue, ProcessNoSend, ProcessSend, ProcessPanic, storeVars
<1>7. CASE Flush
  BY <1>1, <1>7 DEF Flush, FlushNone, FlushUpdate, FlushDelete, FlushFail, Emit, storeVars
<1>8. CASE Loop
  BY <1>1, <1>6, <1>7, <1>8 DEF Loop, BeginCycle, ExecRequest, Respond, UpdateInflightSet,
     SkipInflightSet, ExecInflight, EndCycle, storeVars
<1>9. CASE UNCHANGED vars
  BY <1>1, <1>9 DEF vars
<1> QED BY <1>2, <1>3, <1>4, <1>5, <1>8, <1>9 DEF Next

\* The set is refreshed to the oldest rows listed, as many as there is room for.
LEMMA RefreshFills ==
    ASSUME TypeInv, IndexSound, Younger, UpdateInflightSet, NEW t \in Txs, t \notin inflight',
           db[t].listed
    PROVE  Cardinality(inflight') >= MaxInFlight /\ \A u \in inflight' : seq[u] < seq[t]
<1>0. /\ seq \in [Txs -> Nat] /\ IsFiniteSet(Txs) /\ inflight \subseteq Txs
      /\ inflight' = Kept \cup Polled /\ MaxInFlight \in Nat
  BY TxsAssumption, MaxInFlightAssumption DEF TypeInv, TypeOK, UpdateInflightSet
<1>1. t \notin inflight
  BY <1>0 DEF IndexSound, Kept
<1>2. t \in Candidates \ Polled
  BY <1>0, <1>1 DEF Candidates, Kept, Younger
<1>3. \A u \in Kept, c \in Candidates : seq[u] < seq[c]
  BY DEF Candidates
<1>4. Kept \cap Candidates = {}
  BY <1>0, <1>3 DEF Kept, Candidates
<1>5. Kept \in SUBSET Txs /\ Candidates \in SUBSET Txs
  BY <1>0 DEF Kept, Candidates
<1>6. IsFiniteSet(Kept) /\ IsFiniteSet(Candidates)
  BY <1>0, <1>5, FS_Subset
<1>7. /\ Polled \in SUBSET Candidates
      /\ \A c \in Candidates : c \in Polled <=>
            Cardinality(Kept) + Cardinality(Before(Candidates, seq, c)) < MaxInFlight
  BY DEF Polled, Before
<1>8. \A c \in Candidates : seq[c] \in Nat
  BY <1>0, <1>5
<1>9. Cardinality(Kept \cup Polled) >= MaxInFlight /\ \A p \in Polled : seq[p] < seq[t]
  BY <1>0, <1>2, <1>4, <1>6, <1>7, <1>8, TakeFirst
<1> QED BY <1>0, <1>2, <1>3, <1>9

\* What a step must leave alone for a row that is listed to stay noticed.
Lasting == /\ InRequests /\ refresh => (InRequests' /\ refresh') \/ pc' \in {"hung", "panic"}
           /\ stale => stale'
           /\ pc \in {"hung", "panic"} => pc' = pc
           /\ inflight' = inflight

LEMMA LastingStep ==
    ASSUME TypeInv, ReqsAsked, PhaseInv, [Next]_vars
    PROVE  Lasting \/ BeginCycle \/ UpdateInflightSet \/ Restart
<1>1. ASSUME UNCHANGED <<refresh, inflight, run>>, pc' = pc, stale => stale'
      PROVE  Lasting
  BY <1>1 DEF Lasting, InRequests
<1>2. CASE \E t \in Txs : Insert(t)
  BY <1>1, <1>2 DEF Insert, InsertBegin, InsertCommit, InsertFail, InsertHistoryFail,
                    InsertMarkStale, InsertMarkUpdate, memVars, loopVars
<1>3. CASE \E r \in Reqs : ApiRequest(r)
  BY <1>1, <1>3 DEF ApiRequest, RequestQueue, RequestWait, RequestTimeout, memVars, loopVars
<1>4. CASE Bcm \/ Blockchain
  <2>1. UNCHANGED <<refresh, inflight, run, pc, stale>>
    BY <1>4 DEF Bcm, BcmNotification, BcmReceipt, BcmConfirmations, BcmConfirm, BcmReceiptGone,
                Blockchain, Mine, Reorg, memVars, loopVars
  <2> QED BY <1>1, <2>1
<1>5. CASE UNCHANGED vars
  BY <1>1, <1>5 DEF vars
<1>6. CASE Process
  <2>1. /\ UNCHANGED <<refresh, stale, inflight>> /\ pc = "process" /\ pc' \in {"flush", "panic"}
        /\ run'.req = run.req
    <3>1. CASE ProcessNoSend \/ ProcessSend
      BY <3>1, ProcessPlan
    <3>2. CASE ExecStatus
      <4>1. UNCHANGED <<refresh, stale, inflight>> /\ pc = "process" /\ pc' = "flush"
        BY <3>2 DEF ExecStatus
      <4>2. run \in RunContext
        BY DEF TypeInv, TypeOK
      <4>3. \/ run' = run
            \/ \E c : run' = [run EXCEPT !.updateType = "Update", !.fields = @ \cup {"status"}, !.completed = c]
        BY <3>2, Zenon DEF ExecStatus
      <4> QED BY <4>1, <4>2, <4>3 DEF RunContext
    <3>3. CASE ExecNotDue \/ ProcessPanic
      BY <3>3 DEF ExecNotDue, ProcessPanic, Default, memVars
    <3> QED BY <1>6, <3>1, <3>2, <3>3 DEF Process
  <2> QED BY <2>1 DEF Lasting, InRequests
<1>7. CASE Flush
  <2>1. /\ UNCHANGED <<refresh, inflight, run>> /\ (stale => stale')
        /\ pc \in {"flush", "emit"} /\ pc' \in {"emit", AfterExec(run.req)}
    <3>1. CASE FlushNone \/ FlushFail \/ Emit
      BY <3>1 DEF FlushNone, FlushFail, Emit, memVars
    <3>2. CASE FlushUpdate
      BY <3>2 DEF FlushUpdate
    <3>3. CASE FlushDelete
      BY <3>3 DEF FlushDelete
    <3> QED BY <1>7, <3>1, <3>2, <3>3 DEF Flush
  <2> QED BY <2>1 DEF Lasting, InRequests, AfterExec
<1>8. CASE \E r \in Reqs : ExecRequest(r)
  <2>1. PICK r \in Reqs : ExecRequest(r)
    BY <1>8
  <2>2. /\ req[r].tx \in Txs /\ req[r].act \in Actions /\ pc = "requests" /\ r # NoReq
        /\ UNCHANGED <<refresh, stale, inflight>>
    BY <2>1, HeadRequest, RequestsAssumption DEF ExecRequest
  <2>3. pc' \in {"process", "respond"} /\ run'.req = r
    <3>1. CASE \E touched \in BOOLEAN : PendingToRunContext(req[r].tx, req[r].act, r, touched)
      <4>1. pc' \in {"process", AfterExec(r)} /\ run'.req = r
        BY <2>2, <3>1, SnapshotMarks
      <4> QED BY <2>2, <4>1 DEF AfterExec
    <3>2. CASE run' = [NoRun EXCEPT !.tx = req[r].tx, !.req = r, !.act = req[r].act] /\ pc' = "respond"
      BY <3>2 DEF NoRun
    <3> QED BY <2>1, <3>1, <3>2 DEF ExecRequest
  <2> QED BY <2>2, <2>3 DEF Lasting, InRequests
<1>9. CASE (\E t \in Txs : ExecInflight(t)) \/ EndCycle \/ SkipInflightSet
  <2>1. /\ UNCHANGED <<stale, inflight>>
        /\ pc \in {"cycle", "requests"} /\ (pc = "requests" => ~refresh)
    BY <1>9 DEF ExecInflight, EndCycle, SkipInflightSet, memVars
  <2> QED BY <2>1 DEF Lasting, InRequests
<1>10. CASE \E r \in Reqs : Respond(r)
  <2>1. UNCHANGED <<refresh, stale, inflight>> /\ pc = "respond" /\ pc' \in {"hung", "requests"}
    BY <1>10 DEF Respond
  <2> QED BY <2>1 DEF Lasting, InRequests
<1> QED BY <1>2, <1>3, <1>4, <1>5, <1>6, <1>7, <1>8, <1>9, <1>10 DEF Next, Loop

\* Nothing but an insert makes a row pending, and a pending row stays listed.
PendingKept ==
    \A t \in Txs : db'[t].status = "Pending" =>
        \/ db[t].status = "Pending" /\ (db[t].listed => db'[t].listed)
        \/ db'[t].listed

LEMMA PendingUpdate ==
    ASSUME TypeInv, PlanInv, FlushUpdate
    PROVE  PendingKept
<1> DEFINE t == run.tx
<1>1. /\ t \in Txs /\ db \in [Txs -> Row] /\ pend \in [Txs -> Pending] /\ pc = "flush"
      /\ run \in RunContext /\ db' = [db EXCEPT ![t] = Updated(t)]
  BY DEF TypeInv, TypeOK, RunOK, FlushUpdate
<1>2. /\ db'[t].status = IF "status" \in run.fields THEN pend[t].status ELSE db[t].status
      /\ db'[t].listed = IF Store = "postgres" THEN db'[t].status = "Pending"
                         ELSE db[t].listed /\ db'[t].status = "Pending"
      /\ \A u \in Txs \ {t} : db'[u] = db[u]
  BY <1>1, UpdatedKeeps, UpdatedIndex
<1>3. db'[t].status = "Pending" => db[t].status = "Pending"
  BY <1>1, <1>2 DEF PlanInv, PlanSound, Resolved
<1> QED BY <1>1, <1>2, <1>3 DEF PendingKept

LEMMA PendingStep ==
    ASSUME SuccessInv, PlanInv, RefillCond, [Next]_vars
    PROVE  PendingKept
<1>0. TypeInv /\ ReqsAsked /\ db \in [Txs -> Row]
  BY DEF SuccessInv, PlanInv, TypeInv, TypeOK
<1>1. ASSUME RowsSame PROVE PendingKept
  BY <1>1 DEF RowsSame, PendingKept
<1>2. CASE \E t \in Txs : Insert(t)
  <2>1. PICK t \in Txs : Insert(t)
    BY <1>2
  <2>2. CASE InsertCommit(t)
    <3>1. db' = [db EXCEPT ![t] = [NoRow EXCEPT !.status = "Pending", !.listed = TRUE]]
      BY <2>2 DEF InsertCommit
    <3> QED BY <1>0, <3>1 DEF PendingKept, NoRow
  <2>3. CASE ~InsertCommit(t)
    <3>1. db' = db
      BY <2>1, <2>3 DEF Insert, InsertBegin, InsertFail, InsertHistoryFail, InsertMarkStale,
                        InsertMarkUpdate, storeVars
    <3> QED BY <3>1 DEF PendingKept
  <2> QED BY <2>2, <2>3
<1>3. CASE \E r \in Reqs : ApiRequest(r)
  BY <1>1, <1>3 DEF ApiRequest, RequestQueue, RequestWait, RequestTimeout, storeVars, RowsSame
<1>4. CASE Bcm \/ Blockchain
  <2>1. db' = db
    BY <1>4 DEF Bcm, BcmNotification, BcmReceipt, BcmConfirmations, BcmConfirm, BcmReceiptGone,
                Blockchain, Mine, Reorg, storeVars
  <2> QED BY <1>1, <2>1 DEF RowsSame
<1>5. CASE UNCHANGED vars \/ Restart
  BY <1>1, <1>5 DEF vars, Restart, storeVars, RowsSame
<1>6. CASE Process
  <2>1. db' = db
    BY <1>6 DEF Process, ExecStatus, ExecNotDue, ProcessNoSend, ProcessSend, ProcessPanic, storeVars
  <2> QED BY <1>1, <2>1 DEF RowsSame
<1>7. CASE Flush
  <2>1. CASE FlushNone \/ Emit
    BY <1>1, <2>1 DEF FlushNone, Emit, storeVars, RowsSame
  <2>2. CASE FlushUpdate
    BY <1>0, <2>2, PendingUpdate
  <2>3. CASE FlushDelete
    <3>1. db' = [db EXCEPT ![run.tx] = NoRow]
      BY <2>3 DEF FlushDelete
    <3> QED BY <1>0, <3>1 DEF PendingKept, NoRow
  <2>4. CASE FlushFail
    <3>1. /\ db[run.tx].status = "None"
          /\ db' = db \/ db' = [db EXCEPT ![run.tx].listed = FALSE]
      BY <2>4 DEF FlushFail, RefillCond
    <3> QED BY <1>0, <3>1 DEF PendingKept, Row
  <2> QED BY <1>7, <2>1, <2>2, <2>3, <2>4 DEF Flush
<1>8. CASE \E r \in Reqs : ExecRequest(r)
  <2>1. PICK r \in Reqs : ExecRequest(r)
    BY <1>8
  <2>2. req[r].tx \in Txs /\ req[r].act \in Actions
    BY <1>0, <2>1, HeadRequest
  <2>3. CASE \E touched \in BOOLEAN : PendingToRunContext(req[r].tx, req[r].act, r, touched)
    <3>1. \A u \in Txs : db'[u].status = db[u].status /\ db'[u].listed = db[u].listed
      BY <1>0, <2>2, <2>3, SnapshotMarks
    <3> QED BY <3>1 DEF PendingKept
  <2>4. CASE db' = db
    BY <2>4 DEF PendingKept
  <2> QED BY <2>1, <2>3, <2>4 DEF ExecRequest
<1>9. CASE \E t \in Txs : ExecInflight(t)
  <2>1. PICK t \in Txs : PendingToRunContext(t, NoAction, NoReq, FALSE)
    BY <1>9 DEF ExecInflight
  <2>2. \A u \in Txs : db'[u].status = db[u].status /\ db'[u].listed = db[u].listed
    BY <1>0, <2>1, SnapshotMarks
  <2> QED BY <2>2 DEF PendingKept
<1>10. CASE \/ BeginCycle \/ UpdateInflightSet \/ SkipInflightSet \/ EndCycle
            \/ \E r \in Reqs : Respond(r)
  BY <1>1, <1>10 DEF BeginCycle, UpdateInflightSet, SkipInflightSet, EndCycle, Respond, storeVars, RowsSame
<1> QED BY <1>2, <1>3, <1>4, <1>5, <1>6, <1>7, <1>8, <1>9, <1>10 DEF Next, Loop

\* Only inserts move a submission on and number it, and the one that is in the
\* store marks the set.
LEMMA InsertFrame ==
    ASSUME TypeInv, RefillCond, [Next]_vars
    PROVE  /\ \A t \in Txs : seq'[t] = seq[t] \/ ins[t] = "new"
           /\ \A t \in Txs : ins[t] = "inserted" => ins'[t] = "inserted" \/ stale'
<1>0. /\ seq \in [Txs -> Nat]
      /\ ins \in [Txs -> {"new", "inserting", "inserted", "marked", "done", "failed"}]
  BY DEF TypeInv, TypeOK
<1>1. CASE UNCHANGED <<seq, ins>>
  BY <1>1
<1>2. CASE \E t \in Txs : Insert(t)
  <2>1. PICK t \in Txs : Insert(t)
    BY <1>2
  <2>2. CASE InsertBegin(t)
    BY <1>0, <2>2 DEF InsertBegin
  <2>3. CASE InsertMarkStale(t)
    BY <1>0, <2>3 DEF InsertMarkStale, storeVars
  <2>4. CASE InsertCommit(t) \/ InsertFail(t) \/ InsertMarkUpdate(t)
    <3>1. /\ seq' = seq /\ ins[t] # "inserted"
          /\ \E k \in {"inserted", "failed", "done"} : ins' = [ins EXCEPT ![t] = k]
      BY <2>4 DEF InsertCommit, InsertFail, InsertMarkUpdate, storeVars
    <3> QED BY <1>0, <3>1
  <2>5. ~InsertHistoryFail(t)
    BY DEF InsertHistoryFail, RefillCond
  <2> QED BY <2>1, <2>2, <2>3, <2>4, <2>5 DEF Insert
<1>3. CASE Restart
  BY <1>3 DEF Restart, storeVars
<1>4. CASE \E r \in Reqs : ApiRequest(r)
  BY <1>1, <1>4 DEF ApiRequest, RequestQueue, RequestWait, RequestTimeout, storeVars
<1>5. CASE Bcm \/ Blockchain
  <2>1. UNCHANGED <<seq, ins>>
    BY <1>5 DEF Bcm, BcmNotification, BcmReceipt, BcmConfirmations, BcmConfirm, BcmReceiptGone,
                Blockchain, Mine, Reorg, storeVars
  <2> QED BY <1>1, <2>1
<1>6. CASE Process
  <2>1. UNCHANGED <<seq, ins>>
    BY <1>6 DEF Process, ExecStatus, ExecNotDue, ProcessNoSend, ProcessSend, ProcessPanic, storeVars
  <2> QED BY <1>1, <2>1
<1>7. CASE Flush
  <2>1. UNCHANGED <<seq, ins>>
    BY <1>7 DEF Flush, FlushNone, FlushUpdate, FlushDelete, FlushFail, Emit, storeVars
  <2> QED BY <1>1, <2>1
<1>8. CASE Loop
  <2>1. CASE ~Process /\ ~Flush
    <3>1. UNCHANGED <<seq, ins>>
      BY <1>8, <2>1 DEF Loop, BeginCycle, ExecRequest, Respond, UpdateInflightSet, SkipInflightSet,
         ExecInflight, EndCycle, storeVars
    <3> QED BY <1>1, <3>1
  <2> QED BY <1>6, <1>7, <2>1
<1>9. CASE UNCHANGED vars
  BY <1>1, <1>9 DEF vars
<1> QED BY <1>2, <1>3, <1>4, <1>5, <1>8, <1>9 DEF Next

LEMMA RefillStep ==
    ASSUME SuccessInv, PlanInv, PhaseInv, RefillInv, RefillCond, [Next]_vars
    PROVE  RefillInv'
<1>0. /\ TypeInv /\ ReqsAsked /\ IndexSound /\ SubmittingUnknown /\ NoResume
      /\ AllListed /\ SeqOrder /\ Younger /\ Noticed
      /\ inflight \subseteq Txs /\ ins \in [Txs -> {"new", "inserting", "inserted", "marked", "done", "failed"}]
  BY DEF SuccessInv, DataInv, PlanInv, TypeInv, TypeOK, RefillInv, RefillCond
<1>1. /\ \A t \in Txs : seq'[t] = seq[t] \/ ins[t] = "new"
      /\ \A t \in Txs : ins[t] = "inserted" => ins'[t] = "inserted" \/ stale'
  BY <1>0, InsertFrame
<1>2. \A t \in Txs : db'[t].listed => db[t].listed \/ (Submitting(t) /\ InsertCommit(t))
  BY <1>0, MarksStep DEF IndexShrinks
<1>3. AllListed'
  BY <1>0, PendingStep DEF AllListed, PendingKept
<1>4. SeqOrder'
  BY <1>0, SeqStep
<1>5. \A t \in Txs : InsertCommit(t) => ins[t] = "inserting" /\ ins'[t] = "inserted" /\ seq' = seq
                                        /\ inflight' = inflight
  BY <1>0 DEF InsertCommit, memVars
<1>6. CASE UpdateInflightSet
  <2>1. db' = db /\ seq' = seq
    BY <1>6 DEF UpdateInflightSet, storeVars
  <2>2. \A t \in Txs \ inflight' : db[t].listed =>
           Cardinality(inflight') >= MaxInFlight /\ \A u \in inflight' : seq[u] < seq[t]
    BY <1>0, <1>6, RefreshFills
  <2>3. Younger' /\ Noticed'
    BY <2>1, <2>2 DEF Younger, Noticed
  <2> QED BY <1>3, <1>4, <2>3 DEF RefillInv
<1>7. CASE Restart
  <2>1. inflight' = {} /\ stale'
    BY <1>7 DEF Restart
  <2>2. Younger' /\ Noticed'
    BY <2>1 DEF Younger, Noticed
  <2> QED BY <1>3, <1>4, <2>2 DEF RefillInv
<1>8. CASE Lasting \/ BeginCycle
  <2>1. inflight' = inflight
    <3>1. CASE Lasting
      BY <3>1 DEF Lasting
    <3>2. CASE BeginCycle
      BY <3>2 DEF BeginCycle, memVars
    <3> QED BY <1>8, <3>1, <3>2
  <2>2. Younger'
    <3> SUFFICES ASSUME NEW t \in Txs \ inflight, NEW u \in inflight, db'[t].listed
                 PROVE  seq'[u] < seq'[t]
      BY <2>1 DEF Younger
    <3>1. CASE db[t].listed
      <4>1. ins[t] # "new" /\ ins[u] # "new"
        BY <1>0, <3>1 DEF SubmittingUnknown, Submitting
      <4> QED BY <1>0, <1>1, <3>1, <4>1 DEF Younger
    <3>2. CASE InsertCommit(t)
      BY <1>0, <1>5, <3>2 DEF SeqOrder
    <3> QED BY <1>2, <3>1, <3>2
  <2>3. Noticed'
    <3> SUFFICES ASSUME NEW t \in Txs \ inflight, db'[t].listed, ins'[t] # "inserted", ~stale',
                        ~(Cardinality(inflight) >= MaxInFlight), pc' \notin {"hung", "panic"}
                 PROVE  InRequests' /\ refresh'
      BY <2>1 DEF Noticed
    <3>1. db[t].listed /\ ins[t] # "inserted"
      BY <1>1, <1>2, <1>5
    <3>2. stale \/ (InRequests /\ refresh) \/ pc \in {"hung", "panic"}
      BY <1>0, <3>1 DEF Noticed
    <3>3. CASE Lasting
      BY <3>2, <3>3 DEF Lasting
    <3>4. CASE BeginCycle
      BY <3>2, <3>4 DEF BeginCycle, InRequests
    <3> QED BY <1>8, <3>3, <3>4
  <2> QED BY <1>3, <1>4, <2>2, <2>3 DEF RefillInv
<1> QED BY <1>0, <1>6, <1>7, <1>8, LastingStep

RefillSafe == SuccessInv /\ PlanInv /\ PhaseInv /\ RefillInv

LEMMA RefillInvariant ==
    ASSUME RefillCond
    PROVE  Spec => []RefillSafe
<1>0. NoResume
  BY DEF RefillCond
<1>1. Init => RefillSafe
  BY InitSuccess, InitPlan, InitPhase, InitRefill DEF RefillSafe
<1>2. RefillSafe /\ [Next]_vars => RefillSafe'
  <2> SUFFICES ASSUME RefillSafe, [Next]_vars PROVE RefillSafe'
    OBVIOUS
  <2>1. SuccessInv /\ PlanInv /\ PhaseInv /\ RefillInv /\ TypeInv /\ ReqsAsked
    BY DEF RefillSafe, SuccessInv, PlanInv
  <2> QED BY <1>0, <2>1, SuccessStep, PlanStep, PhaseStep, RefillStep DEF RefillSafe
<1> QED BY <1>1, <1>2, PTL DEF Spec

\* When the loop rests with room to spare and no marker set, it has left no
\* pending transaction out: the marker is set after every insert and whenever a
\* slot is freed, is only popped by the cycle that refreshes the set, and what
\* the refresh could not take is never overtaken.
THEOREM RefillCorrect ==
    ASSUME RefillCond
    PROVE  Spec => []NoneLeftBehind
<1>1. RefillSafe => NoneLeftBehind
  <2> SUFFICES ASSUME RefillSafe, pc = "idle", ~stale, Cardinality(inflight) < MaxInFlight,
                      NEW t \in Txs, ins[t] # "inserted", db[t].status = "Pending", t \notin inflight
               PROVE  FALSE
    BY DEF NoneLeftBehind
  <2>1. db[t].listed
    BY DEF RefillSafe, RefillInv, AllListed
  <2>2. Cardinality(inflight) \in Nat /\ MaxInFlight \in Nat
    <3>1. IsFiniteSet(inflight)
      BY TxsAssumption, FS_Subset DEF RefillSafe, SuccessInv, TypeInv, TypeOK
    <3> QED BY <3>1, FS_CardinalityType, MaxInFlightAssumption
  <2> QED BY <2>1, <2>2 DEF RefillSafe, RefillInv, Noticed, InRequests
<1> QED BY <1>1, RefillInvariant, PTL
=============================================================================
