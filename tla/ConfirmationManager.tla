------------------------ MODULE ConfirmationManager ------------------------
(***************************************************************************)
(* The block confirmation manager: the buffer in front of its block        *)
(* channel, the confirmationsListener goroutine that keeps the pending     *)
(* items, and the receipt checker with its workers.                        *)
(*                                                                         *)
(* One manager serves the transaction handler, whose items are             *)
(* transactions that may move between blocks; one serves each event        *)
(* stream, whose items are events: every block holds one, and the key of   *)
(* an event names its block.                                               *)
(*                                                                         *)
(* The node's chain is a sequence of blocks; a block with R blocks on top  *)
(* is final, and everything above may be reorganised.                      *)
(***************************************************************************)
EXTENDS Integers, Sequences, FiniteSets, SequencesExt

CONSTANTS
    R,            \* confirmations.required
    Setups,       \* which managers: pairs of a role and a chain tracking mode
    Txs,          \* transaction hashes the handler tracks
    Workers,      \* confirmations.receiptWorkers
    UponEntry,    \* confirmations.fetchReceiptUponEntry
    BlockCap, NoteCap,  \* capacities of newBlockHashEvents, bcmNotifications
    Faults,       \* what may go wrong, see Faulty
    MaxBlocks,    \* bound: blocks mined on top of the first, orphans included
    MaxAdds,      \* bound: pending items made for one transaction, or held for one event
    MaxChecks,    \* bound: receipt checks of an item that time out
    MaxSessions   \* bound: how often the manager is started

ASSUME RAssumption == R \in Nat
ASSUME SetupsAssumption ==
    Setups \subseteq {"tx", "event"} \X {"full", "light"}
ASSUME CapsAssumption == BlockCap \in Nat \ {0} /\ NoteCap \in Nat \ {0}
ASSUME BoundsAssumption == /\ MaxBlocks \in Nat /\ MaxAdds \in Nat \ {0} /\ MaxChecks \in Nat
                           /\ MaxSessions \in Nat \ {0} /\ UponEntry \in BOOLEAN

VARIABLES
    chain, final, mined,  \* the node: canonical chain, last final number, blocks so far
    setup,       \* <<role, mode>> of this manager
    up,          \* up, stopping (context cancelled), down
    sessions,    \* how often it was started
    logs,        \* event updates the connector has not handed over yet
    missed,      \* it has missed blocks since its last block event
    blocked,     \* blockedUpdate: the one block event held back, if any
    bq, nq,      \* newBlockHashEvents, bcmNotifications
    stale, high, head,    \* blockListenerStale, highestBlockSeen, headBlockNumber
    items,       \* every pendingItem made so far
    pending,     \* the items in the pending map
    pc,          \* where confirmationsListener is in its loop
    todo, cur,   \* items still to walk in this pass, the one being walked
    notes, hashes, newBlock, had, first,  \* its local variables
    cache, lowestNil,     \* blockState
    entries,     \* receiptChecker.entries
    worker,      \* what each receipt worker is doing
    tracked,     \* transactions the handler is waiting for
    adds,        \* how often it has asked for each
    listening,   \* the stream's listener has not been removed
    told,        \* what an item's callbacks were told (history)
    out          \* confirmed items, in the order they were dispatched (history)

chainVars == <<chain, final, mined, logs, missed>>
runVars   == <<setup, up, sessions>>
queueVars == <<blocked, bq, nq>>
viewVars  == <<stale, high, head>>
itemVars  == <<items, pending, told, out>>
loopVars  == <<pc, todo, cur, notes, hashes, newBlock, had, first, cache, lowestNil>>
checkVars == <<entries, worker>>
clientVars == <<tracked, adds, listening>>
vars == <<chainVars, runVars, queueVars, viewVars, itemVars, loopVars, checkVars, clientVars>>

role == setup[1]
mode == setup[2]

NoBlock == [number |-> 0, hash |-> -1, parent |-> -1, txs |-> {}]
Hashes == 1..MaxBlocks

\* An item is a transaction hash, or the block of an event, with the number of its
\* pendingItem.
Ids == (Txs \cup Hashes) \X (1..MaxAdds)
Key(o) == o[1]
NoId == <<>>

\* pendingItem; own is the block an event was detected in.
NewItem(b) ==
    [own |-> b, blk |-> b, confs |-> <<>>, notified |-> <<>>, confirmed |-> FALSE,
     once |-> FALSE, queued |-> FALSE, gen |-> 0, applied |-> 0, prev |-> -1]

NotTold == [receipt |-> NoBlock, list |-> <<>>, confirmed |-> NoBlock]
Idle == [at |-> "idle"]

\* What the environment does: number, hash, receipt: a query to the node
\* fails; gap: the connector lost block events; timeout: a receipt check is
\* stale; forget: the node does not know orphans; listener: the listener is removed.
Faulty(f) == f \in Faults \/ up = "stopping"

-----------------------------------------------------------------------------
(* The node and the connector *)

Canonical(b) == b.number < Len(chain) /\ chain[b.number + 1] = b
OnChain(t) == \E i \in 1..Len(chain) : t \in chain[i].txs

\* The receipt of a transaction: the canonical block that holds it.
ReceiptBlock(t) ==
    IF OnChain(t) THEN chain[CHOOSE i \in 1..Len(chain) : t \in chain[i].txs] ELSE NoBlock

\* The transaction of an item.
TxOf(o) == IF role = "tx" THEN Key(o) ELSE CHOOSE t \in items[o].own.txs : TRUE

\* BufferChannel takes every block event: passed on, held, or dropped with a
\* gap mark on the one held.
Buffer(e) ==
    \/ /\ blocked = <<>> /\ Len(bq) < BlockCap
       /\ bq' = Append(bq, e)
       /\ UNCHANGED blocked
    \/ /\ blocked = <<>> /\ Len(bq) = BlockCap
       /\ blocked' = <<e>>
       /\ UNCHANGED bq
    \/ /\ blocked # <<>>
       /\ blocked' = <<[blocked[1] EXCEPT !.gap = TRUE]>>
       /\ UNCHANGED bq

\* The target has room again for the event that was held back.
Unblock ==
    /\ blocked # <<>> /\ Len(bq) < BlockCap /\ up # "down"
    /\ bq' = Append(bq, blocked[1])
    /\ blocked' = <<>>
    /\ UNCHANGED <<chainVars, runVars, nq, viewVars, itemVars, loopVars, checkVars, clientVars>>

\* The events of orphaned blocks are removed, the latest first.
Removals(n) ==
    [i \in 1..(Len(chain) - n - 1) |-> [type |-> "removedEvent", blk |-> chain[Len(chain) - i + 1]]]

\* A new block on the block of number n, with txs not on the chain below it. The
\* connector notifies of it, or misses it and marks a gap on the next one.
Mine(n, txs) ==
    /\ mined < MaxBlocks
    /\ n >= final /\ n < Len(chain)
    /\ \A i \in 1..(n + 1) : chain[i].txs \cap txs = {}
    /\ LET b == [number |-> n + 1, hash |-> mined + 1, parent |-> chain[n + 1].hash, txs |-> txs]
       IN /\ chain' = Append(SubSeq(chain, 1, n + 1), b)
          /\ logs' = IF role = "event" /\ up = "up" /\ listening
                     THEN logs \o Append(Removals(n), [type |-> "newEvent", blk |-> b]) ELSE logs
          /\ \/ up = "up" /\ Buffer([blk |-> b, gap |-> missed]) /\ missed' = FALSE
             \/ (up # "up" \/ "gap" \in Faults) /\ missed' = TRUE /\ UNCHANGED <<blocked, bq>>
    /\ final' = IF n + 1 - R > final THEN n + 1 - R ELSE final
    /\ mined' = mined + 1
    /\ UNCHANGED <<runVars, nq, viewVars, itemVars, loopVars, checkVars, clientVars>>

\* As if a full queue grew.
NotifyUnbounded(n) == nq' = Append(nq, n)

\* Notify, whose caller waits while the queue is full.
Notify(n) ==
    /\ Len(nq) < NoteCap
    /\ nq' = Append(nq, n)

\* The event loop of the stream hands the connector's next event update over.
EventLog ==
    /\ up = "up" /\ logs # <<>>
    /\ Notify(Head(logs))
    /\ logs' = Tail(logs)
    /\ UNCHANGED <<chain, final, mined, missed, runVars, blocked, bq, viewVars, itemVars, loopVars, checkVars, clientVars>>

\* The listener is removed: nothing more is handed over for it.
RemoveListener ==
    /\ role = "event" /\ up = "up" /\ listening /\ "listener" \in Faults
    /\ Notify([type |-> "listenerRemoved"])
    /\ logs' = <<>>
    /\ listening' = FALSE
    /\ UNCHANGED <<chain, final, mined, missed, runVars, blocked, bq, viewVars, itemVars, loopVars, checkVars,
                   tracked, adds>>

\* The handler tracks a transaction it has submitted, or no longer.
Track(t) ==
    /\ role = "tx" /\ up = "up" /\ t \notin tracked /\ adds[t] < MaxAdds
    /\ Notify([type |-> "newTx", item |-> <<t, adds[t] + 1>>])
    /\ tracked' = tracked \cup {t}
    /\ adds' = [adds EXCEPT ![t] = @ + 1]
    /\ UNCHANGED <<chainVars, runVars, blocked, bq, viewVars, itemVars, loopVars, checkVars, listening>>

Untrack(t) ==
    /\ role = "tx" /\ up = "up" /\ t \in tracked
    /\ Notify([type |-> "removedTx", tx |-> t])
    /\ tracked' = tracked \ {t}
    /\ UNCHANGED <<chainVars, runVars, blocked, bq, viewVars, itemVars, loopVars, checkVars, adds, listening>>

-----------------------------------------------------------------------------
(* The receipt checker *)

\* schedule: the items that are not queued, and nothing while a check is in flight.
ScheduledItems(its, S) ==
    [o \in Ids |-> IF o \in S /\ ~its[o].queued
                   THEN [its[o] EXCEPT !.queued = TRUE, !.once = TRUE, !.gen = @ + 1]
                   ELSE its[o]]
ScheduledEntries(its, S) == entries \o SetToSeq({o \in S : ~its[o].queued})

\* run: a worker takes the first entry; the item stays marked as queued.
WaitNext(w) ==
    /\ up = "up" /\ worker[w] = Idle /\ entries # <<>>
    /\ worker' = [worker EXCEPT ![w] = [at |-> "query", item |-> Head(entries),
                                        gen |-> items[Head(entries)].gen]]
    /\ entries' = Tail(entries)
    /\ UNCHANGED <<chainVars, runVars, queueVars, viewVars, itemVars, loopVars, clientVars>>

\* The node answers: a receipt, or none. The mark goes before the receipt is passed on.
CheckReceipt(w) ==
    /\ worker[w].at = "query"
    /\ LET o == worker[w].item
           b == ReceiptBlock(TxOf(o))
       IN /\ items' = [items EXCEPT ![o].queued = FALSE]
          /\ worker' = [worker EXCEPT ![w] =
                IF b = NoBlock THEN Idle
                ELSE [at |-> "notify", item |-> o, gen |-> worker[w].gen, blk |-> b]]
    /\ UNCHANGED <<chainVars, runVars, queueVars, viewVars, pending, told, out, loopVars, entries, clientVars>>

\* The query fails: the item goes to the back of the queue, its generation kept.
CheckFails(w) ==
    /\ worker[w].at = "query" /\ Faulty("receipt")
    /\ entries' = Append(entries, worker[w].item)
    /\ items' = [items EXCEPT ![worker[w].item].queued = TRUE]
    /\ worker' = [worker EXCEPT ![w] = Idle]
    /\ UNCHANGED <<chainVars, runVars, queueVars, viewVars, pending, told, out, loopVars, clientVars>>

NotifyReceipt(w) ==
    /\ worker[w].at = "notify"
    /\ Notify([type |-> "receipt", item |-> worker[w].item, blk |-> worker[w].blk, gen |-> worker[w].gen])
    /\ worker' = [worker EXCEPT ![w] = Idle]
    /\ UNCHANGED <<chainVars, runVars, blocked, bq, viewVars, itemVars, loopVars, entries, clientVars>>

-----------------------------------------------------------------------------
(* Dispatching confirmations *)

\* The item has gone down a fork since it was last notified, or never was.
NewFork(it) ==
    \/ it.notified = <<>>
    \/ \E i \in 1..Len(it.confs) : i <= Len(it.notified) /\ it.confs[i].hash # it.notified[i].hash

\* What is sent: all of the confirmations, or the additional ones.
Additional(it) ==
    IF NewFork(it) THEN it.confs ELSE SubSeq(it.confs, Len(it.notified) + 1, Len(it.confs))

Dispatches(it) == it.confirmed \/ Additional(it) # <<>>

\* What a consumer holds that replaces its list on a new fork and adds to it otherwise.
Accumulated(list, it) == IF NewFork(it) THEN Additional(it) ELSE list \o Additional(it)

\* sort.Sort(notifications), by block; the order of transactions within a block is left open.
SortedByBlock(its, C) ==
    {s \in SetToSeqs(C) : \A i, j \in DOMAIN s : i < j => its[s[i]].blk.number <= its[s[j]].blk.number}

\* dispatchConfirmations of the items in S: its is what they have come to.
DispatchConfirmations(its, S) ==
    LET D == {o \in S : Dispatches(its[o])}
        C == {o \in S : its[o].confirmed}
    IN /\ items' = [o \in Ids |->
             IF o \in D THEN [its[o] EXCEPT !.notified = Accumulated(@, its[o])] ELSE its[o]]
       /\ told' = [o \in Ids |->
             IF o \notin D THEN told[o]
             ELSE [told[o] EXCEPT !.list = Accumulated(@, its[o]),
                                  !.confirmed = IF o \in C THEN its[o].blk ELSE @]]
       /\ \E s \in SortedByBlock(its, C) : out' = out \o s
       /\ pending' = {p \in pending : \A o \in C : Key(p) # Key(o)}

\* What removeItem leaves of the receipt checks, in their order.
EntriesWithout(es, C) ==
    LET kept == {i \in 1..Len(es) : es[i] \notin C}
        Nth(k) == CHOOSE i \in kept : Cardinality({j \in kept : j <= i}) = k
    IN [k \in 1..Cardinality(kept) |-> es[Nth(k)]]

-----------------------------------------------------------------------------
(* The loop of confirmationsListener *)

\* A new iteration: a fresh view of the chain, and a walk of all items if one is due.
BeginIteration(isStale, isBlock, all) ==
    /\ newBlock' = isBlock /\ had' = (isBlock \/ hashes # <<>>)
    /\ cache' = {} /\ lowestNil' = 0
    /\ \/ /\ isStale /\ mode = "full"
          /\ pc' = "walk" /\ stale' = TRUE /\ todo' = all
       \/ /\ ~(isStale /\ mode = "full")
          /\ pc' = "blocks" /\ stale' = FALSE
          /\ todo' = IF mode = "light" /\ isBlock THEN all ELSE {}
    /\ UNCHANGED <<cur, first>>

ReceiveBlock ==
    /\ pc = "idle" /\ up # "down" /\ bq # <<>>
    /\ bq' = Tail(bq)
    /\ hashes' = Append(hashes, Head(bq).blk)
    /\ head' = Head(bq).blk.number
    /\ BeginIteration(stale \/ Head(bq).gap, TRUE, pending)
    /\ UNCHANGED <<chainVars, runVars, blocked, nq, high, itemVars, notes, checkVars, clientVars>>

\* A notification waits for the end of the iteration; the removal of a listener does not.
ReceiveNotification ==
    /\ pc = "idle" /\ up # "down" /\ nq # <<>>
    /\ nq' = Tail(nq)
    /\ \/ /\ Head(nq).type = "listenerRemoved"
          /\ pending' = {}
          /\ UNCHANGED notes
       \/ /\ Head(nq).type # "listenerRemoved"
          /\ notes' = Append(notes, Head(nq))
          /\ UNCHANGED pending
    /\ BeginIteration(stale, FALSE, pending')
    /\ UNCHANGED <<chainVars, runVars, blocked, bq, high, head, items, told, out, hashes, checkVars, clientVars>>

\* walkChain and the pass of light mode take the items in the order of their blocks.
TakeItem ==
    /\ pc \in {"walk", "blocks"} /\ cur = NoId
    /\ \E o \in todo :
         /\ \A p \in todo : items[o].blk.number <= items[p].blk.number
         /\ todo' = todo \ {o}
         /\ \/ /\ items[o].blk = NoBlock
               /\ UNCHANGED <<items, cur>>
            \/ /\ items[o].blk # NoBlock
               /\ cur' = o
               /\ items' = IF mode = "full" THEN [items EXCEPT ![o].confs = <<>>] ELSE items
    /\ UNCHANGED <<chainVars, runVars, queueVars, viewVars, pending, told, out, pc, notes, hashes,
                   newBlock, had, first, cache, lowestNil, checkVars, clientVars>>

NextNotes == IF pc = "notes" THEN Tail(notes) ELSE notes

\* The walk of the current item ends: its confirmations are dispatched.
EndWalk(it) ==
    /\ DispatchConfirmations([items EXCEPT ![cur] = it],
                             IF it.confirmed \/ it.confs # <<>> THEN {cur} ELSE {})
    /\ entries' = IF it.confirmed THEN EntriesWithout(entries, {cur}) ELSE entries
    /\ cur' = NoId
    /\ notes' = NextNotes

\* The number walkChainForItem looks at next, and the parent it expects there.
WalkNumber(it) == it.blk.number + 1 + Len(it.confs)
WalkParent(it) == IF it.confs = <<>> THEN it.blk.hash ELSE Last(it.confs).hash

\* Nothing is looked up past the highest block seen, nor past a block not found before.
BeyondView(n) == (high > 0 /\ n > high) \/ (lowestNil > 0 /\ n >= lowestNil)

\* The block found, cached or queried, is one more confirmation, or ends the walk.
Walked(it, b) ==
    /\ cache' = cache \cup {b}
    /\ UNCHANGED lowestNil
    /\ \/ /\ b.parent # WalkParent(it)
          /\ EndWalk(it)
       \/ /\ b.parent = WalkParent(it)
          /\ items' = [items EXCEPT ![cur].confs = Append(@, b)]
          /\ UNCHANGED <<pending, told, out, entries, cur, notes>>

\* One turn of walkChainForItem's loop over the blocks on top of the item.
WalkChainForItem ==
    /\ mode = "full" /\ cur # NoId
    /\ LET it == items[cur]
           n == WalkNumber(it)
           known == {b \in cache : b.number = n}
       IN \/ /\ Len(it.confs) >= R
             /\ EndWalk([it EXCEPT !.confirmed = TRUE])
             /\ UNCHANGED <<cache, lowestNil>>
          \/ /\ Len(it.confs) < R /\ BeyondView(n)
             /\ EndWalk(it)
             /\ UNCHANGED <<cache, lowestNil>>
          \/ /\ Len(it.confs) < R /\ ~BeyondView(n)
             /\ \/ \E b \in known : Walked(it, b)
                \/ known = {} /\ n < Len(chain) /\ Walked(it, chain[n + 1])
                \/ /\ known = {} /\ n >= Len(chain)
                   /\ EndWalk(it)
                   /\ lowestNil' = n
                   /\ UNCHANGED cache
    /\ UNCHANGED <<chainVars, runVars, queueVars, viewVars, pc, todo, hashes, newBlock, had, first,
                   worker, clientVars>>

\* The query fails. A pass over all items is given up and is still due; a new event
\* stays with the notifications to process; a receipt is only logged.
WalkFails ==
    /\ mode = "full" /\ cur # NoId /\ Faulty("number")
    /\ Len(items[cur].confs) < R /\ ~BeyondView(WalkNumber(items[cur]))
    /\ cur' = NoId
    /\ \/ /\ pc = "walk" \/ (pc = "notes" /\ Head(notes).type = "newEvent")
          /\ pc' = "idle" /\ todo' = {}
          /\ UNCHANGED notes
       \/ /\ pc = "notes" /\ Head(notes).type = "receipt"
          /\ notes' = Tail(notes)
          /\ UNCHANGED <<pc, todo>>
    /\ UNCHANGED <<chainVars, runVars, queueVars, viewVars, itemVars, hashes, newBlock, had, first,
                   cache, lowestNil, checkVars, clientVars>>

WalkDone ==
    /\ pc = "walk" /\ todo = {} /\ cur = NoId
    /\ stale' = FALSE
    /\ pc' = "blocks"
    /\ UNCHANGED <<chainVars, runVars, queueVars, high, head, itemVars, todo, cur, notes, hashes,
                   newBlock, had, first, cache, lowestNil, checkVars, clientVars>>

-----------------------------------------------------------------------------
(* New blocks, in full mode *)

\* As if the number alone told where it belongs.
AttachesByNumber(it, b, i) == b.number = it.blk.number + 1 + i

\* As if only the item's own block could be its parent.
AttachesDirectly(it, b, i) == i = 0 /\ b.number = it.blk.number + 1 /\ b.parent = it.blk.hash

\* Where the block attaches to the item, counting the confirmations below it.
AttachesAt(it, b, i) ==
    /\ b.number = it.blk.number + 1 + i
    /\ b.parent = IF i = 0 THEN it.blk.hash ELSE it.confs[i].hash
Attaches(it, b) == \E i \in 0..Len(it.confs) : AttachesAt(it, b, i)

\* Confirmations above the block are cut off.
Attached(it, b) ==
    LET confs == IF Attaches(it, b)
                 THEN Append(SubSeq(it.confs, 1, b.number - it.blk.number - 1), b) ELSE it.confs
    IN [it EXCEPT !.confs = confs, !.confirmed = @ \/ Len(confs) >= R]

\* processBlock: the receipts of its transactions are checked, the items it confirms
\* are dispatched in order.
ProcessBlock ==
    /\ mode = "full" /\ pc = "blocks" /\ hashes # <<>>
    /\ LET b == Head(hashes)
           moved == {o \in pending : Key(o) \in b.txs /\ items[o].blk.hash # b.hash}
           its == ScheduledItems(items, moved)
           mined_ == {o \in pending : items[o].blk # NoBlock}
           now == [o \in Ids |-> IF o \in mined_ THEN Attached(its[o], b) ELSE its[o]]
           notify == {o \in mined_ : R > 0 /\ (now[o].confirmed \/ Attaches(items[o], b))}
       IN /\ DispatchConfirmations(now, notify)
          /\ entries' = EntriesWithout(ScheduledEntries(items, moved), {o \in notify : now[o].confirmed})
          /\ high' = IF b.number > high THEN b.number ELSE high
    /\ hashes' = Tail(hashes)
    /\ UNCHANGED <<chainVars, runVars, queueVars, stale, head, pc, todo, cur, notes, newBlock, had,
                   first, cache, lowestNil, worker, clientVars>>

\* The block cannot be fetched by its hash: it is skipped.
BlockLost ==
    /\ mode = "full" /\ pc = "blocks" /\ hashes # <<>>
    /\ Faulty("hash") \/ ("forget" \in Faults /\ ~Canonical(Head(hashes)))
    /\ hashes' = Tail(hashes)
    /\ UNCHANGED <<chainVars, runVars, queueVars, viewVars, itemVars, pc, todo, cur, notes, newBlock,
                   had, first, cache, lowestNil, checkVars, clientVars>>

BlocksDone ==
    /\ pc = "blocks" /\ todo = {} /\ cur = NoId
    /\ mode = "light" \/ hashes = <<>>
    /\ pc' = "notes"
    /\ hashes' = <<>>
    /\ UNCHANGED <<chainVars, runVars, queueVars, viewVars, itemVars, todo, cur, notes, newBlock, had,
                   first, cache, lowestNil, checkVars, clientVars>>

-----------------------------------------------------------------------------
(* Confirmations by block height, in light mode *)

\* The key of a confirmed item: an event's is made of the block it has moved to.
KeyNow(it) == IF role = "tx" THEN Key(cur) ELSE it.blk.hash

\* The item goes on as it has become; removed when it is confirmed.
HeightDone(it, ended) ==
    /\ items' = [items EXCEPT ![cur] = it]
    /\ pending' = IF ended THEN {p \in pending : Key(p) # KeyNow(it)} ELSE pending
    /\ out' = IF ended THEN Append(out, cur) ELSE out
    /\ told' = IF ended THEN [told EXCEPT ![cur].confirmed = it.blk] ELSE told
    /\ entries' = IF ended /\ role = "tx" THEN EntriesWithout(entries, {cur}) ELSE entries

\* The receipt is gone: it is asked for again, unless the last check is recent.
HeightLost(it) ==
    \/ /\ role = "tx" \/ it.once
       /\ HeightDone([it EXCEPT !.blk = NoBlock, !.prev = -1], FALSE)
    \/ /\ it.gen < MaxChecks
       /\ items' = ScheduledItems([items EXCEPT ![cur].blk = NoBlock, ![cur].prev = -1], {cur})
       /\ entries' = ScheduledEntries(items, {cur})
       /\ UNCHANGED <<pending, told, out>>

\* The next item or notification; after an error, a new event stays to be processed.
HeightNext == notes' = NextNotes /\ UNCHANGED pc
HeightError ==
    \/ /\ pc = "notes" /\ Head(notes).type = "newEvent"
       /\ pc' = "idle"
       /\ UNCHANGED notes
    \/ ~(pc = "notes" /\ Head(notes).type = "newEvent") /\ HeightNext

\* dispatchBlockHeightConfirmations: enough blocks on top, and the receipt still the same.
BlockHeightConfirmations ==
    /\ mode = "light" /\ cur # NoId
    /\ LET it == items[cur]
           count == IF head > it.blk.number THEN head - it.blk.number ELSE 0
           b == ReceiptBlock(TxOf(cur))
       IN \/ count = it.prev /\ HeightDone(it, FALSE) /\ HeightNext
          \/ count # it.prev /\ count < R /\ HeightDone([it EXCEPT !.prev = count], FALSE) /\ HeightNext
          \/ /\ count # it.prev /\ count >= R /\ b = it.blk
             /\ HeightDone([it EXCEPT !.prev = count], TRUE) /\ HeightNext
          \/ /\ count # it.prev /\ count >= R /\ b # it.blk /\ b # NoBlock
             /\ HeightDone([it EXCEPT !.blk = b, !.prev = -1], FALSE) /\ HeightError
          \/ count # it.prev /\ count >= R /\ b = NoBlock /\ HeightLost(it) /\ HeightError
          \/ count # it.prev /\ count >= R /\ Faulty("receipt") /\ HeightDone(it, FALSE) /\ HeightError
    /\ cur' = NoId
    /\ UNCHANGED <<chainVars, runVars, queueVars, viewVars, todo, hashes, newBlock, had, first,
                   cache, lowestNil, worker, clientVars>>

-----------------------------------------------------------------------------
(* Notifications *)

\* addOrReplaceItem
Added(o) == {p \in pending : Key(p) # Key(o)} \cup {o}

\* A receipt check, or a receipt on its way, refers to the item.
Checked(o) ==
    \/ \E i \in 1..Len(entries) : entries[i] = o
    \/ \E w \in Workers : worker[w] # Idle /\ worker[w].item = o
    \/ \E i \in 1..Len(nq) : nq[i].type = "receipt" /\ nq[i].item = o
    \/ \E i \in 1..Len(notes) : notes[i].type = "receipt" /\ notes[i].item = o

\* NewEventLog: the event is walked at once, with an item of its own.
AddEvent(b) ==
    /\ \E k \in 1..MaxAdds :
         LET o == <<b.hash, k>>
         IN /\ ~Checked(o) /\ \A j \in 1..(k - 1) : Checked(<<b.hash, j>>)
            /\ items' = [items EXCEPT ![o] = NewItem(b)]
            /\ pending' = Added(o)
            /\ cur' = o
    /\ UNCHANGED <<notes, told, entries>>

\* NewTransaction: its receipt is asked for at once if so configured.
AddTransaction(o) ==
    /\ LET its == [items EXCEPT ![o] = NewItem(NoBlock)]
           atOnce == {p \in {o} : UponEntry}
       IN /\ items' = ScheduledItems(its, atOnce)
          /\ entries' = ScheduledEntries(its, atOnce)
    /\ pending' = Added(o)
    /\ notes' = Tail(notes)
    /\ UNCHANGED <<cur, told>>

\* RemovedEventLog, RemovedTransaction: receipt checks of the item go on, as the item
\* made from the notification is not the one that is queued.
RemoveKey(k) ==
    /\ pending' = {p \in pending : Key(p) # k}
    /\ notes' = Tail(notes)
    /\ UNCHANGED <<items, cur, told, entries>>

\* The receipt callback, which an event has not.
ToldReceipt(n) == IF role = "tx" THEN [told EXCEPT ![n.item].receipt = n.blk] ELSE told

\* As if every receipt that arrives were the latest.
DispatchAnyReceipt(n) ==
    /\ items' = [items EXCEPT ![n.item].applied = n.gen, ![n.item].blk = n.blk,
                              ![n.item].confs = IF mode = "full" THEN <<>> ELSE @]
    /\ told' = ToldReceipt(n)
    /\ cur' = n.item
    /\ UNCHANGED <<notes, pending, entries>>

\* dispatchReceipt: a receipt of an earlier check than the one applied is ignored.
DispatchReceipt(n) ==
    \/ /\ n.gen <= items[n.item].applied
       /\ notes' = Tail(notes)
       /\ UNCHANGED <<items, pending, cur, told, entries>>
    \/ /\ n.gen > items[n.item].applied
       /\ items' = [items EXCEPT ![n.item].applied = n.gen, ![n.item].blk = n.blk,
                                 ![n.item].confs = IF mode = "full" THEN <<>> ELSE @]
       /\ told' = ToldReceipt(n)
       /\ cur' = n.item
       /\ UNCHANGED <<notes, pending, entries>>

ProcessNotification ==
    /\ pc = "notes" /\ cur = NoId /\ notes # <<>>
    /\ LET n == Head(notes)
       IN \/ n.type = "newEvent" /\ AddEvent(n.blk)
          \/ n.type = "newTx" /\ AddTransaction(n.item)
          \/ n.type = "removedEvent" /\ RemoveKey(n.blk.hash)
          \/ n.type = "removedTx" /\ RemoveKey(n.tx)
          \/ n.type = "receipt" /\ DispatchReceipt(n)
    /\ UNCHANGED <<chainVars, runVars, queueVars, viewVars, out, pc, todo, hashes, newBlock, had, first,
                   cache, lowestNil, worker, clientVars>>

\* scheduleReceiptChecks: after the first block, by light mode for want of a
\* receipt, or as the last check is too old.
ScheduleReceiptChecks ==
    /\ pc = "notes" /\ cur = NoId /\ notes = <<>>
    /\ LET all == (~first /\ had) \/ (mode = "light" /\ newBlock)
           due == {o \in pending : role = "tx" /\ all /\
                     (~items[o].once \/ (mode = "light" /\ items[o].blk = NoBlock))}
           old == {o \in pending : role = "tx" /\ "timeout" \in Faults /\ items[o].gen < MaxChecks}
       IN \E S \in SUBSET old :
            /\ items' = ScheduledItems(items, due \cup S)
            /\ entries' = ScheduledEntries(items, due \cup S)
    /\ first' = (first \/ had)
    /\ pc' = "idle"
    /\ UNCHANGED <<chainVars, runVars, queueVars, viewVars, pending, told, out, todo, cur, notes, hashes,
                   newBlock, had, cache, lowestNil, worker, clientVars>>

-----------------------------------------------------------------------------
(* Stop and start *)

\* A stream is stopped: the context is cancelled, and queries fail from here on.
RequestStop ==
    /\ role = "event" /\ up = "up" /\ sessions < MaxSessions
    /\ up' = "stopping"
    /\ UNCHANGED <<chainVars, setup, sessions, queueVars, viewVars, itemVars, loopVars, checkVars, clientVars>>

\* The loop and the workers return with what they hold; the pending map and both
\* channels stay.
Stopped ==
    /\ up = "stopping" /\ pc = "idle" /\ \A w \in Workers : worker[w].at # "query"
    /\ up' = "down"
    /\ logs' = <<>> /\ blocked' = <<>>
    /\ notes' = <<>> /\ hashes' = <<>> /\ first' = FALSE
    /\ entries' = <<>> /\ worker' = [w \in Workers |-> Idle]
    /\ UNCHANGED <<chain, final, mined, missed, setup, sessions, bq, nq, viewVars, itemVars, pc, todo, cur,
                   newBlock, had, cache, lowestNil, clientVars>>

\* The last number an event was confirmed of: the stream's checkpoint.
LastConfirmed == IF out = <<>> THEN 0 ELSE items[Last(out)].own.number

\* The connector detects the events behind the checkpoint again.
Start ==
    /\ up = "down"
    /\ up' = "up"
    /\ sessions' = sessions + 1
    /\ logs' = IF ~listening THEN <<>>
               ELSE [i \in 1..(Len(chain) - 1 - LastConfirmed) |->
                       [type |-> "newEvent", blk |-> chain[LastConfirmed + i + 1]]]
    /\ UNCHANGED <<chain, final, mined, missed, setup, queueVars, viewVars, itemVars, loopVars, checkVars, clientVars>>

Init ==
    /\ chain = <<[number |-> 0, hash |-> 0, parent |-> -1, txs |-> {}]>>
    /\ final = 0 /\ mined = 0 /\ logs = <<>> /\ missed = FALSE
    /\ setup \in Setups /\ up = "up" /\ sessions = 1
    /\ blocked = <<>> /\ bq = <<>> /\ nq = <<>>
    /\ stale = TRUE /\ high = 0 /\ head = 0
    /\ items = [o \in Ids |-> NewItem(NoBlock)] /\ pending = {}
    /\ told = [o \in Ids |-> NotTold] /\ out = <<>>
    /\ pc = "idle" /\ todo = {} /\ cur = NoId /\ notes = <<>> /\ hashes = <<>>
    /\ newBlock = FALSE /\ had = FALSE /\ first = FALSE /\ cache = {} /\ lowestNil = 0
    /\ entries = <<>> /\ worker = [w \in Workers |-> Idle]
    /\ tracked = {} /\ adds = [t \in Txs |-> 0] /\ listening = TRUE

Listener ==
    \/ ReceiveBlock \/ ReceiveNotification \/ TakeItem \/ WalkChainForItem \/ WalkDone
    \/ ProcessBlock \/ BlocksDone \/ BlockHeightConfirmations
    \/ ProcessNotification \/ ScheduleReceiptChecks

Checker(w) == WaitNext(w) \/ CheckReceipt(w) \/ NotifyReceipt(w)

Fails == WalkFails \/ BlockLost \/ \E w \in Workers : CheckFails(w)

\* The transactions of a new block: any of those tracked; or, for the receipts of light
\* mode, the one of its event, a new one or one that has been in an abandoned block.
NewTxs ==
    IF role = "tx" THEN SUBSET Txs
    ELSE IF mode = "light" THEN {{t} : t \in 1..(mined + 1)} ELSE {{}}

Node == \E n \in 0..MaxBlocks : \E txs \in NewTxs : Mine(n, txs)

Client == \E t \in Txs : Track(t) \/ Untrack(t)

Next ==
    \/ Node \/ Unblock \/ EventLog \/ RemoveListener \/ Client
    \/ Listener \/ Fails
    \/ \E w \in Workers : Checker(w)
    \/ RequestStop \/ Stopped \/ Start

Spec == Init /\ [][Next]_vars

\* The goroutines are scheduled, and the connector hands over what it has.
FairSpec ==
    /\ Spec
    /\ WF_vars(Listener) /\ WF_vars(Unblock) /\ WF_vars(EventLog)
    /\ \A w \in Workers : WF_vars(Checker(w))
    /\ WF_vars(Stopped) /\ WF_vars(Start)

-----------------------------------------------------------------------------
(* Properties *)

Blocks == [number : Nat, hash : Int, parent : Int, txs : SUBSET (Txs \cup Hashes)]

TypeOK ==
    /\ chain \in Seq(Blocks) /\ final \in Nat /\ mined \in Nat
    /\ setup \in Setups /\ up \in {"up", "stopping", "down"} /\ sessions \in 1..MaxSessions
    /\ Len(bq) <= BlockCap /\ Len(nq) <= NoteCap /\ Len(blocked) <= 1
    /\ pending \subseteq Ids /\ todo \subseteq Ids /\ cur \in Ids \cup {NoId}
    /\ \A o, p \in pending : Key(o) = Key(p) => o = p
    /\ pc \in {"idle", "walk", "blocks", "notes"}
    /\ \A o \in Ids : items[o].blk \in Blocks /\ items[o].applied <= items[o].gen
    /\ \A i \in 1..Len(entries) : items[entries[i]].queued

\* A chain of blocks on top of b.
ChainOn(b, s) ==
    \A i \in 1..Len(s) : /\ s[i].parent = IF i = 1 THEN b.hash ELSE s[i - 1].hash
                         /\ s[i].number = b.number + i

\* An item is confirmed only in a block of the chain that can no longer be
\* reorganised, whatever was lost, late or repeated.
ConfirmedFinal ==
    \A o \in Ids : LET b == told[o].confirmed
                   IN b # NoBlock => Canonical(b) /\ b.number <= final

\* With block details, what the callbacks of an item add up to when it becomes confirmed
\* is a chain of the required confirmations on the very block of the last receipt it was
\* given, whatever forks it was told of before.
ConfirmationsLinked ==
    [][\A o \in Ids : mode = "full" /\ R > 0 /\ ~items[o].confirmed /\ items'[o].confirmed =>
          /\ told'[o].confirmed = items'[o].blk
          /\ ChainOn(told'[o].confirmed, told'[o].list)
          /\ Len(told'[o].list) >= R
          /\ role = "tx" => told'[o].receipt = told'[o].confirmed]_vars

\* A confirmed item keeps the required confirmations (ConfirmationsNotification.Confirmed,
\* api_types.go:435, "marks we've reached the confirmation threshold").
ConfirmedKeepsThreshold ==
    \A o \in Ids : mode = "full" /\ told[o].confirmed # NoBlock => Len(told[o].list) >= R

\* Events are confirmed in the order of their blocks, each once and none left out: an
\* event overtaken by a later one is behind the stream's checkpoint and is thrown away
\* (confirmations.go:787, "we must deliver them in the order on the chain").  Refuted: until the
\* first block is processed a walk has no limit, and a block of an abandoned fork raises it.
ConfirmedInOrder ==
    role = "event" => \A i \in 1..Len(out) : items[out[i]].blk.number = i

\* An event is confirmed for the block it was detected in.  Refuted in light mode, where an
\* event of an abandoned block is moved to the block its transaction is in now.
ConfirmedAsDetected ==
    \A o \in Ids : role = "event" /\ told[o].confirmed # NoBlock => told[o].confirmed = items[o].own

\* The block of hash h has the required confirmations on top of it.
Buried(h) == \E i \in 1..Len(chain) : chain[i].hash = h /\ i + R <= Len(chain)

\* An event whose block has the required confirmations, and keeps them, is confirmed in
\* the end, from the notifications alone.
EventsConfirmed ==
    \A h \in Hashes : role = "event" /\ Buried(h)
                        ~> (~Buried(h) \/ \E i \in 1..Len(out) : Key(out[i]) = h)
=============================================================================
