# TLA+ models of the FireFly Transaction Manager

FireFly Transaction Manager (FFTM) sits between FireFly and a blockchain connector. It accepts
transactions over REST, gives them nonces, sends them through the connector, follows them until
they are confirmed, and delivers blockchain events to applications in order with checkpoints.
This directory holds models of its concurrent core, the TLC configurations that check them, and
proofs checked by TLAPS. All paths below are relative to the repository.

## 1. The system

| Component | Source | State | Operations |
|---|---|---|---|
| Simple transaction handler, policy loop | `pkg/txhandler/simple` | in-flight set of `pendingState`, queued API requests, two wake-up channels | submit, suspend / resume / delete / update, policy loop cycle, receipt and confirmation callbacks |
| Transaction event handler | `pkg/fftm/transaction_events_handler.go` | none | turns handler events into confirmation-manager notifications and websocket replies |
| Transaction persistence | `internal/persistence/leveldb`, `internal/persistence/postgres` | rows, pending index, receipts, confirmations, nonces | insert with next nonce, update, delete, list pending |
| Postgres transaction writer | `internal/persistence/postgres/transaction_writer.go` | worker batches, nonce cache | batch, assign nonces, commit or fail as a whole |
| Confirmation manager | `internal/confirmations/confirmations.go` | pending items, chain of confirmations per item | notifications in, receipts and confirmations out, chain walk, reorganisations, light mode |
| Receipt checker | `internal/confirmations/receipt_checker.go` | queue of stale items, generations | worker pool that fetches receipts |
| Confirmed block listener | `internal/confirmations/confirmed_block_listener.go` | view of the chain ahead of the checkpoint | notification processor, dispatcher, start, stop |
| Block listener buffer | `internal/blocklistener` | one blocked update | buffers and discards block notifications |
| Event streams, listeners | `internal/events` | listeners, checkpoints, batch channel, started state | start, stop, event loop, batch loop, checkpoint |
| WebSocket server | `internal/ws` | topics, connections | send batch, acknowledge, broadcast |
| Manager, stream management | `pkg/fftm` | streams and listeners by name | create, update, delete, restore at start |
| REST routes, migration, metrics, configuration, API types, client | several | none of their own | parsing, formatting, copying |

How they interact. An API goroutine inserts a row and marks the in-flight set stale. The policy
loop goroutine polls the store, asks the connector to send, and tells the confirmation manager,
through the event handler, which hash to track. The confirmation manager calls back into the
handler with a receipt and later with confirmations; the loop picks both up in a later cycle,
stores the outcome and announces it. An event stream has an event loop, a batch loop and a
confirmation manager of its own; a block listener's dispatcher feeds the batch loop directly,
and the batch loop saves the checkpoints from which the next start goes on.

What is hard in it: three kinds of goroutine work on one `pendingState`, each with a different
lock; the store, the record in memory and the snapshot in use disagree after a failed write; a
crash leaves only the store; the chain reorganises what was already reported; notifications are
lost, merged or discarded by design and something else must make up for them; stopping races
with everything. The `hazards` of `PROJECT.json` list the places one by one, with the properties
that would notice, or a note where the code fails there or the model does not reach.

What makes each component correct:

* policy loop: the stored outcome is the chain's, replies agree with the store, nobody is left
  out of the in-flight set, everything accepted is resolved;
* confirmation manager: a transaction is confirmed only by a linked chain of the required length
  on its block, and the receipt delivered is that of this block;
* confirmed block listener: every final block once, in order, none of an abandoned fork, over
  restarts from the checkpoint;
* event streams: at least once in order, a checkpoint never passes an undelivered event;
* persistence: nonces of a signer are contiguous and unique, the pending index matches the status;
* stream management: names are unique and a failed operation leaves nothing half done.

## 2. Modules

| Module | Content |
|---|---|
| `PolicyLoop` | the simple transaction handler with the store, the connector, the chain and the confirmation manager as it sees them |
| `TxLifecycle` | the abstract life of a transaction that `PolicyLoop` implements (property `Lifecycle`) |
| `MCPolicyLoop` | `PolicyLoop` for TLC |
| `PolicyLoopProofs` | type correctness; no lost wake-up |
| `PolicyOutcomeProofs` | stored outcomes and replies; the refinement of `TxLifecycle`; one reply; the in-flight set is refilled |
| `ConfirmedBlockListener` | a block listener, the node's chain, the event stream's batch loop and its checkpoint |
| `MCConfirmedBlockListener` | the sets of `fromBlock` settings for TLC |
| `ConfirmedBlockListenerProofs` | type correctness; the view is one chain; delivered blocks are final, none is left out |
| `ConfirmationManager` | the block buffer, the confirmation manager's goroutine and the receipt checker, for transactions or for the events of a stream |
| `ConfirmationManagerProofs` | type correctness; what is confirmed is final, by a chain of confirmations |
| `WebSocketServer` | connections with their two goroutines, one topic, broadcasts and replies |
| `EventStream` | one event stream with its listeners, connector, batch loop, actions and checkpoints; extends `WebSocketServer` and composes the hand-overs between the two |
| `EventStreamProofs` | type correctness; nothing is lost behind a checkpoint; no overtaking |
| `TransactionStore` | what both stores have in common: requests, rows, the node's nonces |
| `TransactionWriter` | the Postgres store: queues, workers, batches, caches, completions and their reader |
| `LevelDBStore` | the LevelDB store: nonce locks, `txMux`, index records, deletes and repair |
| `Persistence` | either store behind its interface, and what callers rely on |
| `PersistenceProofs` | type correctness of both stores; unique nonces, no gaps, no missed completion, true replies |
| `StreamManagement` | the manager's requests on streams and listeners, names, restore at start |
| `StreamManagementProofs` | type correctness; listener names, their index and their streams |
| `StreamRuntimeProofs` | what runs is what is stored; deleted streams are gone; names of streams |
| `MC...` | the instances of these for TLC |

The `map` of `PROJECT.json` gives the source lines of every definition that models code.

### PolicyLoop

* **Submission** (`createManagedTx`): `InsertBegin` takes the sequence number, `InsertCommit` makes
  the row visible. LevelDB holds `txMux` in between (one writer); Postgres has several workers,
  whose transactions commit in any order. Then the history write, which may fail, and the two
  sends of `markInflightStale` as two steps.
* **API requests** (`policyEngineAPIRequest`): queue and wake, then make the response channel, then
  wait or give up. The loop's answer is the step `Respond`.
* **The loop**: `BeginCycle` drains the wake-up, the stale marker and the request queue;
  `ExecRequest` and `ExecInflight` run `pendingToRunContext` (the writes of receipt and
  confirmations, each of which may fail); `ExecStatus`, `ExecNotDue`, `ProcessNoSend`,
  `ProcessSend`, `ProcessPanic` are the rest of `execPolicy` and `processTransaction`;
  `FlushUpdate`, `FlushDelete`, `FlushFail`, `FlushNone` and `Emit` are `flushChanges`. Between these steps
  callbacks, submissions and crashes happen.
* **Callbacks**: `BcmReceipt`, `BcmConfirmations`, `BcmConfirm` call the handler's two callbacks, which ignore a
  transaction that is not in flight at that moment. `ChainTrackingMode` decides what they count (`Counted`): in full mode a transaction that changes its block
  is reported with a new receipt before it is confirmed; in light mode it need not be, because the receipt looked up for the last
  confirmation only moves the item (`confirmations.go:967-972`), unless there is none at that moment (`BcmReceiptGone`).
* **Environment**: `Mine` and `Reorg`, the connector's answers (`Sends`: accepted, known, nonce
  too low, error, error after the node took it), `Restart`.

A transaction is reduced to what decides its fate: status, hash, whether it was ever submitted,
deletion mark, receipt outcome, membership in the pending index. Gas prices appear only in that
a resend may have another hash. Intervals are abstracted: a resend and the policy interval may
be due or not.

### ConfirmedBlockListener

* **Node**: `chain` is the canonical chain, `Mine(n)` puts a block on block `n` and orphans
  what was above. A block with `R` blocks on top is final; the node never reorganises deeper
  than that, which is what `confirmations.required` stands for.
* **Notification processor**: `ProcessBlock` is `processBlockNotification` under its lock;
  `NotificationLost` is a block that cannot be fetched by hash.
* **Dispatcher**: one action per stretch between two lock operations or channel operations:
  `DispatchBegin`, `WaitForTap`, `ReadNextBlock`, `QueryBlock` or `QueryFail` outside the lock,
  `AttachBlock` back under it, `DispatchConfirmed`, `SendBlock` or, cancelled, `SendCancelled`.
* **Event stream**: `Consume` is the batch loop's filter and the acknowledged delivery of one
  block (batches of size one), `BatchCancelled` the batch a stop throws away, `WriteCheckpoint`
  the stored checkpoint. `acked` (memory) and `saved` (store) are distinct, as `l.checkpoint`
  and the checkpoint row are: a start reads the row for the listener but leaves the memory alone.
* **Life cycle**: `Start`, `StopRequest`, `Stopped`, `Crash`. The batch channel survives a stop
  and a start, not a crash.

### ConfirmationManager

* **Node**: `Mine` puts a block on any block that is not final; transactions move to other blocks,
  and every block holds one event, in light mode of a transaction that may have been in an abandoned block
  before (`NewTxs`). Queries may fail, and an orphan may be unknown to the node.
* **Buffer** (`blocklistener.BufferChannel`): `Buffer` passes a block event on, holds it, or discards it and
  marks a gap; `Unblock` hands on the one held.
* **The goroutine** (`confirmationsListener`): `ReceiveBlock` or `ReceiveNotification`, then the phases
  of one iteration: the walk after a gap (`TakeItem`, one step per query `WalkChainForItem` or
  `WalkFails`, `EndWalk`), `ProcessBlock` or `BlockLost` per notified block, in light mode
  `BlockHeightConfirmations`, then `ProcessNotification` per notification, whose new events are walked too,
  and `ScheduleReceiptChecks`. The walk's view (`blockState`) is kept for the whole iteration, as in the code.
* **Receipt checker**: `WaitNext`, `CheckReceipt` or `CheckFails`, `NotifyReceipt` per worker, with
  the generation read before the query and compared when the receipt is applied.
* **Clients**: `Track`, `Untrack` for transactions, `EventLog`, `Removals`, `RemoveListener` for a stream; `told`
  and `out` record what the callbacks were given.

An item is identified by its key and the number of its `pendingItem`, because replacing or removing
an item leaves the old one with the workers that hold it. An event gets an item no check refers to (`AddEvent`).
In light mode its key changes with its block (`KeyNow`), and an error puts a new event off with all notifications behind it (`HeightError`).

### WebSocketServer and EventStream

* **Connections**: the reader (`ListenTopic`, `ListenReplies`, `Ack`, `ClientError`, `ReadFails`) and the
  sender (`SenderWrites`, `SenderCloses`) of each; `Close` tells the topic through `CycleTopic`;
  `FanTakes` and `FanOut` are the broadcast and reply goroutines.
* **Stream life cycle**: `Start` with its three outcomes, `RequestStop`, `NotifyStopped`, `FinishStop`; an
  administrative request (`Begin`) is a start, stop, update, delete, or the addition, removal or reset
  of a listener, made of these and `ResetCheckpoint`, `AddListener`, `StartListener`, `StopListener`.
* **Pipeline**: the connector (`Detect`, `Reorganise`), `EventLoop`, `Confirm` and `Push` into the batch
  channel. The confirmation manager is reduced to what `ConfirmationManager` shows: it confirms the events of a listener in order (but see `ConfirmOvertaken` in section 3).
  Requests on listeners are served one at a time (`listenersAdminMux`), the others may overlap.
* **Batch loop**: `PollEvent`, `PollTimeout`, `PollStopped`; the action (`Post`; `SendBatch` and
  `WaitForAck`; `Broadcast`), `RetryAction`, `GiveUp`; `GenerateCheckpoint` with `QueryHWM` and, separately, `ApplyHWM`;
  `WriteCheckpoint`.

A position in the chain stands for block, transaction and log index. `dropped`, `skipped` and `gone` are history:
events a stop took out of the pipeline, events given up by error handling, events a reorganisation removed.

### TransactionStore, TransactionWriter, LevelDBStore, Persistence

* **Postgres**: `QueueInsert` and `QueueWrite` put operations into a worker's bounded queue, by the hash of signer or
  transaction; a caller may give up. `Collect` and `BatchTimeout` make a batch. `Prepare` is the duplicate check and
  the nonces, `WriteBatch` the writes and the lock on the completions, `Commit` or `CommitFails`, then
  `Notify` and `Finish`, which answers the callers or clears the cached nonces. A batch's effect
  (`TablesAfter`, `RowAfter`, `ConfirmationsAfter`, `HistoryAfter`, `Compressed`) is written as the code
  groups it: `BatchIsOneByOne` compares it with the operations in the order they were queued.
* **Completions**: `ListTxCompletions` and `WaitTxCompletionUpdates` by a reader that polls by sequence number.
* **LevelDB**: `BeginInsert`, `AssignAndLockNonce`, `CalcNextNonce`, `CleanupOrphans`, `CalcNextNonceFromTxs`, `WriteTransaction`
  (which may stop after the index records), `Complete`; a batch insert holds `txMux` over all of it. The last
  nonce is the one in the transaction record that the newest usable index key leads to, not the one in the key. `DeleteTransaction`
  then `DeleteIndex` without it; `ListByNonce` and `ListCleansUp` are the repair with the lock dropped in between.
* **Both**: `Submit` is the node taking the next nonce, `Crash` loses everything in memory.

### StreamManagement

One action per stretch of a request between two lock or database operations. A stream request is
interleaved with any other; a listener request holds `listenersAdminMux` from its first step (`Lock`) to its
last, as the code does. `WriteNewStream`, `WriteStream`, `WriteListener` and the deletes may fail; `Restart` cuts
every request off and restores from the store. `astray` marks a stream whose updates or deletes
overlapped, failed or were cut off: the code makes no promise about its name afterwards (see below), and the properties about
the run state of streams exempt it. `StreamNamesUnique` is stated while there is no such stream at all: two overlapping updates
both release the old name, the second one from another stream that has taken it since, so streams that never strayed may come to share a name
(TLC finds this with three streams and four requests). The properties about listeners exempt nothing.

## 3. What the runs check

| Run | Instance | Result |
|---|---|---|
| `PolicySafety` | full mode, one transaction, one Suspend, LevelDB, failing writes, one crash, one reorganisation | `OutcomeMatchesChain`, `ReceiptStored`, `RepliesReportStore`, refinement `Lifecycle` hold |
| `PolicySuccess` | full mode, one transaction, all four actions, Postgres, every fault, one crash, one reorganisation | `SuccessIsFinal`, `StaleWakesLoop`, `OneReply` hold |
| `PolicyRefill` | three transactions, two slots, LevelDB with its one writer, one crash | `NoneLeftBehind` holds |
| `PolicyLiveness` | light mode, two transactions, one slot, two Postgres writers, one reorganisation, fair | `Resolves` holds, no deadlock |
| `CblDelivery` | `R = 1`, from latest or block 0, four blocks, two sessions, fair | `ViewLinked`, `DeliveredFinal`, `NoGap`, `KeepsUp` hold |
| `ConfirmSafety` | `R = 1`, a transaction or the events of a stream, each in full or light mode, two receipt workers, every fault, three blocks, two sessions | `ConfirmedFinal`, `ConfirmationsLinked` hold |
| `ConfirmLiveness` | `R = 2`, events in full mode, five blocks, fair | `EventsConfirmed` holds |
| `StreamDelivery` | seven configurations of a stream, one or two listeners, three positions, one or two requests, failures, crashes or disconnections, fair | `NothingLost`, `NoOvertaking`, `EventsDelivered` hold |
| `StoreSafety` | three configurations of the Postgres store with two workers, two of LevelDB, up to three requests, two troubles, fair | `NonceUnique`, `NoNonceGap`, `RepliesTrue`, `CompletionsNotMissed`, `BatchIsOneByOne`, `ReaderCatchesUp`, `InsertsAnswered` hold |
| `StreamAdmin` | two streams, two listeners, two names, three racing requests, two failures or restarts | `ListenerNamesUnique`, `ListenerIndexed`, `NoOrphanListeners`, `StreamNamesUnique`, `RuntimeMatchesStore`, `DeletedIsGone` hold |
| `StopLosesBatch` | one listener with confirmations, one trouble | violates `DiscardedWereDelivered` |
| `ConfirmOvertaken` | `R = 1`, events in full mode, no fault, three blocks | violates `ConfirmedInOrder` |

`StopLosesBatch` is a disagreement between the code and its comment, quoted in `findings`: a stop throws
away the batch under assembly, an event behind it stays in the batch channel, and in the next session that
later event is delivered first; the earlier ones, detected again, are discarded as "already delivered".
`NothingLost` and `NoOvertaking` therefore exempt what a stop took out of the pipeline (`dropped`).

`ConfirmOvertaken` is one too. Until the first block has been processed the walk for a new event has no limit (`confirmations.go:862`,
`highestBlockSeen > 0 &&`), and `eventstream.go:804-842` hands events over as they come. The event of block 1 is walked while block 1
is the head; blocks 2 and 3 are mined; the event of block 2 is walked next and confirmed by block 3, before the event of block 1, which
waits for the block notifications. The comments at lines 787 and 815 promise the order of the chain, and the stream discards the earlier
event as behind its checkpoint. With `R >= 3` (`R = 3`, eight blocks) a fork does it later on as well: the limit is the highest block processed,
whatever fork that was on (641). Blocks 1 to 5 are mined; 3, 4 and 5 are replaced by 3', 4' and 5' while the manager has only
processed up to 3. The event of block 1 is walked and finds 2 and 3'. Blocks 4 and 5, still queued, attach to nothing but raise the limit to 5; the event
of block 2 is walked next, finds 3', 4' and 5' and is confirmed before the event of block 1, which waits for the notification of 4'.
`EventStream` takes the confirmations of a listener in order, so what it shows is for streams this does not happen to.

The same modules refute further variants, which have no run of their own; the change against
a run's configuration is given for each.

Policy loop:

* `LoopNeverHangs` with one request: `policyEngineAPIRequest` queues the request and wakes the loop before it makes the
  response channel (`policyloop.go:495-498`); the loop may answer on the nil channel and blocks for ever.
* `OutcomeMatchesChain` with `Actions = {"Suspend", "Resume"}`, two requests, Postgres: a suspended transaction leaves
  the in-flight set while the confirmation manager keeps its hash. When the receipt was delivered before and
  the final confirmation arrives after Resume, the new record has no receipt and a successful transaction is
  stored as Failed (`policyloop.go:354`; the comment at 551 promises the receipt before the confirmation).
* `OutcomeMatchesChain` with `ChainTrackingMode = "light"`: the receipt of a block that is then abandoned is delivered as a success; the transaction is mined again,
  fails there, and the check before the last confirmation moves the item to that block without a receipt callback (`confirmations.go:967-972`), although
  it is made "to ensure the transaction receipt is still valid" (946). The next head confirms it, and Succeeded is stored. So `OutcomeMatchesChain`, `ReceiptStored` and
  what `SuccessIsFinal` says of the receipt are claims about full mode.
* `Resolves` with `Hashes = {1, 2}`: a resend with a new hash stops tracking the old one (`policyloop.go:397`), which the
  node may mine; the transaction is never resolved.
* `NoneLeftBehind` with `Actions = {"Suspend", "Resume"}`, two requests, LevelDB: the resumed row
  has lost its pending index entry (`leveldb_persistence.go:700-710`) and is never polled again.
* `NoneLeftBehind` with `Writers = 2`, Postgres, `MaxInFlight = 2`: a row that commits out of
  sequence order is behind the tail of the in-flight set and waits until the set is empty. The same
  happens to a resumed Postgres row (two transactions, `Actions = {"Suspend", "Resume"}`).
* `NoneLeftBehind` with `Faults = {"history"}`: an insert whose history write fails is stored but
  not announced.
* `NoneLeftBehind` with `Faults = {"write"}` and one crash: a resolution that fails half-way has removed the LevelDB
  pending key and leaves the row pending; after a restart nobody looks for it.
* `pc # "panic"` with `Actions = {"Update"}`: an Update of a submitted transaction outside the
  in-flight set reads policy information that is nil (`simple_transaction_handler.go:484`).
* `OutcomeMatchesChain` with `Actions = {"Update"}`: an Update sends the transaction from a
  temporary record; the receipt arrives before the transaction is in flight and is lost, and the
  confirmation alone stores Failed.
* At most one completion with `Actions = {"Suspend"}`: a record that is completed while a request is processed
  is executed and announced again later in the same cycle, before the set is rebuilt. `OneReply` is therefore about transactions
  that are at most asked to be deleted.

Confirmed block listener:

* `CheckpointComplete`, from latest: when the stream stops, the `select` at `confirmed_block_listener.go:378` can drop block k
  and hand over block k+1, whose checkpoint makes the next start skip k.
* `StartsAtFromBlock`, from block 0: without a checkpoint any notification that precedes the answer to the
  first query becomes the first block of the stream (`confirmed_block_listener.go:215`).

Confirmation manager:

* `ConfirmedKeepsThreshold` with a transaction in full mode (`Setups <- TxFull`), `R = 2`, one worker, four blocks, `Faults = {"timeout"}`, one session: a receipt
  check that is in flight when its transaction is confirmed and removed is applied all the same (`confirmations.go:550` looks at the generation only), and sends a
  second notification marked Confirmed with whatever confirmations its own walk found. When blocks above the final one have just been
  reorganised these are fewer than required, and the consumer replaces its complete list by them, while `api_types.go:435` says "Confirmed
  marks we've reached the confirmation threshold". `ConfirmationsLinked` is therefore about the moment an item becomes confirmed.
* `ConfirmedInOrder` with `Faults = {"gap"}`, `BlockCap = 1`: after a gap, blocks the manager has not been notified of are beyond
  the view of a walk (`confirmations.go:862`), while a block event that comes later confirms a later event directly. The comment at
  `confirmations.go:787` wants them "in the order on the chain"; the stream then discards the earlier event as behind its checkpoint.
* `ConfirmedAsDetected` with events in light mode (`Setups <- EventLight`), `R = 1`, four blocks, no fault: when the transaction of an event is
  mined again in another block, the event detected in the abandoned one is moved there (`confirmations.go:967-972`) and confirmed, beside
  the event the connector detects in the new block. The comment at 179-180 says of block and hash "If any of those change, it's a new new event".
* `EventsConfirmed` with the same setup: an event of an abandoned block whose transaction is not mined again has no receipt, so processing
  it fails each time it is tried, and it stays first among the notifications (526-531): the events behind it are never confirmed.

Event stream:

* `StopEnds`: the pushes into the batch channel (`eventstream.go:819`, `832`) have no alternative on the
  context. Once the batch loop has ended with the channel full, the event loop never ends and `Stop` waits for ever.
* `NothingLost` for `onError = "skip"`: the error of a delivery that a stop interrupts is swallowed too (`eventstream.go:1122`), so an
  undelivered batch is checkpointed.

Stores:

* `InsertsAnswered` with single and batch inserts in one LevelDB setup: the batch holds `txMux` and waits for the nonce
  lock, whose holder waits for `txMux` (`leveldb_persistence.go:513-541`, `nonces.go:84`).
* `IndexComplete`, LevelDB: `DeleteTransaction` (724-736) and the cleanup of a listing (386-389) delete a key found
  earlier; an insert may have used the key since, and loses its index record. `NonceUnique` exempts
  such a nonce, and for LevelDB one whose submitted transaction was deleted: a fresh lower record is trusted without asking the node (`nonces.go:133`).

Stream management:

* `RestoreSucceeds`: `DeleteStream` releases the name (`stream_management.go:146`) before the record is deleted; another stream takes it,
  and a crash leaves two records with one name, on which `restoreStreams` fails for good.
* `StreamNamesUnique`, `RuntimeMatchesStore` and `DeletedIsGone` without the exemption `astray`: two overlapping updates leave a stored name
  unindexed (184-187); a failed rename releases a name that the running stream has (180-183); an update that
  overlaps a delete writes the record back (437); a delete repeated after a failure no longer knows the running stream and leaves it running (143-158).

### Bounds and why they are enough

`PolicyLoop` is bounded by its sets of transactions and requests and by `MaxCrashes` and
`MaxReorgs`. A transaction's outcome depends on its own row, record and hashes; transactions meet
only in the slots and the wake-up channels. So outcome properties are checked with one transaction
and as many faults as TLC's time allows; the refill with three transactions and two slots, so that one waits for a set
that is neither empty nor full; liveness with two transactions and one slot, where
one always waits for the other. One crash puts a restart between any two steps; one
reorganisation makes a delivered receipt stale. `Outcomes` drops failing transactions from the runs about slots, which do not look at the outcome. A resend under a second hash
is in the theorems (`OutcomeCorrect`, any set of hashes), not in a run, which with faults would have eight million states.
`QueueLength = 2` is the smallest queue that holds the two events of a hash change.

In `ConfirmedBlockListener`, `R = 1` is the least that has a confirmed block with an unconfirmed
one on top. `MaxBlocks = 4` counts orphans: it allows two competing forks of two blocks, or three
blocks in a row and one orphan, so the view is cut, replaced and trimmed, and two blocks can be confirmed in
one round. `HeadCap = 2` stands for the ten of the code, so that it is reached; `ChannelCap = 1` makes
the send block. Two sessions have one stop or crash with a restart. When the bound on blocks is reached
`Renotify` repeats the head, which stands for the chain going on.

In `ConfirmationManager`, three blocks with `R = 1` allow a receipt in a block that is orphaned, its
successor, and a confirmation on top; capacities of one fill both channels; two workers make receipt
checks overlap. With one confirmation no list is ever extended or
replaced; that this is right for every `R` is a theorem (`LinkedCorrect`, section 4), and TLC agrees for `R = 2` (full mode, one worker, four blocks, two checks). `ConfirmLiveness` is about events, which need neither workers nor faults, and has `R = 2` and five blocks:
two forks over two events, so that confirmations are extended and replaced.

In `EventStream`, two events of one listener with an empty position between them are the least that
can be overtaken, and that a high water mark can pass. Batches of one event and a channel of one
make every hand-over block; one configuration has batches of two. One trouble (administrative
request, failing call, crash, disconnection, client error), for a block listener two, is placed at every step; starting
again is free.

In `StoreSafety` each configuration asks one question: nonces under failing batches and a repeated request, what a batch does, completions of
two workers, single inserts with a delete, batch inserts. Batches and queues hold two operations, so a
third waits. Whether a history is compressed, which depends on the clock, is a free choice.

`StreamAdmin` starts from stores that exist; three requests are two that race and one that meets what
they leave behind; two troubles are a failure and a restart.

Deadlock is not checked where the bounds let the system run out of things to do: all blocks
mined and delivered, or every request used.

### Fairness

`PolicyLoop`: weak fairness of the loop goroutine (its ticker wakes it however the channels look), of
the submitting goroutine, of the confirmation manager's goroutines, and of mining what stays in
the pool. No fairness for faults, API requests, crashes and reorganisations. Only the loop as a
whole is fair: a resend may always be chosen instead of waiting, which the policy allows.

`ConfirmedBlockListener`: weak fairness of the dispatcher, the batch loop and the checkpoint write,
which are goroutines that always have a next step. Strong fairness where the code retries or a
`select` chooses among ready cases: `QueryBlock` (the query is retried until it succeeds),
`ProcessBlock` (not every notified block is lost), `Stopped` (a cancelled context is
eventually chosen). Mining and `Renotify` are fair because the chain goes on. `KeepsUp` is about
a listener that has a checkpoint: before, a `latest` listener may not have been told of any block.

`ConfirmationManager`: weak fairness of its goroutines. The chain is not fair: `EventsConfirmed` is about blocks that have
been buried and notified.

`EventStream`: weak fairness of every goroutine. Strong fairness of `PollEvent`, which a `select` with a timer
would otherwise postpone for ever, and of the answers of an endpoint or client that keeps being asked.
`EventsDelivered` is about streams that stay up with a client; without the connector reporting its last detection it is limited
to runs without trouble, because a high water mark then passes events in flight (`eventstream.go:1178-1181`).

`Persistence`: weak fairness of workers, reader, shutdown and of a queueing request; strong fairness of a LevelDB
insert, which competes for locks that Go hands out in turn. None for deletes, evictions, failures and crashes.

`StreamManagement` has safety properties only.

## 4. What is proved

TLAPS checks the following for every value of the constants that the named `ASSUME`s allow; no bound of
a run enters.

**`PolicyLoopProofs!TypeCorrect`** (`TypeOK`). Inductive invariant `TypeInv = TypeOK /\ RunOK`.
`RunOK` is needed because the types of what an execution writes depend on where the loop is: in
the phases of an execution its transaction exists, requests that were queued name a transaction,
and a completion event is made only of a resolved or deleted one.

**`PolicyLoopProofs!WakeCorrect`** (`StaleWakesLoop`). A stale marker is always accompanied by a wake-up or by the
goroutine about to send it; inductive by itself given the types.

**`PolicyOutcomeProofs`**, any number of transactions, hashes, requests, slots, crashes and reorganisations, in layers of which each uses those before.

* `SuccessCorrect` (`SuccessIsFinal`), in both tracking modes, without any hypothesis beyond the assumptions of `PolicyLoop`. In light mode it says that the transaction is final, in full mode also that
  its receipt is the right one. The property is far from inductive:
  `SuccessInv = TypeInv /\ ChainOK /\ DataInv /\ DecisionSound`. A decision is made by a snapshot,
  so `DecisionSound` says that a snapshot that is confirmed holds a final, stored receipt, and that
  a status about to be flushed as Succeeded rests on one. That needs `RecordsCurrent` (a record holds no receipt but
  the last one delivered), which needs `ReportsCurrent` (in full mode, what the confirmation manager last
  reported is what the chain has; a reorganisation takes it back) and `SubmittingUnknown` (no
  record of a transaction whose insert has not committed).
* `OutcomeCorrect` (`OutcomeMatchesChain`), `ReceiptCorrect` (`ReceiptStored`, LevelDB) and `RepliesCorrect` (`RepliesReportStore`), under
  `OutcomeCond`: the tracking mode is full, requests are Suspend and Delete, and a Delete meets no failing write. All three parts are needed: light mode is refuted in section 3; with Resume or Update a receipt
  passes by while the transaction is not in flight (section 3); and a delete that fails leaves its temporary record's hash
  tracked, with the same effect. `SuccessInv /\ PlanInv /\ TrackInv /\ OutcomeInv` is inductive. `PlanInv` says what a planned write of the loop is allowed to be, given
  the record it was planned from, and that the pending index lists no resolved row. `TrackInv` says that no receipt passes an in-flight record by and none is confirmed without one
  (`Informed`), which needs that no hash is tracked of a transaction that may yet join the set (`Untracked`). `OutcomeInv` adds that a decision to store
  Failed rests on a final failure (`DecisionMatches`), and that a completion event is handed out only after what it tells of is stored (`Announced`).
* `LifecycleCorrect` (`Lifecycle`), under the same condition: initial states map to initial states, and with the invariant above every step of `PolicyLoop` maps to a step of
  `TxLifecycle` or to a stutter. One request drain refuses a set of requests at once, so the abstract `Refuse` takes a set.
* `OneReplyCorrect` (`OneReply`), under `ReplyCond` (the only request is Delete; Suspend and Update are refuted in section 3). `PhaseInv` says which part of
  a cycle may execute what, and that a refresh comes between the requests and the in-flight set. `Over`: a transaction that was announced, or is about to be, is no longer listed,
  and if it is still in flight it is marked for removal and will not be executed before the set is rebuilt.
* `RefillCorrect` (`NoneLeftBehind`), under `RefillCond`: one writer, no failing write or history write, no Resume; without each of these TLC refutes the property.
  The set is refilled from its tail, so what is left out must come after what is in it (`Younger`), which holds because
  one writer commits in sequence order (`SeqOrder`); and whoever is listed but not in flight when there is room has been noticed (`Noticed`). That a poll with a limit takes
  the lowest sequence numbers is proved by cardinality.

**`ConfirmedBlockListenerProofs!TypeCorrect`** (`TypeOK`), including the capacities of the pending
notified blocks and of the batch channel.

**`ConfirmedBlockListenerProofs!ViewCorrect`** (`ViewLinked`). Inductive invariant
`Inv = TypeOK /\ HashInv /\ ViewLinked /\ LoopInv /\ OutInv`. `AttachBlock` compares only hashes, so
`HashInv` is needed: equal hashes mean equal blocks, and a parent hash determines the parent's number,
wherever a block is held. `LoopInv` gives the number the dispatcher is asking for while the view
is empty, and that nothing is read while the listener waits for its first block. `OutInv` keeps what
is handed on at or above the setting, so that after a restart the checkpoint is not below
`fromBlock`. The conjunction was checked with TLC first.

**`ConfirmedBlockListenerProofs!DeliveredCorrect`** (`DeliveredFinal`). The dispatcher counts blocks of its own view, which may be of a dead fork, so
the argument is about all blocks ever mined: `FinalInv` says that there is a tree of them by hash (`Tree`) to which every
block held anywhere belongs, and that in this tree any block that ever had `R` blocks on top is final (`Buried`), whatever branch
it is on. A view of more than `R` blocks is such a path by `ViewLinked`. `Buried` is kept by `Mine` because a new block lies at most `R`
above the final one, and a path through it that ends at the chain is the chain.

**`ConfirmedBlockListenerProofs!GapsCorrect`** (`NoGap`). `FlowInv` follows the blocks through channel, batch loop and checkpoint:
ahead of the acknowledged checkpoint every block in the channel has its predecessor before it in the channel, delivered or dropped;
what is behind may repeat, which a restart from an older saved checkpoint causes; and the dispatcher's own checkpoint is a block
that was handed on.

Both from the assumptions of the module only: `R`, the capacities and the numbers of blocks and sessions are arbitrary.

**`ConfirmationManagerProofs`**, from `RAssumption`, `SetupsAssumption`, `CapsAssumption` and `BoundsAssumption` (types of the constants; all four pairs of role and mode):
any number of transactions, workers, blocks, sessions and all faults. The invariant is `IInv = \E B : Inv(B)`, where `B` is the set of all blocks mined so
far, orphans included.

* Chain: `ChainOK`, `Tree(B)` (hashes identify blocks, no number is more than `R` above the final one) and `Settled(B)`: whatever
  branch it is on, a block that ever had `R` blocks on top of it is final. It is what makes a confirmation by hashes alone sound, and the bound
  on numbers what makes light mode, which only counts heights, sound.
* Data: `Held(B)` and `Shape` say that queues, caches, items and workers hold blocks of `B`, of the right kind for the role.
* Receipts: `QueryOK` (an item is with one worker at a time, and each check has a generation of its own) and `ArrivalsOK`: receipts on their way were
  fetched in the order of their generations, so while the block of one is on the chain, every later one names the same block. Without it a
  receipt applied late could move a confirmed item.
* Items: `FreshOK` (an item still to be added is untouched and is named once) and `ItemsOK`: the confirmations of an item are a chain on its block, what
  it was notified of is one linked chain equal to what its callbacks add up to, and what is confirmed is final.
* Loop: `LoopOK`, the item being walked has a block.

`TypeCorrect` (`TypeOK`) and `FinalCorrect` (`ConfirmedFinal`) follow from `IInv`. `LinkedCorrect` (`ConfirmationsLinked`) is an action property: each
action that can confirm an item is shown to leave it with a chain of at least `R` blocks on its block. Where `NewFork` finds no difference, the hashes
of the new confirmations and of the notified ones agree position by position, so what the callbacks add up to is still one chain, which
is what needs `ItemsOK` to keep the notified list linked.

**`StreamManagementProofs`**, from `ManagementAssumption` (names are not `None`; the store a manager starts with is well-formed).
The invariant is `Typed /\ OrphanInv /\ ListenerInv`.

* `TypeCorrect` (`ManagementTypeOK`), with the fact that `listenersAdminMux` is held by the listener request in progress and by nobody else.
* `ListenersHaveStreams` (`NoOrphanListeners`). `OrphanInv` follows a stream from its creation to its delete: a stream in the map that
  clients know is stored (`StoredOK`), the holder of the mutex works on a stored stream (`HolderOK`), and a delete has taken the stream
  out of the map before it deletes listeners, so that once it holds the mutex nobody can add one (`DeletesOK`).
* `ListenerNamesCorrect` (`ListenerNamesUnique`) and `ListenerIndexCorrect` (`ListenerIndexed`). `IndexOK` says how index and store may differ while
  a request holds the mutex: only in the name it reserved before its write (`ReservedOK`), only in the old name after it (`WrittenOK`).

**`StreamRuntimeProofs`** adds `RunInv /\ NameInv /\ ListenersRunOK` to that invariant. Stream requests hold no mutex between their steps, so the
argument goes by stream: one that is not astray has one request at a time (`StreamOK`), of which `PhaseOK` says what it has made of the
runtime stream and of the record so far; without a request it runs as stored or is gone, and a deleted one stays gone.

* `RuntimeCorrect` (`RuntimeMatchesStore`): also that a listener at run time is the stored one, except between its write and `Apply`, or
  between its removal and its record's (`ListenersRunOK`).
* `DeletedCorrect` (`DeletedIsGone`).
* `StreamNamesCorrect` (`StreamNamesUnique`): while nothing is astray the stored name of a stream in the map is indexed for it, and so is the
  new name from its reservation to the release of the old one (`NamedOK`). One overlapping or failed update on any stream breaks
  this for others, which is why the property is about `astray = {}` and not about single streams.

**`PersistenceProofs`**, for both stores: any number of workers, signers, transactions and requests, every batch size, any number of
failures, evictions and crashes. Assumptions: `SetupsAssumption`, `WriterAssumption` and `RequestAssumption` (shapes; `NoWorker` and
`NoRequest` are not workers or requests). The invariant is `StoreInv = ShapeOK /\ CompletionsOK /\ PostgresInv /\ LevelDBInv`.

* `TypeCorrect` (`PersistenceTypeOK`): also the capacity of work queues and batches.
* `NoncesCorrect` (`NonceUnique`). Postgres: the inserts of a signer all go to one worker (`RoutedOK`), so that between `Prepare` and the commit
  nobody else gives out its nonces; a cached nonce and the nonces of a batch in flight are beyond all that are stored or taken by the
  node (`Beyond`), and the cache is the batch's first nonce plus its inserts (`NoncesOK`). An update changes no nonce because what it updates is still stored
  (`UpdatedExist`), which holds because a handler awaits one update or delete at a time (`OneAwaited`). LevelDB: who has locked the
  nonce of a signer is alone with it, its nonce is above every stored one and every index record (`InsertOK`), and the index is complete
  but for the records in `lost` (`LdbIndexOK`).
* `GapsCorrect` (`NoNonceGap`). A cached nonce has every nonce below it in use (`Covered`), except while the batch it was reserved for has not
  ended (`Reserved`): a failed batch clears the cache before another one reads it.
* `CompletionsCorrect` (`CompletionsNotMissed`). The batch that holds the table lock has numbers above all that are committed (`CompletionsOK`).
* `RepliesCorrect` (`RepliesTrue`), from a further invariant, `RepliesInv`. Every place in a request has one insert, queued or in a batch, that has
  not been answered, or an answer; every stored transaction has a place that vouches for it, answered as inserted or about to be; two places are
  answered as inserted for one transaction only if it was deleted in between. A LevelDB request has answered what comes before its current transaction and nothing after it.

That the nonces of a batch are distinct and contiguous is a fact about ranks in a finite set (`BeforeRank`), proved by cardinality; the
highest stored nonce exists because the stored nonces of a signer are bounded (`Largest`, by well-foundedness).

**`EventStreamProofs`**, from `SetupsAssumption`, `LogsAssumption`, `MaxPosAssumption` and `WsAssumption` (shapes; finitely many connections): any mode,
batch size, listeners, chain, connections and administrative requests, overlapping ones too, any number of failures, disconnections, reorganisations and restarts.

* `TypeCorrect` (`EventStreamTypeOK`), with `AdminOK`: a request goes through the steps of its operation, and a listener that is being added is new.
* `NothingLostCorrect` (`NothingLost`) and `NoOvertakingCorrect` (`NoOvertaking`) follow from one inductive invariant,
  `TypeInv /\ AdminOK /\ StatusInv /\ NewInv /\ PipeInv /\ BatchInv /\ AckInv /\ OrderInv /\ FlowInv /\ MarkInv`, that goes through the pipeline from its end to its start.
  `BatchInv`: the checkpoints of a batch are those of its events, and one is generated only when its events are settled (delivered, given up, gone or dropped).
  `AckInv`: an acknowledgement that carries the current batch number tells of this batch and no other, wherever it waits; the batch number only grows, so a late one is recognised.
  `OrderInv`: what reached the application, a connection or the batch has nothing missing before it. `FlowInv` says the same of the
  batch channel, the event being pushed, the pending events, `updates` and the position of the connector (`ChannelInv` to `ScanInv`), which is why the batch can be
  filled from the channel. `MarkInv`: everything up to a checkpoint, in memory or stored, and up to a high water mark about to be applied, is settled.
  `PipeInv` (blocks pass neither `updates` nor the confirmation manager, and what was removed is gone), `NewInv` (nothing is on its way for a listener
  that was not added yet) and `StatusInv` (a stopped stream has no batch) carry these over starts, stops and crashes.
* `NothingLost` is about streams that block on errors and wait for their client (`webhook`, `load_balance`). A high water mark can be taken as settled only
  where the connector reports its last detection or the listener is a block listener; elsewhere the code loses events (section 3), so `NothingLost` makes no claim and `NoOvertaking`
  one only while nothing has gone wrong yet.

Only model-checked: liveness (`Resolves`, `KeepsUp`, `EventsConfirmed`, `EventsDelivered`, `ReaderCatchesUp`,
`InsertsAnswered`), which is out of the prover's reach; `BatchIsOneByOne`, whose reference is a fold over the batch, so that a
proof would be an induction over data.

## 5. What is not modelled

In `PolicyLoop`: failing reads of a single transaction; the gas oracle; history and sub-status
records (and so the LevelDB read-modify-write of the history by the submitting goroutine); partial
lists of confirmations; deliveries of the confirmation manager for a hash it has already been told to
remove, and of a receipt fetched before a reorganisation (`confirmations.go:534`); the Postgres writer's queue of receipts, which are
written at once or lost; batch submission, which repeats the single insert.

In `ConfirmedBlockListener`: batches of more than one event; a stop of one listener while its stream
runs (`RemoveListener`); error handling `Skip`; the light tracking mode, which has no block
listeners. A block taken by the batch loop and delivered is one step.

In `ConfirmationManager`: the metrics; several transactions in one manager, which meet only in the queues; event and block items in one
manager, except through `EventStream`.

In `EventStream`: streams whose checkpoints are managed by the API's caller (`eventstream.go:951-1020`), which poll the same channel on a request;
changes of the stream's type. Two administrative requests at a time are in the model and the proofs, but in no run. Timers are free choices. The
maps of the WebSocket server are written without its lock in two places; they are modelled as atomic.

In the stores: inserts with a nonce given by the caller, filtered queries, and for LevelDB receipts, confirmations and history
(`AddSubStatusAction` reads and writes a whole record outside `txMux`, `leveldb_persistence.go:780`); the pending index is in `PolicyLoop`. A failure of `deleteKeys` in the cleanup of
orphaned keys, which the code logs and ignores, does not happen in the model. History rows have
an action only, so counts and times are not checked.

In `StreamManagement`: validation of the options, the reset of a listener (in `EventStream`), the unique
index of the Postgres tables.

REST routes, metrics, configuration, database migration, command line and client hold no state of the protocol.

## 6. Plan

Done: the modules and runs above, and the proofs of section 4.

Every component that is modelled has its types and its main safety properties proved.

Models that could follow: API-managed streams, LevelDB history; runs with two administrative requests at once.
