----------------------- MODULE ConfirmedBlockListener -----------------------
(***************************************************************************)
(* A confirmed block listener: the notification processor and the          *)
(* dispatcher goroutine, which share a view of the chain ahead of the      *)
(* checkpoint, the channel into the event stream's batch loop, and the     *)
(* checkpoint that is saved and given back at the next start.              *)
(*                                                                         *)
(* The node's chain is a sequence of blocks; a block with R blocks on top  *)
(* of it is final.  Everything above may be reorganised.                   *)
(***************************************************************************)
EXTENDS Integers, Sequences, FiniteSets, SequencesExt

CONSTANTS
    R,            \* confirmations.required
    FromBlocks,   \* the fromBlock settings a listener may have
    HeadCap,      \* how many notified blocks wait for the dispatcher (10)
    ChannelCap,   \* capacity of the event stream's batch channel
    MaxBlocks,    \* bound: blocks mined on top of the first, orphans included
    MaxSessions   \* bound: how often the listener is started

Latest == -1    \* fromBlock "latest", or none given
None == -1      \* no checkpoint

ASSUME RAssumption == R \in Nat
ASSUME FromBlocksAssumption == FromBlocks \subseteq Nat \cup {Latest}
ASSUME CapsAssumption == HeadCap \in Nat \ {0} /\ ChannelCap \in Nat \ {0}
ASSUME BlockBoundsAssumption == MaxBlocks \in Nat /\ MaxSessions \in Nat

VARIABLES
    chain,       \* the node's canonical chain, from block 0
    final,       \* the highest block number that can no longer change
    mined,       \* how many blocks were mined: hashes are handed out in order
    notes,       \* newBlockHashes: notifications not yet processed
    setting,     \* the listener's fromBlock setting
    mode,        \* off, running, stopping: its context is cancelled, or
                 \* draining: the batch loop has returned as well
    fromBlock, waiting,    \* fromBlock, waitingForFromBlock
    checkpoint,  \* rollingCheckpoint
    since,       \* blocksSinceCheckpoint
    newHead,     \* newHeadToAdd
    tap,         \* dispatcherTap, a channel of capacity one
    pc,          \* where the dispatcher goroutine is
    last,        \* lastFromNotification
    fetch, got,  \* the number readNextBlock asks for, and the node's answer
    channel,     \* es.batchChannel, which a stop and start leave alone
    acked,       \* the listener's checkpoint in the event stream's memory
    saved,       \* the listener's checkpoint in the store
    consumed,    \* blocks delivered to the application (history)
    dropped,     \* numbers of the blocks a stop threw away (history)
    begins,      \* first numbers of sessions without a stored checkpoint (history)
    sessions     \* how often the listener has been started

chainVars == <<chain, final, mined>>
viewVars  == <<fromBlock, waiting, checkpoint, since, newHead, tap>>
dispVars  == <<pc, last, fetch, got>>
outVars   == <<acked, saved, consumed>>
histVars  == <<dropped, begins>>
runVars   == <<setting, mode, sessions>>
vars == <<chain, final, mined, notes, setting, mode, fromBlock, waiting, checkpoint,
          since, newHead, tap, pc, last, fetch, got, channel, acked, saved,
          consumed, dropped, begins, sessions>>

Block == [number : Nat, hash : Nat, parent : Int]
NoBlock == [number |-> 0, hash |-> 0, parent |-> -1]    \* also the first block

-----------------------------------------------------------------------------
(* The node *)

Top == chain[Len(chain)]

\* A new block on the block of number n; those above it are orphaned. The
\* listener, when there is one, is notified of the new block.
Mine(n) ==
    /\ mined < MaxBlocks
    /\ n >= final
    /\ LET b == [number |-> n + 1, hash |-> mined + 1, parent |-> chain[n + 1].hash]
       IN /\ chain' = Append(SubSeq(chain, 1, n + 1), b)
          /\ notes' = IF mode = "off" THEN notes ELSE Append(notes, b)
    /\ final' = IF n + 1 - R > final THEN n + 1 - R ELSE final
    /\ mined' = mined + 1
    /\ UNCHANGED <<runVars, viewVars, dispVars, channel, outVars, histVars>>

\* Beyond the bound the chain goes on: there is always another notification.
Renotify ==
    /\ mined = MaxBlocks /\ mode # "off" /\ notes = <<>>
    /\ notes' = <<Top>>
    /\ UNCHANGED <<chainVars, runVars, viewVars, dispVars, channel, outVars, histVars>>

-----------------------------------------------------------------------------
(* The notification processor *)

\* As if there were always room.
IgnoredUnlessFull(b) ==
    \/ ~waiting /\ b.number < fromBlock
    \/ checkpoint # None /\ b.number <= checkpoint

\* A block the listener has no use for, or no room for: the dispatcher is not woken.
Ignored(b) ==
    \/ ~waiting /\ b.number < fromBlock
    \/ checkpoint # None /\ b.number <= checkpoint
    \/ Len(newHead) >= HeadCap

\* The last block of the view, with what waits for the dispatcher to add.
View == since \o newHead

\* As if any block would do while there is none.
AddsDirectlyAny(b) ==
    \/ View # <<>> /\ b.number = Last(View).number + 1 /\ b.parent = Last(View).hash
    \/ View = <<>>

\* The block continues the view, or is the next one needed.
AddsDirectly(b) ==
    \/ View # <<>> /\ b.number = Last(View).number + 1 /\ b.parent = Last(View).hash
    \/ View = <<>> /\ (checkpoint = None \/ b.number = checkpoint + 1)

\* A conflicting block cuts the view off and takes its place where it fits.
ReplaceFrom(i, b) ==
    IF i = 1 \/ b.parent = since[i - 1].hash
    THEN Append(SubSeq(since, 1, i - 1), b)
    ELSE SubSeq(since, 1, i - 1)

\* processBlockNotification, under stateLock throughout.
ProcessBlock ==
    /\ mode # "off" /\ notes # <<>>
    /\ notes' = Tail(notes)
    /\ LET b == Head(notes)
       IN /\ waiting' = FALSE
          /\ fromBlock' = IF waiting THEN b.number ELSE fromBlock
          /\ \/ /\ Ignored(b)
                /\ UNCHANGED <<since, newHead, tap>>
             \/ /\ ~Ignored(b) /\ AddsDirectly(b)
                /\ newHead' = Append(newHead, b)
                /\ tap' = TRUE
                /\ UNCHANGED since
             \/ /\ ~Ignored(b) /\ ~AddsDirectly(b)
                /\ \E i \in 1..Len(since) :
                     /\ since[i].number = b.number
                     /\ since' = ReplaceFrom(i, b)
                /\ newHead' = <<>>
                /\ tap' = TRUE
             \/ /\ ~Ignored(b) /\ ~AddsDirectly(b)
                /\ \A i \in 1..Len(since) : since[i].number # b.number
                /\ tap' = TRUE
                /\ UNCHANGED <<since, newHead>>
    /\ UNCHANGED <<chainVars, runVars, checkpoint, dispVars, channel, outVars, histVars>>

\* The block cannot be fetched by its hash: the notification is skipped.
NotificationLost ==
    /\ mode # "off" /\ notes # <<>>
    /\ notes' = Tail(notes)
    /\ UNCHANGED <<chainVars, runVars, viewVars, dispVars, channel, outVars, histVars>>

-----------------------------------------------------------------------------
(* The dispatcher *)

\* As if only a first start reset what the last round did.
DispatchBeginKeeps ==
    /\ pc = "begin"
    /\ pc' = IF waiting THEN "wait" ELSE "read"
    /\ UNCHANGED <<chainVars, notes, runVars, viewVars, last, fetch, got, channel, outVars, histVars>>

\* dispatcher goes round its outer loop.
DispatchBegin ==
    /\ pc = "begin"
    /\ pc' = IF waiting THEN "wait" ELSE "read"
    /\ last' = FALSE
    /\ UNCHANGED <<chainVars, notes, runVars, viewVars, fetch, got, channel, outVars, histVars>>

WaitForTap ==
    /\ pc = "wait" /\ tap
    /\ tap' = FALSE
    /\ pc' = "begin"
    /\ UNCHANGED <<chainVars, notes, runVars, fromBlock, waiting, checkpoint, since,
                   newHead, last, fetch, got, channel, outVars, histVars>>

\* popDispatchedIfAvailable
PopDispatched ==
    /\ newHead # <<>>
    /\ since' = Append(since, Head(newHead))
    /\ newHead' = Tail(newHead)
    /\ last' = TRUE
    /\ pc' = "dispatch"

BlockNumberToFetch ==
    IF since # <<>> THEN Last(since).number + 1
    ELSE IF checkpoint # None /\ checkpoint >= fromBlock THEN checkpoint + 1
    ELSE fromBlock

\* readNextBlock: a notified block, else a query unless the last block was notified.
ReadNextBlock ==
    /\ pc = "read"
    /\ \/ PopDispatched /\ UNCHANGED fetch
       \/ /\ newHead = <<>>
          /\ pc' = IF last THEN "wait" ELSE "query"
          /\ fetch' = BlockNumberToFetch
          /\ UNCHANGED <<since, newHead, last>>
    /\ UNCHANGED <<chainVars, notes, runVars, fromBlock, waiting, checkpoint, tap, got,
                   channel, outVars, histVars>>

\* The query, outside the lock: the node's block, or none of that number yet.
QueryBlock ==
    /\ pc = "query"
    /\ IF fetch < Len(chain)
       THEN got' = chain[fetch + 1] /\ pc' = "attach"
       ELSE got' = got /\ pc' = "wait"
    /\ UNCHANGED <<chainVars, notes, runVars, viewVars, last, fetch, channel, outVars, histVars>>

\* The query fails: it is retried from the start, or given up at a stop.
QueryFail ==
    /\ pc = "query"
    /\ pc' = IF mode = "running" THEN "read" ELSE "wait"
    /\ UNCHANGED <<chainVars, notes, runVars, viewVars, last, fetch, got, channel, outVars, histVars>>

\* As if the view had not to be checked again after the query.
AttachUnchecked ==
    /\ pc = "attach"
    /\ \/ PopDispatched
       \/ /\ newHead = <<>>
          /\ since' = Append(since, got)
          /\ pc' = "dispatch"
          /\ UNCHANGED <<newHead, last>>
    /\ UNCHANGED <<chainVars, notes, runVars, fromBlock, waiting, checkpoint, tap, fetch,
                   got, channel, outVars, histVars>>

\* Back under the lock: a block notified meanwhile goes first, and a block that
\* does not attach costs the view its last block.
AttachBlock ==
    /\ pc = "attach"
    /\ \/ PopDispatched
       \/ /\ newHead = <<>>
          /\ since' = IF since # <<>> /\ Last(since).hash # got.parent
                      THEN Front(since) ELSE Append(since, got)
          /\ pc' = "dispatch"
          /\ UNCHANGED <<newHead, last>>
    /\ UNCHANGED <<chainVars, notes, runVars, fromBlock, waiting, checkpoint, tap, fetch,
                   got, channel, outVars, histVars>>

\* As if the block itself counted as its first confirmation.
EnoughOneShort == since # <<>> /\ Len(since) >= R

Enough == Len(since) > R

\* dispatchAllConfirmed: take the oldest block of the view, move the checkpoint ...
DispatchConfirmed ==
    /\ pc = "dispatch"
    /\ \/ /\ Enough
          /\ got' = Head(since)
          /\ since' = Tail(since)
          /\ checkpoint' = Head(since).number
          /\ begins' = IF checkpoint = None THEN begins \cup {Head(since).number} ELSE begins
          /\ pc' = "send"
       \/ /\ ~Enough
          /\ pc' = "read"
          /\ UNCHANGED <<got, since, checkpoint, begins>>
    /\ UNCHANGED <<chainVars, notes, runVars, fromBlock, waiting, newHead, tap, last, fetch,
                   channel, outVars, dropped>>

\* ... and hand the block to the event stream when there is room ...
SendBlock ==
    /\ pc = "send"
    /\ Len(channel) < ChannelCap
    /\ channel' = Append(channel, got)
    /\ pc' = "dispatch"
    /\ UNCHANGED <<chainVars, notes, runVars, viewVars, last, fetch, got, outVars, histVars>>

\* ... or, when the context is cancelled, drop it and go on.
SendCancelled ==
    /\ pc = "send" /\ mode # "running"
    /\ dropped' = dropped \cup {got.number}
    /\ pc' = "dispatch"
    /\ UNCHANGED <<chainVars, notes, runVars, viewVars, last, fetch, got, channel, outVars, begins>>

-----------------------------------------------------------------------------
(* Start and stop *)

\* startConfirmedBlockListener, with the checkpoint of the store.
Start ==
    /\ mode = "off" /\ sessions < MaxSessions
    /\ mode' = "running" /\ sessions' = sessions + 1
    /\ notes' = <<>>
    /\ checkpoint' = saved
    /\ fromBlock' = IF setting # Latest THEN setting
                    ELSE IF saved # None THEN saved ELSE 0
    /\ waiting' = (setting = Latest /\ saved = None)
    /\ since' = <<>> /\ newHead' = <<>> /\ tap' = FALSE
    /\ pc' = "begin"
    /\ UNCHANGED <<chainVars, setting, last, fetch, got, channel, outVars, histVars>>

\* StopConfirmedBlockListener cancels the context and waits for both goroutines,
\* which go on until their select meets the cancelled context.
StopRequest ==
    /\ mode = "running" /\ sessions < MaxSessions
    /\ mode' = "stopping"
    /\ UNCHANGED <<chainVars, notes, setting, sessions, viewVars, dispVars, channel, outVars, histVars>>

Stopped ==
    /\ mode \in {"stopping", "draining"} /\ pc = "wait"
    /\ mode' = "off" /\ pc' = "done" /\ notes' = <<>>
    /\ UNCHANGED <<chainVars, setting, sessions, viewVars, last, fetch, got, channel, outVars, histVars>>

\* The process dies: the store alone is left.
Crash ==
    /\ mode # "off" /\ sessions < MaxSessions
    /\ mode' = "off" /\ pc' = "done" /\ notes' = <<>>
    /\ channel' = <<>> /\ acked' = None
    /\ UNCHANGED <<chainVars, setting, sessions, viewVars, last, fetch, got, saved, consumed, histVars>>

-----------------------------------------------------------------------------
(* The event stream *)

\* The batch loop takes a block: behind the checkpoint it is a repetition, else
\* the application acknowledges it. A stop does not keep it from either: its
\* selects may prefer the block, and the acknowledgement, to the cancelled context.
Consume ==
    /\ mode \in {"running", "stopping"} /\ channel # <<>>
    /\ channel' = Tail(channel)
    /\ LET b == Head(channel)
       IN IF acked # None /\ b.number <= acked
          THEN UNCHANGED <<acked, consumed>>
          ELSE acked' = b.number /\ consumed' = consumed \cup {b}
    /\ UNCHANGED <<chainVars, notes, runVars, viewVars, dispVars, saved, histVars>>

\* A stop throws away the batch that is being put together or delivered, and
\* the batch loop returns.
BatchCancelled ==
    /\ mode = "stopping" /\ channel # <<>>
    /\ mode' = "draining"
    /\ channel' = Tail(channel)
    /\ dropped' = dropped \cup {Head(channel).number}
    /\ UNCHANGED <<chainVars, notes, setting, sessions, viewVars, dispVars, outVars, begins>>

\* writeCheckpoint, retried until it succeeds or the stream is stopped. It writes
\* the whole record from memory: before the first block is acknowledged after a
\* restart, it drops the checkpoint that was stored.
WriteCheckpoint ==
    /\ mode \in {"running", "stopping"} /\ acked # saved
    /\ saved' = acked
    /\ UNCHANGED <<chainVars, notes, runVars, viewVars, dispVars, channel, acked, consumed, histVars>>

-----------------------------------------------------------------------------
Init ==
    /\ chain = <<NoBlock>> /\ final = 0 - R /\ mined = 0
    /\ notes = <<>>
    /\ setting \in FromBlocks /\ mode = "off" /\ sessions = 0
    /\ fromBlock = 0 /\ waiting = FALSE /\ checkpoint = None
    /\ since = <<>> /\ newHead = <<>> /\ tap = FALSE
    /\ pc = "done" /\ last = FALSE /\ fetch = 0 /\ got = NoBlock
    /\ channel = <<>> /\ acked = None /\ saved = None
    /\ consumed = {} /\ dropped = {} /\ begins = {}

Dispatch == \/ DispatchBegin \/ WaitForTap \/ ReadNextBlock \/ QueryBlock
            \/ AttachBlock \/ DispatchConfirmed \/ SendBlock \/ SendCancelled

Next == \/ \E n \in 0..(Len(chain) - 1) : Mine(n)
        \/ Renotify
        \/ ProcessBlock \/ NotificationLost
        \/ Dispatch \/ QueryFail
        \/ Start \/ StopRequest \/ Stopped \/ Crash
        \/ Consume \/ BatchCancelled \/ WriteCheckpoint

Spec == Init /\ [][Next]_vars

\* The goroutines keep running and their selects are fair, what is retried
\* succeeds in the end, and the chain goes on and is notified.
Fairness ==
    /\ WF_vars(\E n \in 0..(Len(chain) - 1) : Mine(n)) /\ WF_vars(Renotify)
    /\ SF_vars(ProcessBlock)
    /\ WF_vars(Dispatch) /\ SF_vars(QueryBlock)
    /\ WF_vars(Start) /\ SF_vars(Stopped)
    /\ WF_vars(Consume) /\ WF_vars(WriteCheckpoint)

FairSpec == Spec /\ Fairness

-----------------------------------------------------------------------------
(* Properties *)

\* Each block of the sequence is the child of the one before it.
Linked(s) ==
    \A i \in 1..(Len(s) - 1) : /\ s[i + 1].number = s[i].number + 1
                               /\ s[i + 1].parent = s[i].hash

Numbers(blocks) == {b.number : b \in blocks}

\* Every variable has its type.
TypeOK ==
    /\ chain \in Seq(Block) /\ chain # <<>> /\ final \in Int /\ mined \in Nat
    /\ notes \in Seq(Block)
    /\ setting \in FromBlocks /\ sessions \in Nat
    /\ mode \in {"off", "running", "stopping", "draining"}
    /\ fromBlock \in Nat /\ waiting \in BOOLEAN
    /\ checkpoint \in Nat \cup {None}
    /\ since \in Seq(Block) /\ newHead \in Seq(Block) /\ Len(newHead) <= HeadCap
    /\ tap \in BOOLEAN
    /\ pc \in {"done", "begin", "wait", "read", "query", "attach", "dispatch", "send"}
    /\ last \in BOOLEAN /\ fetch \in Nat /\ got \in Block
    /\ channel \in Seq(Block) /\ Len(channel) <= ChannelCap
    /\ acked \in Nat \cup {None} /\ saved \in Nat \cup {None}
    /\ consumed \subseteq Block
    /\ dropped \subseteq Nat /\ begins \subseteq Nat

\* Two goroutines cut the view and add to it, one of them with a block it asked
\* for before it had the lock: the view stays one chain of blocks, linked by
\* number and parent hash, that continues right after the checkpoint.
ViewLinked ==
    /\ Linked(View)
    /\ checkpoint # None /\ View # <<>> => View[1].number = checkpoint + 1

\* Only final blocks are delivered, and they stay what the node has: no block
\* of an abandoned fork ever has R blocks on top of it in the view.
DeliveredFinal ==
    \A b \in consumed : b.number <= final /\ chain[b.number + 1] = b

\* No block is left out between two delivered ones, over lost notifications,
\* reorganisations, crashes and restarts from a checkpoint: only the first block
\* of a session that found no checkpoint in the store, be it that none was written
\* or that it was overwritten, has no predecessor, or a stop dropped it.
NoGap ==
    \A b \in consumed :
        \/ b.number \in begins
        \/ b.number - 1 \in Numbers(consumed) \cup dropped

\* Once it has a checkpoint the listener keeps up with the chain, however many
\* notifications were lost or discarded while it was busy.
KeepsUp == <>[](checkpoint # None => final \in Numbers(consumed))

\* A checkpoint never passes a block that has not been delivered, for it would
\* not be delivered after a restart: no exception for the blocks a stop dropped.
CheckpointComplete ==
    \A b \in consumed :
        b.number <= saved =>
            b.number \in begins \/ b.number - 1 \in Numbers(consumed)

\* A checkpoint that was stored is there for the next start.
CheckpointKept == [][saved # None => saved' # None]_saved

\* A listener with a fromBlock delivers that block first.
StartsAtFromBlock ==
    setting # Latest /\ consumed # {} => setting \in Numbers(consumed)

=============================================================================
