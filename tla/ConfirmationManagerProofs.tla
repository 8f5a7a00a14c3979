---------------------- MODULE ConfirmationManagerProofs ----------------------
(***************************************************************************)
(* Theorems about ConfirmationManager, for every number of confirmations,  *)
(* transactions, workers and blocks, all capacities and all faults.        *)
(***************************************************************************)
EXTENDS ConfirmationManager, FiniteSetTheorems, SequenceTheorems, WellFoundedInduction, TLAPS

(***************************************************************************)
(* The invariant.  B is the set of blocks mined so far, orphans included.  *)
(***************************************************************************)

TxIds == Txs \X (1..MaxAdds)

\* The items whose receipts are asked for.
CheckIds == IF role = "tx" THEN TxIds ELSE IF mode = "light" THEN Ids ELSE {}

\* A block of the chain that can no longer be reorganised.
Final(b) == b.number <= final /\ Canonical(b)

ChainOK ==
    /\ chain \in Seq(Blocks) /\ chain # <<>> /\ final \in Nat /\ mined \in Nat
    /\ final < Len(chain) /\ mined <= MaxBlocks
    /\ chain[1].hash = 0 /\ chain[1].parent = -1
    /\ \A i \in 1..Len(chain) : chain[i].number = i - 1
    /\ \A i \in 2..Len(chain) : chain[i].parent = chain[i - 1].hash
    /\ \A i, j \in 1..Len(chain) : i # j => chain[i].txs \cap chain[j].txs = {}

Tree(B) ==
    /\ B \subseteq Blocks
    /\ \A b \in B : /\ b.hash \in 0..mined /\ b.parent <= mined /\ b.number <= final + R
                    /\ role = "event" /\ mode = "full" => b.txs = {}
    /\ \A b, c \in B : b.hash = c.hash => b = c
    /\ \A i \in 1..Len(chain) : chain[i] \in B

\* A block with R blocks on top of it, each the child of the one before.
Path(B, p) ==
    /\ p \in [0..R -> B]
    /\ \A i \in 1..R : p[i].parent = p[i - 1].hash

\* Whatever branch it is on, a block that ever had R blocks on top of it is final.
Settled(B) == \A p : Path(B, p) => Final(p[0])

\* What the queues and variables hold.
EventNotes(B) == [type : {"newEvent", "removedEvent"}, blk : {b \in B : b.hash # 0}]
ReceiptNotes(B) == [type : {"receipt"}, item : CheckIds, blk : B, gen : Nat]
TxNotes(B) == [type : {"newTx"}, item : TxIds] \cup [type : {"removedTx"}, tx : Txs] \cup ReceiptNotes(B)
QueueNotes(B) ==
    IF role = "event" THEN EventNotes(B) \cup [type : {"listenerRemoved"}] \cup ReceiptNotes(B) ELSE TxNotes(B)
BlockEvents(B) == [blk : B, gap : BOOLEAN]
Items(B) == [own : B \cup {NoBlock}, blk : B \cup {NoBlock}, confs : Seq(B), notified : Seq(B), confirmed : BOOLEAN, once : BOOLEAN,
             queued : BOOLEAN, gen : Nat, applied : Nat, prev : Int]
Tellings(B) == [receipt : B \cup {NoBlock}, list : Seq(B), confirmed : B \cup {NoBlock}]
WorkerStates(B) == {Idle} \cup [at : {"query"}, item : CheckIds, gen : Nat]
                     \cup [at : {"notify"}, item : CheckIds, gen : Nat, blk : B]

Held(B) ==
    /\ bq \in Seq(BlockEvents(B)) /\ blocked \in Seq(BlockEvents(B)) /\ missed \in BOOLEAN
    /\ logs \in Seq(EventNotes(B)) /\ nq \in Seq(QueueNotes(B)) /\ notes \in Seq(QueueNotes(B))
    /\ hashes \in Seq(B) /\ cache \subseteq B
    /\ items \in [Ids -> Items(B)] /\ told \in [Ids -> Tellings(B)]
    /\ worker \in [Workers -> WorkerStates(B)]

Shape ==
    /\ setup \in Setups /\ up \in {"up", "stopping", "down"} /\ sessions \in 1..MaxSessions
    /\ up # "up" => role = "event" /\ sessions < MaxSessions
    /\ Len(bq) <= BlockCap /\ Len(nq) <= NoteCap /\ Len(blocked) <= 1
    /\ pending \subseteq Ids /\ todo \subseteq Ids /\ cur \in Ids \cup {NoId}
    /\ role = "tx" => pending \subseteq TxIds
    /\ IsFiniteSet(pending)
    /\ \A o, p \in pending : Key(o) = Key(p) => o = p
    /\ pc \in {"idle", "walk", "blocks", "notes"}
    /\ entries \in Seq(CheckIds) /\ out \in Seq(Ids)
    /\ role = "tx" => logs = <<>>
    /\ adds \in [Txs -> 0..MaxAdds]
    /\ head \in Int /\ head <= final + R

\* An item is checked by one worker at a time, and each check has a generation of its own.
QueryOK ==
    /\ \A i, j \in 1..Len(entries) : entries[i] = entries[j] => i = j
    /\ \A i \in 1..Len(entries) : items[entries[i]].queued
    /\ \A w \in Workers : worker[w].at = "query" =>
         /\ items[worker[w].item].queued /\ worker[w].gen = items[worker[w].item].gen
         /\ \A i \in 1..Len(entries) : entries[i] # worker[w].item
         /\ \A v \in Workers : worker[v].at = "query" /\ worker[v].item = worker[w].item => v = w
    /\ \A o \in Ids : /\ items[o].applied <= items[o].gen
                      /\ items[o].queued => items[o].applied < items[o].gen

\* Receipts that were fetched and have not been dispatched yet.
ReceiptsIn(s) == {<<s[i].item, s[i].gen, s[i].blk>> : i \in {i \in 1..Len(s) : s[i].type = "receipt"}}
Fetched == {<<worker[w].item, worker[w].gen, worker[w].blk>> : w \in {w \in Workers : worker[w].at = "notify"}}
Queue == notes \o nq
Arrivals == Fetched \cup ReceiptsIn(Queue)

\* They hold the transaction and were fetched in the order of their generations: while the
\* block of one is on the chain, a later one is in that very block.  In light mode a receipt
\* may also be read by the loop, so the order says nothing there.
ArrivalOK(a) ==
    /\ 1 <= a[2] /\ a[2] <= items[a[1]].gen /\ (items[a[1]].queued => a[2] < items[a[1]].gen)
    /\ role = "tx" => Key(a[1]) \in a[3].txs
    /\ mode = "full" /\ items[a[1]].applied < a[2] /\ Canonical(items[a[1]].blk) => a[3] = items[a[1]].blk
ArrivalsOK ==
    /\ \A a \in Arrivals : ArrivalOK(a)
    /\ \A a, c \in Arrivals : mode = "full" /\ a[1] = c[1] /\ a[2] <= c[2] /\ Canonical(a[3]) => c[3] = a[3]

\* An item that has yet to be added is untouched, and is added once.
Untouched == {o \in TxIds : items[o] = NewItem(NoBlock) /\ o \notin pending}
FreshOK ==
    role = "tx" =>
      /\ \A i \in 1..Len(Queue) : Queue[i].type = "newTx" =>
           Queue[i].item \in Untouched /\ Queue[i].item[2] <= adds[Queue[i].item[1]]
      /\ \A i, j \in 1..Len(Queue) :
           Queue[i].type = "newTx" /\ Queue[j].type = "newTx" /\ Queue[i].item = Queue[j].item => i = j
      /\ \A o \in TxIds : o[2] > adds[o[1]] => o \in Untouched

\* Each block the child of the one before.
Linked(s) == \A i \in 1..(Len(s) - 1) : s[i + 1].parent = s[i].hash /\ s[i + 1].number = s[i].number + 1

\* An item and what its callbacks were told: its confirmations are a chain on its block,
\* what it was notified of before is one chain too, and what is confirmed is final.
GoodItem(o, it, tl) ==
    /\ mode = "full" => ChainOn(it.blk, it.confs) /\ (it.blk = NoBlock => it.confs = <<>>)
    /\ mode = "light" => it.confs = <<>> /\ ~it.confirmed
    /\ Linked(it.notified)
    /\ it.notified # <<>> => tl.list = it.notified
    /\ it.confirmed => Final(it.blk)
    /\ tl.confirmed # NoBlock => Final(tl.confirmed)
    /\ role = "tx" /\ it.blk # NoBlock =>
         o \in TxIds /\ Key(o) \in it.blk.txs /\ (mode = "full" => tl.receipt = it.blk)
ItemsOK == \A o \in Ids : GoodItem(o, items[o], told[o])

\* The item that is being walked has a block, and its notification is still there.
LoopOK ==
    /\ pc = "idle" => cur = NoId
    /\ cur # NoId => items[cur].blk # NoBlock
    /\ cur # NoId /\ pc = "notes" => notes # <<>>

Inv(B) == /\ ChainOK /\ Tree(B) /\ Settled(B)
          /\ Held(B) /\ Shape /\ QueryOK /\ ArrivalsOK /\ FreshOK /\ ItemsOK /\ LoopOK

(***************************************************************************)
(* Sequences and sets                                                      *)
(***************************************************************************)

LEMMA Smallest == ASSUME NEW S \in SUBSET Nat, S # {} PROVE \E m \in S : \A n \in S : m <= n
<1>1. PICK x \in S : \A y \in S : ~(<<y, x>> \in OpToRel(<, Nat))
  BY WFMin, NatLessThanWellFounded, Zenon
<1>2. \A y \in S : ~(y < x) BY <1>1 DEF OpToRel
<1> QED BY <1>2

\* A finite set as a sequence: each member once.
LEMMA SetToSeqOK ==
    ASSUME NEW S, IsFiniteSet(S)
    PROVE  /\ SetToSeq(S) \in Seq(S)
           /\ \A i, j \in 1..Len(SetToSeq(S)) : SetToSeq(S)[i] = SetToSeq(S)[j] => i = j
<1>1. Cardinality(S) \in Nat /\ ExistsBijection(1..Cardinality(S), S) BY FS_CardinalityType
<1>2. PICK n \in Nat : n = Cardinality(S) BY <1>1
<1>3. \E f \in [1..n -> S] : IsInjective(f) BY <1>1, <1>2 DEF ExistsBijection, Bijection, Injection
<1>4. PICK f : f = SetToSeq(S) OBVIOUS
<1>5. f \in [1..n -> S] /\ IsInjective(f)
  <2>1. f = CHOOSE g \in [1..n -> S] : IsInjective(g) BY <1>2, <1>4 DEF SetToSeq
  <2> QED BY <1>3, <2>1
<1>6. f \in Seq(S) /\ Len(f) = n BY <1>2, <1>5
<1> QED BY <1>4, <1>5, <1>6 DEF IsInjective

\* The members in some order of their blocks: a sequence of them.
LEMMA SortedType ==
    ASSUME NEW its, NEW C, IsFiniteSet(C), NEW s \in SortedByBlock(its, C)
    PROVE  s \in Seq(C)
<1>1. Cardinality(C) \in Nat BY FS_CardinalityType
<1>2. s \in [1..Cardinality(C) -> C] BY DEF SortedByBlock, SetToSeqs
<1> QED BY <1>1, <1>2

\* The ranks of a finite set of positions count up to its size.
LEMMA Ranks ==
    ASSUME NEW n \in Nat, NEW S \in SUBSET (1..n)
    PROVE  /\ Cardinality(S) \in Nat
           /\ \A k \in 1..Cardinality(S) : \E i \in S : Cardinality({j \in S : j <= i}) = k
<1>0. IsFiniteSet(1..n) BY FS_Interval
<1>1. IsFiniteSet(S) /\ Cardinality(S) \in Nat BY <1>0, FS_Subset, FS_CardinalityType
<1> DEFINE Up(i) == {j \in S : j <= i}
<1>2. ASSUME NEW i \in S PROVE Cardinality(Up(i)) \in 1..Cardinality(S)
  <2>1. Up(i) \in SUBSET S /\ i \in Up(i) OBVIOUS
  <2> HIDE DEF Up
  <2>2. IsFiniteSet(Up(i)) /\ Cardinality(Up(i)) <= Cardinality(S) BY <1>1, <2>1, FS_Subset
  <2>3. Cardinality(Up(i)) \in Nat /\ Cardinality(Up(i)) # 0 BY <2>1, <2>2, FS_CardinalityType, FS_EmptySet
  <2> QED BY <1>1, <2>2, <2>3
<1>3. ASSUME NEW i \in S, NEW j \in S, i < j PROVE Cardinality(Up(i)) # Cardinality(Up(j))
  <2>0. \A k \in S : k \in Int OBVIOUS
  <2>a. \A k \in S : k <= i => k <= j BY <1>3, <2>0
  <2>b. j <= j /\ ~(j <= i) BY <1>3, <2>0
  <2>1. Up(i) \in SUBSET Up(j) /\ Up(j) \in SUBSET S /\ j \in Up(j) /\ j \notin Up(i) BY <2>a, <2>b
  <2> HIDE DEF Up
  <2>2. IsFiniteSet(Up(j)) BY <1>1, <2>1, FS_Subset
  <2> QED BY <2>1, <2>2, FS_Subset
<1> DEFINE f == [i \in S |-> Cardinality(Up(i))]
           K == 1..Cardinality(S)
<1>4. f \in Injection(S, K)
  <2>1. \A i, j \in S : i # j => i < j \/ j < i OBVIOUS
  <2> HIDE DEF Up
  <2>2. f \in [S -> K] BY <1>2
  <2>3. \A i, j \in S : f[i] = f[j] => i = j BY <1>3, <2>1
  <2> HIDE DEF f, K
  <2> QED BY <2>2, <2>3 DEF Injection, IsInjective
<1>5. IsFiniteSet(K) /\ Cardinality(K) = Cardinality(S) BY <1>1, FS_Interval
<1>6. f \in Surjection(S, K)
  <2> HIDE DEF f, K
  <2> QED BY <1>4, <1>5, FS_Injection
<1>7. \A k \in K : \E i \in S : f[i] = k
  <2> HIDE DEF f, K
  <2> QED BY <1>6 DEF Surjection
<1> QED BY <1>1, <1>7

\* What is left of a sequence of distinct entries.
LEMMA EntriesWithoutOK ==
    ASSUME NEW T, NEW es \in Seq(T), NEW C
    PROVE  /\ EntriesWithout(es, C) \in Seq(T)
           /\ \A k \in 1..Len(EntriesWithout(es, C)) : \E i \in 1..Len(es) : EntriesWithout(es, C)[k] = es[i]
           /\ (\A i, j \in 1..Len(es) : es[i] = es[j] => i = j) =>
                \A i, j \in 1..Len(EntriesWithout(es, C)) : EntriesWithout(es, C)[i] = EntriesWithout(es, C)[j] => i = j
<1> DEFINE kept == {i \in 1..Len(es) : es[i] \notin C}
           Up(i) == {j \in kept : j <= i}
           Nth(k) == CHOOSE i \in kept : Cardinality(Up(i)) = k
<1>0. Len(es) \in Nat /\ kept \in SUBSET (1..Len(es)) OBVIOUS
<1>1. Cardinality(kept) \in Nat /\ \A k \in 1..Cardinality(kept) : \E i \in kept : Cardinality(Up(i)) = k
  <2> HIDE DEF kept
  <2> QED BY <1>0, Ranks
<1>2. \A k \in 1..Cardinality(kept) : Nth(k) \in kept /\ Cardinality(Up(Nth(k))) = k
  <2> HIDE DEF kept, Up
  <2> QED BY <1>1
<1>3. PICK N \in Nat : N = Cardinality(kept) BY <1>1
<1>4. PICK r : r = EntriesWithout(es, C) OBVIOUS
<1>5. r = [k \in 1..N |-> es[Nth(k)]]
  <2>1. EntriesWithout(es, C) = [k \in 1..Cardinality(kept) |-> es[Nth(k)]] BY DEF EntriesWithout
  <2> HIDE DEF kept, Nth
  <2> QED BY <1>3, <1>4, <2>1
<1>6. \A k \in 1..N : Nth(k) \in 1..Len(es) BY <1>0, <1>2, <1>3
<1> HIDE DEF kept, Up, Nth
<1>7. \A k, l \in 1..N : Nth(k) = Nth(l) => k = l BY <1>2, <1>3
<1>8. r \in Seq(T) /\ Len(r) = N BY <1>5, <1>6
<1>9. \A k \in 1..N : r[k] = es[Nth(k)] BY <1>5
<1>10. \A k \in 1..N : \E i \in 1..Len(es) : r[k] = es[i] BY <1>6, <1>9
<1>11. (\A i, j \in 1..Len(es) : es[i] = es[j] => i = j) => \A k, l \in 1..N : r[k] = r[l] => k = l
  BY <1>6, <1>7, <1>9
<1> QED BY <1>4, <1>8, <1>10, <1>11

(***************************************************************************)
(* The tree of blocks                                                      *)
(***************************************************************************)

LEMMA BlockFields ==
    ASSUME NEW b \in Blocks
    PROVE  b.number \in Nat /\ b.hash \in Int /\ b.parent \in Int /\ b.txs \subseteq Txs \cup Hashes
BY DEF Blocks

LEMMA NoBlockOut ==
    ASSUME NEW B, Tree(B) PROVE NoBlock \notin B
BY DEF Tree, NoBlock

\* A path that ends in a block of the chain is the chain.
LEMMA PathOnChain ==
    ASSUME NEW B, ChainOK, Tree(B), NEW n \in 0..(Len(chain) - 1), NEW k \in Nat,
           NEW p \in [0..k -> B], \A i \in 1..k : p[i].parent = p[i - 1].hash, p[k] = chain[n + 1]
    PROVE  \A j \in 0..k : j <= n /\ p[k - j] = chain[n + 1 - j]
<1>0. chain \in Seq(Blocks) /\ mined \in Nat /\ Len(chain) \in Nat BY DEF ChainOK
<1> DEFINE Off(j) == ~(j <= n /\ p[k - j] = chain[n + 1 - j])
           S == {j \in 0..k : Off(j)}
<1>1. ASSUME S # {} PROVE FALSE
  <2>0. S \in SUBSET Nat OBVIOUS
  <2>1. PICK m \in S : \A j \in S : m <= j
    <3> HIDE DEF S
    <3> QED BY <1>1, <2>0, Smallest
  <2>2. m \in 0..k /\ Off(m) OBVIOUS
  <2>3. m # 0 BY <2>2
  <2>4. m - 1 \in 0..k /\ m - 1 \notin S
    <3>1. m - 1 \in 0..k /\ ~(m <= m - 1) BY <2>2, <2>3
    <3> HIDE DEF S
    <3> QED BY <2>1, <3>1
  <2>5. m - 1 <= n /\ p[k - (m - 1)] = chain[n + 1 - (m - 1)] BY <2>4
  <2> DEFINE c == n + 2 - m
             i == k + 1 - m
  <2>6. c \in 1..Len(chain) /\ i \in 1..k /\ i - 1 \in 0..k /\ i - 1 = k - m /\ n + 1 - (m - 1) = c /\ k - (m - 1) = i
    BY <1>0, <2>2, <2>3, <2>5
  <2>7. p[i] = chain[c] /\ p[i - 1] \in B BY <2>5, <2>6
  <2>8. chain[c].parent = p[i - 1].hash /\ p[i - 1].hash \in 0..mined BY <2>6, <2>7 DEF Tree
  <2>9. c # 1 BY <1>0, <2>8 DEF ChainOK
  <2>a. \A x \in 1..Len(chain) : x # 1 => x \in 2..Len(chain) /\ x - 1 \in 1..Len(chain) BY <1>0
  <2>10. c \in 2..Len(chain) /\ c - 1 \in 1..Len(chain) BY <2>6, <2>9, <2>a
  <2>11. chain[c].parent = chain[c - 1].hash /\ chain[c - 1] \in B BY <2>10 DEF ChainOK, Tree
  <2>12. p[i - 1] = chain[c - 1] BY <2>7, <2>8, <2>11 DEF Tree
  <2>13. m <= n /\ c - 1 = n + 1 - m BY <1>0, <2>2, <2>6, <2>10
  <2> QED BY <2>2, <2>6, <2>12, <2>13
<1> QED BY <1>1

\* A block mined on number n.
LEMMA MineBlock ==
    ASSUME NEW B, ChainOK, Tree(B), NEW n \in Nat, NEW txs \in SUBSET (Txs \cup Hashes), role = "event" /\ mode = "full" => txs = {}, Mine(n, txs)
    PROVE  /\ n \in 0..(Len(chain) - 1) /\ n >= final /\ mined < MaxBlocks
           /\ \E b \in Blocks :
                /\ b = [number |-> n + 1, hash |-> mined + 1, parent |-> chain[n + 1].hash, txs |-> txs]
                /\ chain' \in Seq(Blocks) /\ Len(chain') = n + 2 /\ chain'[n + 2] = b
                /\ \A i \in 1..(n + 1) : chain'[i] = chain[i] /\ chain[i].txs \cap txs = {}
           /\ final' = (IF n + 1 - R > final THEN n + 1 - R ELSE final) /\ mined' = mined + 1
           /\ setup' = setup
<1>0. chain \in Seq(Blocks) /\ mined \in Nat /\ Len(chain) \in Nat /\ final \in Nat BY DEF ChainOK
<1>1. n \in 0..(Len(chain) - 1) /\ n >= final BY <1>0 DEF Mine
<1>2. chain[n + 1] \in Blocks BY <1>0, <1>1
<1>3. PICK b : b = [number |-> n + 1, hash |-> mined + 1, parent |-> chain[n + 1].hash, txs |-> txs] OBVIOUS
<1>4. b \in Blocks BY <1>0, <1>2, <1>3, BlockFields DEF Blocks
<1>5. chain' = Append(SubSeq(chain, 1, n + 1), b) BY <1>3 DEF Mine
<1>6. SubSeq(chain, 1, n + 1) \in Seq(Blocks) /\ Len(SubSeq(chain, 1, n + 1)) = n + 1
      /\ \A i \in 1..(n + 1) : SubSeq(chain, 1, n + 1)[i] = chain[i] BY <1>0, <1>1
<1>7. chain' \in Seq(Blocks) /\ Len(chain') = n + 2 /\ chain'[n + 2] = b /\ \A i \in 1..(n + 1) : chain'[i] = chain[i]
  BY <1>4, <1>5, <1>6
<1>8. mined < MaxBlocks /\ mined' = mined + 1 /\ final' = (IF n + 1 - R > final THEN n + 1 - R ELSE final)
      /\ setup' = setup /\ \A i \in 1..(n + 1) : chain[i].txs \cap txs = {} BY DEF Mine, runVars
<1> QED BY <1>1, <1>3, <1>4, <1>7, <1>8

\* Mining adds a leaf to the tree; what it buries is on the chain, what was final stays so,
\* and no orphan comes back.
LEMMA MineTree ==
    ASSUME NEW B, ChainOK, Tree(B), Settled(B), NEW n \in Nat, NEW txs \in SUBSET (Txs \cup Hashes),
           role = "event" /\ mode = "full" => txs = {}, Mine(n, txs)
    PROVE  \E b \in Blocks :
             /\ b = [number |-> n + 1, hash |-> mined + 1, parent |-> chain[n + 1].hash, txs |-> txs]
             /\ ChainOK' /\ Tree(B \cup {b})' /\ Settled(B \cup {b})'
             /\ \A c \in B : (Canonical(c)' => Canonical(c)) /\ (Final(c) => Final(c)')
<1>1. PICK b \in Blocks :
        /\ b = [number |-> n + 1, hash |-> mined + 1, parent |-> chain[n + 1].hash, txs |-> txs]
        /\ chain' \in Seq(Blocks) /\ Len(chain') = n + 2 /\ chain'[n + 2] = b
        /\ \A i \in 1..(n + 1) : chain'[i] = chain[i] /\ chain[i].txs \cap txs = {}
  BY MineBlock
<1>2. /\ n \in 0..(Len(chain) - 1) /\ n >= final /\ mined < MaxBlocks
      /\ final' = (IF n + 1 - R > final THEN n + 1 - R ELSE final) /\ mined' = mined + 1
      /\ setup' = setup
  BY MineBlock
<1>0. /\ chain \in Seq(Blocks) /\ Len(chain) \in Nat /\ mined \in Nat /\ final \in Nat /\ R \in Nat /\ MaxBlocks \in Nat
      /\ final < Len(chain) BY RAssumption, BoundsAssumption DEF ChainOK
<1>b. b.number = n + 1 /\ b.hash = mined + 1 /\ b.parent = chain[n + 1].hash /\ b.txs = txs BY <1>1
<1>f. final' \in Nat /\ final' >= final /\ final' >= n + 1 - R /\ final' <= n + 1 BY <1>0, <1>2
<1>3. ChainOK'
  <2>1. chain'[1] = chain[1] /\ final' < Len(chain') /\ chain' # <<>> /\ mined' \in Nat /\ mined' <= MaxBlocks
    BY <1>0, <1>1, <1>2, <1>f
  <2>2. ASSUME NEW i \in 1..Len(chain') PROVE chain'[i].number = i - 1
    <3>1. CASE i = n + 2 BY <1>1, <1>b, <3>1
    <3>2. CASE i # n + 2
      <4>1. i \in 1..Len(chain) /\ i \in 1..(n + 1) BY <1>0, <1>1, <1>2, <3>2
      <4>2. chain[i].number = i - 1 BY <4>1 DEF ChainOK
      <4> QED BY <1>1, <4>1, <4>2
    <3> QED BY <3>1, <3>2
  <2>3. ASSUME NEW i \in 2..Len(chain') PROVE chain'[i].parent = chain'[i - 1].hash
    <3>1. CASE i = n + 2 BY <1>1, <1>b, <3>1
    <3>2. CASE i # n + 2
      <4>1. i \in 2..Len(chain) /\ i \in 1..(n + 1) /\ i - 1 \in 1..(n + 1) BY <1>0, <1>1, <1>2, <3>2
      <4>2. chain[i].parent = chain[i - 1].hash BY <1>0, <4>1 DEF ChainOK
      <4> QED BY <1>1, <4>1, <4>2
    <3> QED BY <3>1, <3>2
  <2>4. ASSUME NEW i \in 1..Len(chain'), NEW j \in 1..Len(chain'), i # j PROVE chain'[i].txs \cap chain'[j].txs = {}
    <3>1. i \in Int /\ j \in Int /\ (i \in 1..(n + 1) \/ i = n + 2) /\ (j \in 1..(n + 1) \/ j = n + 2) BY <1>1
    <3>2. CASE i = n + 2
      <4>1. j \in 1..(n + 1) BY <2>4, <3>1, <3>2
      <4> QED BY <1>1, <1>b, <3>2, <4>1
    <3>3. CASE j = n + 2
      <4>1. i \in 1..(n + 1) BY <2>4, <3>1, <3>3
      <4> QED BY <1>1, <1>b, <3>3, <4>1
    <3>4. CASE i \in 1..(n + 1) /\ j \in 1..(n + 1)
      <4>1. i \in 1..Len(chain) /\ j \in 1..Len(chain) BY <1>0, <1>2, <3>4
      <4>2. chain[i].txs \cap chain[j].txs = {} BY <2>4, <4>1 DEF ChainOK
      <4> QED BY <1>1, <3>4, <4>2
    <3> QED BY <3>1, <3>2, <3>3, <3>4
  <2>5. chain'[1].hash = 0 /\ chain'[1].parent = -1 BY <2>1 DEF ChainOK
  <2> QED BY <1>1, <1>f, <2>1, <2>2, <2>3, <2>4, <2>5 DEF ChainOK
<1>4. chain[n + 1] \in B BY <1>2 DEF Tree
<1>5. Tree(B \cup {b})'
  <2>1. \A c \in B : c \in Blocks /\ c.hash \in 0..mined /\ c.parent <= mined /\ c.number <= final + R
                     /\ (role = "event" /\ mode = "full" => c.txs = {}) BY DEF Tree
  <2>2. ASSUME NEW c \in B \cup {b}
        PROVE  c.hash \in 0..mined' /\ c.parent <= mined' /\ c.number <= final' + R /\ (role' = "event" /\ mode' = "full" => c.txs = {})
    <3>1. CASE c \in B
      <4>1. c.number \in Nat /\ c.parent \in Int BY <2>1, <3>1, BlockFields
      <4>a. c.hash \in 0..mined /\ c.parent <= mined /\ c.number <= final + R BY <2>1, <3>1
      <4>b. c.hash \in 0..mined' /\ c.parent <= mined' BY <1>0, <1>2, <4>1, <4>a
      <4>c. c.number <= final' + R
        <5>1. PICK f \in Nat, g \in Nat : f = final /\ g = final' /\ g >= f BY <1>0, <1>f
        <5>2. c.number <= f + R BY <4>a, <5>1
        <5>3. c.number <= g + R BY <1>0, <4>1, <5>1, <5>2
        <5> QED BY <5>1, <5>3
      <4>2. c.hash \in 0..mined' /\ c.parent <= mined' /\ c.number <= final' + R BY <4>b, <4>c
      <4> QED BY <1>2, <2>1, <3>1, <4>2 DEF role, mode
    <3>2. CASE c = b
      <4>1. chain[n + 1].hash \in 0..mined BY <1>4 DEF Tree
      <4>2. c.hash \in 0..mined' /\ c.parent <= mined' /\ c.number <= final' + R BY <1>0, <1>2, <1>b, <1>f, <3>2, <4>1
      <4> QED BY <1>2, <1>b, <3>2, <4>2 DEF role, mode
    <3> QED BY <3>1, <3>2
  <2>3. ASSUME NEW c \in B \cup {b}, NEW d \in B \cup {b}, c.hash = d.hash PROVE c = d
    <3>1. \A e \in B : e.hash # b.hash BY <1>0, <1>b, <2>1
    <3>2. \A e, g \in B : e.hash = g.hash => e = g BY DEF Tree
    <3> QED BY <2>3, <3>1, <3>2
  <2>4. ASSUME NEW i \in 1..Len(chain') PROVE chain'[i] \in B \cup {b}
    <3>1. CASE i = n + 2 BY <1>1, <3>1
    <3>2. CASE i \in 1..(n + 1) /\ i \in 1..Len(chain) BY <1>1, <3>2 DEF Tree
    <3> QED BY <1>0, <1>1, <1>2, <3>1, <3>2
  <2>5. B \cup {b} \subseteq Blocks BY <2>1
  <2> QED BY <2>2, <2>3, <2>4, <2>5 DEF Tree
<1>6. ASSUME NEW c \in B, Final(c) PROVE Final(c)'
  <2>1. c.number \in Nat /\ c.number <= final /\ chain[c.number + 1] = c BY <1>6, BlockFields DEF Final, Canonical, Tree
  <2>2. c.number + 1 \in 1..(n + 1) BY <1>0, <1>2, <2>1
  <2>3. chain'[c.number + 1] = c BY <1>1, <2>1, <2>2
  <2>4. c.number <= final' /\ c.number < Len(chain') BY <1>0, <1>1, <1>f, <2>1, <2>2, SMTT(30)
  <2> QED BY <2>3, <2>4 DEF Final, Canonical
<1>7. ASSUME NEW c \in B, Canonical(c)' PROVE Canonical(c)
  <2>1. c.number \in Nat /\ c.hash \in 0..mined BY BlockFields DEF Tree
  <2>2. c.number < Len(chain') /\ chain'[c.number + 1] = c BY <1>7 DEF Canonical
  <2>3. c.number + 1 # n + 2 BY <1>0, <1>1, <1>b, <2>1, <2>2
  <2>4. c.number + 1 \in 1..(n + 1) BY <1>1, <2>1, <2>2, <2>3
  <2>5. c.number < Len(chain) BY <1>0, <1>2, <2>1, <2>4
  <2>6. chain[c.number + 1] = c BY <1>1, <2>2, <2>4
  <2> QED BY <2>5, <2>6 DEF Canonical
<1>8. ASSUME NEW p, Path(B \cup {b}, p)' PROVE Final(p[0])'
  <2>1. p \in [0..R -> B \cup {b}] /\ \A i \in 1..R : p[i].parent = p[i - 1].hash BY <1>8 DEF Path
  <2>p. \A c \in B \cup {b} : c.parent \in Int /\ c.parent <= mined
    <3>1. \A c \in B : c \in Blocks /\ c.parent <= mined BY DEF Tree
    <3>2. chain[n + 1].hash \in 0..mined BY <1>4 DEF Tree
    <3>3. \A c \in B : c.parent \in Int /\ c.parent <= mined BY <3>1, BlockFields
    <3> QED BY <1>0, <1>b, <3>2, <3>3
  <2>2. \A i \in 0..(R - 1) : p[i] \in B
    <3> SUFFICES ASSUME NEW i \in 0..(R - 1) PROVE p[i] \in B OBVIOUS
    <3>1. i + 1 \in 1..R /\ i + 1 \in 0..R /\ i \in 0..R /\ (i + 1) - 1 = i BY <1>0
    <3>2. p[i].hash = p[i + 1].parent /\ p[i + 1] \in B \cup {b} /\ p[i] \in B \cup {b} BY <2>1, <3>1
    <3>3. p[i].hash <= mined BY <2>p, <3>2
    <3>4. p[i] # b BY <1>0, <1>b, <3>3
    <3> QED BY <3>2, <3>4
  <2>3. CASE p[R] # b
    <3>1. p \in [0..R -> B]
      <4>1. \A i \in 0..R : p[i] \in B BY <1>0, <2>1, <2>2, <2>3
      <4> QED BY <2>1, <4>1
    <3>2. Path(B, p) BY <2>1, <3>1 DEF Path
    <3>3. Final(p[0]) BY <3>2 DEF Settled
    <3>4. p[0] \in B BY <1>0, <3>1
    <3> QED BY <1>6, <3>3, <3>4
  <2>4. CASE p[R] = b /\ R = 0
    <3>1. p[0] = b /\ final' = n + 1 BY <1>0, <1>2, <2>4
    <3> QED BY <1>0, <1>1, <1>b, <3>1 DEF Final, Canonical
  <2>5. CASE p[R] = b /\ R # 0
    <3>k. PICK k \in Nat : k = R - 1 BY <1>0, <2>5
    <3>q. PICK q : q = [i \in 0..k |-> p[i]] OBVIOUS
    <3>1. q \in [0..k -> B] /\ \A i \in 0..k : q[i] = p[i] BY <2>2, <3>k, <3>q
    <3>2. q[k] = chain[n + 1]
      <4>1. p[R].parent = p[R - 1].hash BY <1>0, <2>1, <2>5
      <4>2. q[k] = p[R - 1] /\ q[k] \in B BY <3>k, <3>1
      <4>3. q[k].hash = chain[n + 1].hash BY <1>b, <2>5, <4>1, <4>2
      <4> QED BY <1>4, <4>2, <4>3 DEF Tree
    <3>3. \A i \in 1..k : q[i].parent = q[i - 1].hash
      <4> SUFFICES ASSUME NEW i \in 1..k PROVE q[i].parent = q[i - 1].hash OBVIOUS
      <4>1. i \in 0..k /\ i - 1 \in 0..k /\ i \in 1..R BY <1>0, <3>k
      <4> QED BY <2>1, <3>1, <4>1
    <3>4. \A j \in 0..k : j <= n /\ q[k - j] = chain[n + 1 - j]
      <4>1. ChainOK /\ Tree(B) /\ n \in 0..(Len(chain) - 1) BY <1>2
      <4> QED BY <4>1, <3>1, <3>2, <3>3, PathOnChain, ZenonT(60)
    <3>5. k <= n /\ q[0] = chain[n + 1 - k] BY <3>4
    <3>6. n + 1 - k \in 1..(n + 1) /\ n + 1 - k \in 1..Len(chain) BY <1>0, <1>2, <3>5
    <3>7. p[0] = chain[n + 1 - k] BY <3>1, <3>5
    <3>8. chain[n + 1 - k].number = n - k BY <3>6 DEF ChainOK
    <3>9. chain'[n + 1 - k] = p[0] /\ p[0].number = n - k BY <1>1, <3>6, <3>7, <3>8
    <3>10. n - k <= final' BY <1>f, <1>0, <3>k
    <3> QED BY <1>1, <3>5, <3>9, <3>10 DEF Final, Canonical
  <2> QED BY <2>3, <2>4, <2>5
<1>9. Settled(B \cup {b})' BY <1>8 DEF Settled
<1> QED BY <1>1, <1>3, <1>5, <1>6, <1>7, <1>9

\* A step that mines nothing leaves the tree, the chain and what is final alone.
LEMMA QuietTree ==
    ASSUME NEW B, ChainOK, Tree(B), Settled(B), UNCHANGED <<chain, final, mined, setup>>
    PROVE  ChainOK' /\ Tree(B)' /\ Settled(B)' /\ \A b : Final(b)' = Final(b) /\ Canonical(b)' = Canonical(b)
<1>1. ChainOK' BY DEF ChainOK
<1>2. Tree(B)' BY DEF Tree, role, mode
<1>3. \A b : Final(b)' = Final(b) /\ Canonical(b)' = Canonical(b) BY DEF Final, Canonical
<1>4. Settled(B)' BY <1>3 DEF Settled, Path
<1> QED BY <1>1, <1>2, <1>3, <1>4

(***************************************************************************)
(* What is held                                                            *)
(***************************************************************************)

LEMMA SetupOK ==
    ASSUME setup \in Setups
    PROVE  role \in {"tx", "event"} /\ mode \in {"full", "light"}
BY SetupsAssumption DEF role, mode

LEMMA ItemFields ==
    ASSUME NEW B, NEW it \in Items(B)
    PROVE  /\ it.own \in B \cup {NoBlock} /\ it.blk \in B \cup {NoBlock} /\ it.confs \in Seq(B) /\ it.notified \in Seq(B)
           /\ it.confirmed \in BOOLEAN /\ it.once \in BOOLEAN /\ it.queued \in BOOLEAN
           /\ it.gen \in Nat /\ it.applied \in Nat /\ it.prev \in Int
BY DEF Items

LEMMA NewItemOK ==
    ASSUME NEW B, NEW b \in B \cup {NoBlock}
    PROVE  /\ NewItem(b) \in Items(B)
           /\ NewItem(b).own = b /\ NewItem(b).blk = b /\ NewItem(b).confs = <<>> /\ NewItem(b).notified = <<>> /\ NewItem(b).confirmed = FALSE
           /\ NewItem(b).queued = FALSE /\ NewItem(b).gen = 0 /\ NewItem(b).applied = 0
<1>1. <<>> \in Seq(B) OBVIOUS
<1> QED BY <1>1 DEF NewItem, Items

LEMMA TellingFields ==
    ASSUME NEW B, NEW tl \in Tellings(B)
    PROVE  tl.receipt \in B \cup {NoBlock} /\ tl.list \in Seq(B) /\ tl.confirmed \in B \cup {NoBlock}
BY DEF Tellings

\* What a notification of each type holds.
LEMMA NoteFields ==
    ASSUME NEW B, setup \in Setups, NEW n \in QueueNotes(B)
    PROVE  /\ n.type \in {"newEvent", "removedEvent"} => role = "event" /\ n.blk \in B /\ n.blk.hash # 0
           /\ n.type = "newTx" => role = "tx" /\ n.item \in TxIds
           /\ n.type = "removedTx" => role = "tx" /\ n.tx \in Txs
           /\ n.type = "receipt" => n.item \in CheckIds /\ n.blk \in B /\ n.gen \in Nat
<1>0. role \in {"tx", "event"} BY SetupOK
<1>1. CASE role = "event"
  <2>1. n \in EventNotes(B) \/ n.type = "listenerRemoved" \/ n \in ReceiptNotes(B) BY <1>1 DEF QueueNotes
  <2> QED BY <1>1, <2>1 DEF EventNotes, ReceiptNotes
<1>2. CASE role = "tx"
  <2>1. n \in TxNotes(B) BY <1>2 DEF QueueNotes
  <2> QED BY <1>2, <2>1 DEF TxNotes, ReceiptNotes
<1> QED BY <1>0, <1>1, <1>2

\* What a worker holds.
LEMMA WorkerFields ==
    ASSUME NEW B, NEW x \in WorkerStates(B)
    PROVE  /\ x.at = "query" => x.item \in CheckIds /\ x.gen \in Nat
           /\ x.at = "notify" => x.item \in CheckIds /\ x.gen \in Nat /\ x.blk \in B
           /\ x.at \in {"idle", "query", "notify"}
           /\ x.at = "idle" => x = Idle
           /\ Idle.at = "idle"
BY DEF WorkerStates, Idle

LEMMA IdsOK == TxIds \subseteq Ids /\ NoId \notin Ids
BY DEF TxIds, Ids, NoId

LEMMA CheckIdsOK ==
    ASSUME NEW o \in CheckIds
    PROVE  o \in Ids /\ (role = "tx" => o \in TxIds) /\ (role = "tx" \/ mode = "light")
BY IdsOK DEF CheckIds

\* More blocks can be held in a larger tree.
LEMMA HeldGrows ==
    ASSUME NEW B, NEW C, B \subseteq C
    PROVE  /\ EventNotes(B) \subseteq EventNotes(C) /\ QueueNotes(B) \subseteq QueueNotes(C)
           /\ BlockEvents(B) \subseteq BlockEvents(C) /\ Items(B) \subseteq Items(C)
           /\ Tellings(B) \subseteq Tellings(C) /\ WorkerStates(B) \subseteq WorkerStates(C)
<1>0. Seq(B) \subseteq Seq(C)
  <2> SUFFICES ASSUME NEW s \in Seq(B) PROVE s \in Seq(C) OBVIOUS
  <2> QED BY SeqMonotonic
<1>1. EventNotes(B) \subseteq EventNotes(C) BY DEF EventNotes
<1>2. TxNotes(B) \subseteq TxNotes(C) /\ ReceiptNotes(B) \subseteq ReceiptNotes(C) BY DEF TxNotes, ReceiptNotes
<1>3. QueueNotes(B) \subseteq QueueNotes(C) BY <1>1, <1>2 DEF QueueNotes
<1>4. BlockEvents(B) \subseteq BlockEvents(C) BY DEF BlockEvents
<1>5. Items(B) \subseteq Items(C)
  <2>1. B \cup {NoBlock} \subseteq C \cup {NoBlock} OBVIOUS
  <2> QED BY <1>0, <2>1 DEF Items
<1>6. Tellings(B) \subseteq Tellings(C) BY <1>0 DEF Tellings
<1>7. WorkerStates(B) \subseteq WorkerStates(C) BY DEF WorkerStates
<1> QED BY <1>1, <1>3, <1>4, <1>5, <1>6, <1>7

(***************************************************************************)
(* The notifications on their way                                          *)
(***************************************************************************)

LEMMA QueueType ==
    ASSUME NEW B, Held(B) PROVE Queue \in Seq(QueueNotes(B))
BY DEF Held, Queue

\* The queue as a whole: a notification is added, taken over, or done with.
LEMMA QueueAppend ==
    ASSUME NEW S, notes \in Seq(S), nq \in Seq(S), NEW n \in S, nq' = Append(nq, n), notes' = notes
    PROVE  Queue' = Append(Queue, n)
BY DEF Queue

LEMMA QueueMove ==
    ASSUME NEW S, notes \in Seq(S), nq \in Seq(S), nq # <<>>, nq' = Tail(nq), notes' = Append(notes, Head(nq))
    PROVE  Queue' = Queue
BY DEF Queue

LEMMA QueueTail ==
    ASSUME NEW S, notes \in Seq(S), nq \in Seq(S), notes # <<>>, notes' = Tail(notes), nq' = nq
    PROVE  Queue' = Tail(Queue) /\ Queue # <<>> /\ Head(notes) = Queue[1]
BY DEF Queue

\* The receipts in a shorter and in a longer queue.
LEMMA ReceiptsTail ==
    ASSUME NEW S, NEW s \in Seq(S), s # <<>> PROVE ReceiptsIn(Tail(s)) \subseteq ReceiptsIn(s)
<1> SUFFICES ASSUME NEW a \in ReceiptsIn(Tail(s)) PROVE a \in ReceiptsIn(s) OBVIOUS
<1>1. PICK i \in 1..Len(Tail(s)) : Tail(s)[i].type = "receipt" /\ a = <<Tail(s)[i].item, Tail(s)[i].gen, Tail(s)[i].blk>>
  BY DEF ReceiptsIn
<1>2. i + 1 \in 1..Len(s) /\ Tail(s)[i] = s[i + 1] OBVIOUS
<1> QED BY <1>1, <1>2 DEF ReceiptsIn

LEMMA ReceiptsAppend ==
    ASSUME NEW S, NEW s \in Seq(S), NEW n \in S
    PROVE  ReceiptsIn(Append(s, n)) \subseteq
             ReceiptsIn(s) \cup (IF n.type = "receipt" THEN {<<n.item, n.gen, n.blk>>} ELSE {})
<1> SUFFICES ASSUME NEW a \in ReceiptsIn(Append(s, n))
             PROVE  a \in ReceiptsIn(s) \/ (n.type = "receipt" /\ a = <<n.item, n.gen, n.blk>>) OBVIOUS
<1>1. PICK i \in 1..Len(Append(s, n)) : /\ Append(s, n)[i].type = "receipt"
                                        /\ a = <<Append(s, n)[i].item, Append(s, n)[i].gen, Append(s, n)[i].blk>>
  BY DEF ReceiptsIn
<1>2. CASE i = Len(s) + 1
  <2>1. Append(s, n)[i] = n BY <1>2
  <2> QED BY <1>1, <2>1
<1>3. CASE i \in 1..Len(s)
  <2>1. Append(s, n)[i] = s[i] BY <1>3
  <2> QED BY <1>1, <1>3, <2>1 DEF ReceiptsIn
<1>4. i \in 1..(Len(s) + 1) /\ Len(s) \in Nat OBVIOUS
<1> QED BY <1>2, <1>3, <1>4

LEMMA ReceiptsRight ==
    ASSUME NEW S, NEW s \in Seq(S), NEW q \in Seq(S)
    PROVE  ReceiptsIn(q) \subseteq ReceiptsIn(s \o q)
<1> SUFFICES ASSUME NEW a \in ReceiptsIn(q) PROVE a \in ReceiptsIn(s \o q) OBVIOUS
<1>1. PICK i \in 1..Len(q) : q[i].type = "receipt" /\ a = <<q[i].item, q[i].gen, q[i].blk>> BY DEF ReceiptsIn
<1>2. Len(s) + i \in 1..Len(s \o q) /\ (s \o q)[Len(s) + i] = q[i] OBVIOUS
<1> QED BY <1>1, <1>2 DEF ReceiptsIn

LEMMA ReceiptsDrop ==
    ASSUME NEW S, NEW s \in Seq(S), NEW q \in Seq(S), q # <<>>
    PROVE  ReceiptsIn(s \o Tail(q)) \subseteq ReceiptsIn(s \o q)
<1> SUFFICES ASSUME NEW a \in ReceiptsIn(s \o Tail(q)) PROVE a \in ReceiptsIn(s \o q) OBVIOUS
<1>t. Tail(q) \in Seq(S) /\ Len(Tail(q)) = Len(q) - 1 /\ \A i \in 1..Len(Tail(q)) : Tail(q)[i] = q[i + 1] OBVIOUS
<1>1. PICK r : r = s \o Tail(q) OBVIOUS
<1>2. PICK i \in 1..Len(r) : r[i].type = "receipt" /\ a = <<r[i].item, r[i].gen, r[i].blk>> BY <1>1 DEF ReceiptsIn
<1>3. \E j \in 1..Len(s \o q) : (s \o q)[j] = r[i]
  <2>0. Len(r) = Len(s) + Len(q) - 1 /\ Len(s \o q) = Len(s) + Len(q) /\ Len(s) \in Nat /\ Len(q) \in Nat BY <1>1, <1>t
  <2>1. CASE i <= Len(s)
    <3>1. i \in 1..Len(s) BY <2>0, <2>1
    <3>2. r[i] = s[i] /\ (s \o q)[i] = s[i] BY <1>1, <1>t, <3>1
    <3> QED BY <2>0, <3>1, <3>2
  <2>2. CASE i > Len(s)
    <3>1. i - Len(s) \in 1..Len(Tail(q)) /\ i + 1 \in 1..Len(s \o q) /\ i + 1 - Len(s) = (i - Len(s)) + 1
      BY <1>t, <2>0, <2>2
    <3>2. r[i] = Tail(q)[i - Len(s)] /\ (s \o q)[i + 1] = q[i + 1 - Len(s)] BY <1>1, <1>t, <2>0, <2>2, <3>1
    <3> QED BY <1>t, <3>1, <3>2
  <2> QED BY <2>0, <2>1, <2>2
<1> QED BY <1>2, <1>3 DEF ReceiptsIn

\* An arrival names an item, a generation and a block.
LEMMA ArrivalFields ==
    ASSUME NEW B, Held(B), Shape, NEW a \in Arrivals
    PROVE  /\ a[1] \in CheckIds /\ a[1] \in Ids /\ a[2] \in Nat /\ a[3] \in B
           /\ role = "tx" => a[1] \in TxIds
           /\ role = "tx" \/ mode = "light"
<1>0. Queue \in Seq(QueueNotes(B)) /\ setup \in Setups BY QueueType DEF Shape
<1>1. CASE a \in Fetched
  <2>1. PICK w \in Workers : worker[w].at = "notify" /\ a = <<worker[w].item, worker[w].gen, worker[w].blk>>
    BY <1>1 DEF Fetched
  <2>2. worker[w] \in WorkerStates(B) BY DEF Held
  <2>3. worker[w].item \in CheckIds /\ worker[w].gen \in Nat /\ worker[w].blk \in B BY <2>1, <2>2, WorkerFields
  <2> QED BY <2>1, <2>3, CheckIdsOK
<1>2. CASE a \in ReceiptsIn(Queue)
  <2>1. PICK i \in 1..Len(Queue) : Queue[i].type = "receipt" /\ a = <<Queue[i].item, Queue[i].gen, Queue[i].blk>>
    BY <1>2 DEF ReceiptsIn
  <2>2. Queue[i] \in QueueNotes(B) BY <1>0
  <2>3. Queue[i].item \in CheckIds /\ Queue[i].blk \in B /\ Queue[i].gen \in Nat BY <1>0, <2>1, <2>2, NoteFields
  <2> QED BY <2>1, <2>3, CheckIdsOK
<1> QED BY <1>1, <1>2 DEF Arrivals

(***************************************************************************)
(* Items and their confirmations                                           *)
(***************************************************************************)

\* Required confirmations make the block of an item final.
LEMMA EnoughFinal ==
    ASSUME NEW B, Settled(B), NEW b \in B, NEW s \in Seq(B), ChainOn(b, s), Len(s) >= R
    PROVE  Final(b)
<1>0. R \in Nat /\ Len(s) \in Nat BY RAssumption
<1>1. PICK p : p = [i \in 0..R |-> IF i = 0 THEN b ELSE s[i]] OBVIOUS
<1>2. p \in [0..R -> B] /\ p[0] = b /\ \A i \in 1..R : p[i] = s[i] BY <1>0, <1>1
<1>3. ASSUME NEW i \in 1..R PROVE p[i].parent = p[i - 1].hash
  <2>1. i \in 1..Len(s) BY <1>0
  <2>2. s[i].parent = IF i = 1 THEN b.hash ELSE s[i - 1].hash BY <2>1 DEF ChainOn
  <2>3. CASE i = 1 BY <1>2, <2>2, <2>3
  <2>4. CASE i # 1
    <3>1. i - 1 \in 1..R BY <1>0, <2>4
    <3> QED BY <1>2, <2>2, <2>4, <3>1
  <2> QED BY <2>3, <2>4
<1>4. Path(B, p) BY <1>2, <1>3 DEF Path
<1>5. Final(p[0]) BY <1>4 DEF Settled
<1> QED BY <1>2, <1>5

\* What an item is notified of is its confirmations, or it already was notified of more.
LEMMA Accumulates ==
    ASSUME NEW B, Tree(B), NEW it \in Items(B)
    PROVE  \/ Accumulated(it.notified, it) = it.confs
           \/ /\ Accumulated(it.notified, it) = it.notified
              /\ Len(it.confs) < Len(it.notified)
              /\ \A i \in 1..Len(it.confs) : it.confs[i] = it.notified[i]
<1> DEFINE c == it.confs
           d == it.notified
<1>0. c \in Seq(B) /\ d \in Seq(B) /\ Len(c) \in Nat /\ Len(d) \in Nat BY ItemFields
<1> HIDE DEF c, d
<1>1. CASE NewFork(it) BY <1>1 DEF Accumulated, Additional, c
<1>2. CASE ~NewFork(it)
  <2>1. \A i \in 1..Len(c) : i <= Len(d) => c[i].hash = d[i].hash BY <1>2 DEF NewFork, c, d
  <2>2. ASSUME NEW i \in 1..Len(c), i <= Len(d) PROVE c[i] = d[i]
    <3>1. c[i] \in B /\ d[i] \in B BY <1>0, <2>2
    <3> QED BY <2>1, <2>2, <3>1 DEF Tree
  <2>3. Accumulated(it.notified, it) = d \o SubSeq(c, Len(d) + 1, Len(c)) BY <1>2 DEF Accumulated, Additional, c, d
  <2>4. CASE Len(c) < Len(d)
    <3>1. SubSeq(c, Len(d) + 1, Len(c)) = <<>> BY <1>0, <2>4
    <3>2. d \o <<>> = d BY <1>0
    <3>3. \A i \in 1..Len(c) : c[i] = d[i] BY <1>0, <2>2, <2>4
    <3> QED BY <2>3, <2>4, <3>1, <3>2, <3>3 DEF c, d
  <2>5. CASE Len(d) <= Len(c)
    <3>1. PICK e : e = SubSeq(c, Len(d) + 1, Len(c)) OBVIOUS
    <3>2. e \in Seq(B) /\ Len(e) = Len(c) - Len(d) /\ \A i \in 1..Len(e) : e[i] = c[Len(d) + i] BY <1>0, <2>5, <3>1
    <3>3. PICK f : f = d \o e OBVIOUS
    <3>4. /\ f \in Seq(B) /\ Len(f) = Len(d) + Len(e) /\ \A i \in 1..Len(d) : f[i] = d[i]
          /\ \A i \in 1..Len(f) : i > Len(d) => f[i] = e[i - Len(d)] BY <1>0, <3>2, <3>3
    <3>5. Len(f) = Len(c) BY <1>0, <3>2, <3>4
    <3>6. ASSUME NEW i \in 1..Len(c) PROVE f[i] = c[i]
      <4>1. CASE i <= Len(d)
        <5>1. i \in 1..Len(d) BY <1>0, <4>1
        <5> QED BY <2>2, <3>4, <4>1, <5>1
      <4>2. CASE i > Len(d)
        <5>1. i - Len(d) \in 1..Len(e) /\ Len(d) + (i - Len(d)) = i /\ i \in 1..Len(f) BY <1>0, <3>2, <3>5, <4>2
        <5> QED BY <3>2, <3>4, <4>2, <5>1
      <4> QED BY <1>0, <4>1, <4>2
    <3>7. f = c BY <1>0, <3>4, <3>5, <3>6, SeqEqual
    <3> QED BY <2>3, <3>1, <3>3, <3>7 DEF c
  <2> QED BY <1>0, <2>4, <2>5
<1> QED BY <1>1, <1>2

\* A chain on a block is linked, and a linked one that begins on the block is a chain on it.
LEMMA ChainLinked ==
    ASSUME NEW b, NEW S, NEW s \in Seq(S), ChainOn(b, s), b.number \in Int
    PROVE  Linked(s)
<1> SUFFICES ASSUME NEW i \in 1..(Len(s) - 1) PROVE s[i + 1].parent = s[i].hash /\ s[i + 1].number = s[i].number + 1
  BY DEF Linked
<1>1. i \in 1..Len(s) /\ i + 1 \in 1..Len(s) /\ i + 1 # 1 /\ (i + 1) - 1 = i OBVIOUS
<1>2. s[i + 1].parent = s[i].hash BY <1>1 DEF ChainOn
<1>3. s[i + 1].number = b.number + (i + 1) /\ s[i].number = b.number + i BY <1>1 DEF ChainOn
<1> QED BY <1>2, <1>3

LEMMA LinkedChain ==
    ASSUME NEW b, NEW B, B \subseteq Blocks, NEW s \in Seq(B), Linked(s), s # <<>>, b.number \in Int,
           s[1].parent = b.hash, s[1].number = b.number + 1
    PROVE  ChainOn(b, s)
<1>0. Len(s) \in Nat /\ \A i \in 1..Len(s) : s[i].number \in Int
  <2>1. \A i \in 1..Len(s) : s[i] \in Blocks OBVIOUS
  <2> QED BY <2>1, BlockFields
<1> DEFINE Off(i) == s[i].number # b.number + i
           S == {i \in 1..Len(s) : Off(i)}
<1>1. ASSUME S # {} PROVE FALSE
  <2>0. S \in SUBSET Nat OBVIOUS
  <2>1. PICK m \in S : \A j \in S : m <= j
    <3> HIDE DEF S
    <3> QED BY <1>1, <2>0, Smallest
  <2>2. m \in 1..Len(s) /\ Off(m) OBVIOUS
  <2>3. m # 1 BY <2>2
  <2>4. m - 1 \in 1..(Len(s) - 1) /\ m - 1 \in 1..Len(s) /\ (m - 1) + 1 = m /\ ~(m <= m - 1) BY <1>0, <2>2, <2>3
  <2>5. m - 1 \notin S
    <3> HIDE DEF S
    <3> QED BY <2>1, <2>4
  <2>6. s[m - 1].number = b.number + (m - 1) BY <2>4, <2>5
  <2>7. s[m].number = s[m - 1].number + 1 BY <2>4 DEF Linked
  <2> QED BY <2>2, <2>6, <2>7
<1>2. ASSUME NEW i \in 1..Len(s) PROVE s[i].parent = IF i = 1 THEN b.hash ELSE s[i - 1].hash
  <2>1. CASE i = 1 BY <2>1
  <2>2. CASE i # 1
    <3>1. i - 1 \in 1..(Len(s) - 1) /\ (i - 1) + 1 = i BY <1>0, <2>2
    <3> QED BY <2>2, <3>1 DEF Linked
  <2> QED BY <2>1, <2>2
<1> QED BY <1>1, <1>2 DEF ChainOn

\* What dispatchConfirmations makes of an item and of what its callbacks were told.
DispatchedItem(it) == [it EXCEPT !.notified = Accumulated(@, it)]
DispatchedTelling(tl, it) ==
    [tl EXCEPT !.list = Accumulated(@, it), !.confirmed = IF it.confirmed THEN it.blk ELSE @]

Dispatched(B, o, it, jt, tl, tm) ==
    /\ jt \in Items(B) /\ tm \in Tellings(B)
    /\ GoodItem(o, jt, tm)
    /\ jt = [it EXCEPT !.notified = jt.notified]
    /\ tm.confirmed = IF it.confirmed THEN it.blk ELSE tl.confirmed
    /\ mode = "full" /\ R > 0 /\ it.confirmed /\ Len(it.confs) >= R =>
         /\ ChainOn(it.blk, tm.list)
         /\ Len(tm.list) >= R
         /\ role = "tx" => tm.receipt = it.blk

LEMMA DispatchItem ==
    ASSUME NEW B, Tree(B), setup \in Setups, NEW o, NEW it \in Items(B), NEW tl \in Tellings(B), GoodItem(o, it, tl)
    PROVE  Dispatched(B, o, it, DispatchedItem(it), tl, DispatchedTelling(tl, it))
<1>0. /\ it.confs \in Seq(B) /\ it.notified \in Seq(B) /\ it.blk \in B \cup {NoBlock} /\ tl.list \in Seq(B)
      /\ it.confirmed \in BOOLEAN /\ tl.confirmed \in B \cup {NoBlock} /\ tl.receipt \in B \cup {NoBlock}
      /\ B \subseteq Blocks /\ R \in Nat
  BY ItemFields, TellingFields, RAssumption DEF Tree
<1>n. it.blk.number \in Int /\ NoBlock.number = 0 BY <1>0, BlockFields DEF NoBlock
<1>1. PICK acc : acc = Accumulated(it.notified, it) OBVIOUS
<1>2. \/ acc = it.confs
      \/ acc = it.notified /\ Len(it.confs) < Len(it.notified) /\ \A i \in 1..Len(it.confs) : it.confs[i] = it.notified[i]
  BY <1>1, Accumulates
<1>3. acc \in Seq(B) BY <1>0, <1>2
<1>4. Accumulated(tl.list, it) = acc
  <2>1. CASE NewFork(it) BY <1>1, <2>1 DEF Accumulated
  <2>2. CASE ~NewFork(it)
    <3>1. tl.list = it.notified BY <2>2 DEF NewFork, GoodItem
    <3> QED BY <1>1, <3>1
  <2> QED BY <2>1, <2>2
<1>5. PICK jt : jt = DispatchedItem(it) OBVIOUS
<1>6. PICK tm : tm = DispatchedTelling(tl, it) OBVIOUS
<1>7. /\ jt \in Items(B) /\ jt.blk = it.blk /\ jt.confs = it.confs /\ jt.notified = acc /\ jt.confirmed = it.confirmed
      /\ jt = [it EXCEPT !.notified = jt.notified]
  <2>1. jt = [it EXCEPT !.notified = acc] BY <1>1, <1>5 DEF DispatchedItem
  <2> QED BY <1>3, <2>1 DEF Items
<1>8. /\ tm \in Tellings(B) /\ tm.list = acc /\ tm.receipt = tl.receipt
      /\ tm.confirmed = IF it.confirmed THEN it.blk ELSE tl.confirmed
  <2>1. tm = [tl EXCEPT !.list = acc, !.confirmed = IF it.confirmed THEN it.blk ELSE tl.confirmed]
    BY <1>4, <1>6 DEF DispatchedTelling
  <2> QED BY <1>0, <1>3, <2>1 DEF Tellings
<1>9. ASSUME mode = "full" PROVE Linked(it.confs) BY <1>0, <1>9, <1>n, ChainLinked DEF GoodItem
<1>10. Linked(acc)
  <2>1. CASE mode = "full" BY <1>2, <1>9, <2>1 DEF GoodItem
  <2>2. CASE mode # "full"
    <3>1. mode = "light" BY <2>2, SetupOK
    <3>2. CASE acc = it.notified BY <3>2 DEF GoodItem
    <3>3. CASE acc = it.confs
      <4>1. acc = <<>> /\ Len(acc) = 0 BY <3>1, <3>3 DEF GoodItem
      <4> QED BY <4>1 DEF Linked
    <3> QED BY <1>2, <3>2, <3>3
  <2> QED BY <2>1, <2>2
<1>11. GoodItem(o, jt, tm)
  <2>1. jt.confirmed => Final(jt.blk) BY <1>7 DEF GoodItem
  <2>2. tm.confirmed # NoBlock => Final(tm.confirmed) BY <1>8 DEF GoodItem
  <2>3. jt.notified # <<>> => tm.list = jt.notified BY <1>7, <1>8
  <2> QED BY <1>7, <1>8, <1>10, <2>1, <2>2, <2>3 DEF GoodItem
<1>12. ASSUME mode = "full", R > 0, it.confirmed, Len(it.confs) >= R
       PROVE  ChainOn(it.blk, tm.list) /\ Len(tm.list) >= R /\ (role = "tx" => tm.receipt = it.blk)
  <2>1. ChainOn(it.blk, it.confs) /\ it.blk # NoBlock /\ Len(it.confs) >= 1 /\ Len(it.confs) \in Nat
    <3>1. Len(it.confs) \in Nat /\ Len(it.confs) >= 1 BY <1>0, <1>12
    <3>2. it.confs # <<>> BY <3>1
    <3> QED BY <1>12, <3>1, <3>2 DEF GoodItem
  <2>2. role = "tx" => tm.receipt = it.blk BY <1>8, <1>12, <2>1 DEF GoodItem
  <2>3. CASE acc = it.confs BY <1>8, <1>12, <2>1, <2>2, <2>3
  <2>4. CASE acc = it.notified /\ Len(it.confs) < Len(it.notified) /\ \A i \in 1..Len(it.confs) : it.confs[i] = it.notified[i]
    <3>1. 1 \in 1..Len(it.confs) BY <2>1
    <3>2. acc[1] = it.confs[1] BY <2>4, <3>1
    <3>3. acc[1].parent = it.blk.hash /\ acc[1].number = it.blk.number + 1 BY <2>1, <3>1, <3>2 DEF ChainOn
    <3>4. Len(acc) \in Nat /\ Len(acc) >= R /\ acc # <<>> BY <1>0, <1>3, <1>12, <2>1, <2>4
    <3>5. ChainOn(it.blk, acc) BY <1>0, <1>3, <1>10, <1>n, <3>3, <3>4, LinkedChain
    <3> QED BY <1>8, <2>2, <3>4, <3>5
  <2> QED BY <1>2, <2>3, <2>4
<1> QED BY <1>5, <1>6, <1>7, <1>8, <1>11, <1>12 DEF Dispatched

\* dispatchConfirmations of the items in S.
DispatchedAll(B, its, S) ==
    /\ items' \in [Ids -> Items(B)] /\ told' \in [Ids -> Tellings(B)] /\ out' \in Seq(Ids)
    /\ pending' \subseteq pending
    /\ \A o \in Ids :
         /\ GoodItem(o, items'[o], told'[o])
         /\ items'[o] = [its[o] EXCEPT !.notified = items'[o].notified]
         /\ o \notin S => items'[o] = its[o] /\ told'[o] = told[o]
         /\ o \in S /\ mode = "full" /\ R > 0 /\ its[o].confirmed /\ Len(its[o].confs) >= R =>
              /\ told'[o].confirmed = its[o].blk /\ ChainOn(its[o].blk, told'[o].list)
              /\ Len(told'[o].list) >= R /\ (role = "tx" => told'[o].receipt = its[o].blk)

LEMMA DispatchOK ==
    ASSUME NEW B, Tree(B), setup \in Setups, NEW its \in [Ids -> Items(B)], told \in [Ids -> Tellings(B)],
           \A o \in Ids : GoodItem(o, its[o], told[o]), out \in Seq(Ids),
           NEW S \in SUBSET Ids, IsFiniteSet(S), DispatchConfirmations(its, S)
    PROVE  DispatchedAll(B, its, S)
<1> DEFINE D == {o \in S : Dispatches(its[o])}
           C == {o \in S : its[o].confirmed}
<1>1. items' = [o \in Ids |-> IF o \in D THEN DispatchedItem(its[o]) ELSE its[o]]
  BY DEF DispatchConfirmations, DispatchedItem
<1>2. told' = [o \in Ids |-> IF o \in D THEN DispatchedTelling(told[o], its[o]) ELSE told[o]]
  <2>1. told' = [o \in Ids |-> IF o \notin D THEN told[o]
                                ELSE [told[o] EXCEPT !.list = Accumulated(@, its[o]),
                                                     !.confirmed = IF o \in C THEN its[o].blk ELSE @]]
    BY DEF DispatchConfirmations
  <2>2. ASSUME NEW o \in D
        PROVE  [told[o] EXCEPT !.list = Accumulated(@, its[o]), !.confirmed = IF o \in C THEN its[o].blk ELSE @]
                 = DispatchedTelling(told[o], its[o])
    <3>1. o \in C <=> its[o].confirmed OBVIOUS
    <3> QED BY <3>1 DEF DispatchedTelling
  <2> HIDE DEF D, C
  <2> QED BY <2>1, <2>2
<1>3. ASSUME NEW o \in Ids
      PROVE  /\ items'[o] \in Items(B) /\ told'[o] \in Tellings(B) /\ GoodItem(o, items'[o], told'[o])
             /\ items'[o] = [its[o] EXCEPT !.notified = items'[o].notified]
             /\ o \notin S => items'[o] = its[o] /\ told'[o] = told[o]
             /\ o \in S /\ mode = "full" /\ R > 0 /\ its[o].confirmed /\ Len(its[o].confs) >= R =>
                  /\ told'[o].confirmed = its[o].blk /\ ChainOn(its[o].blk, told'[o].list)
                  /\ Len(told'[o].list) >= R /\ (role = "tx" => told'[o].receipt = its[o].blk)
  <2>0. its[o] \in Items(B) /\ told[o] \in Tellings(B) /\ GoodItem(o, its[o], told[o]) OBVIOUS
  <2>1. CASE o \in D
    <3>1. items'[o] = DispatchedItem(its[o]) /\ told'[o] = DispatchedTelling(told[o], its[o]) /\ o \in S
      BY <1>1, <1>2, <2>1
    <3> HIDE DEF D, C
    <3>a. Dispatched(B, o, its[o], items'[o], told[o], told'[o])
      <4>1. Dispatched(B, o, its[o], DispatchedItem(its[o]), told[o], DispatchedTelling(told[o], its[o]))
        BY <2>0, DispatchItem, Zenon
      <4> QED BY <3>1, <4>1
    <3>2. /\ items'[o] \in Items(B) /\ told'[o] \in Tellings(B) /\ GoodItem(o, items'[o], told'[o])
          /\ items'[o] = [its[o] EXCEPT !.notified = items'[o].notified]
      BY <3>a DEF Dispatched
    <3>3. ASSUME mode = "full", R > 0, its[o].confirmed, Len(its[o].confs) >= R
          PROVE  /\ told'[o].confirmed = its[o].blk /\ ChainOn(its[o].blk, told'[o].list)
                 /\ Len(told'[o].list) >= R /\ (role = "tx" => told'[o].receipt = its[o].blk)
      BY <3>3, <3>a DEF Dispatched
    <3> QED BY <3>1, <3>2, <3>3
  <2>2. CASE o \notin D
    <3>1. items'[o] = its[o] /\ told'[o] = told[o] BY <1>1, <1>2, <2>2
    <3>2. o \in S => ~its[o].confirmed BY <2>2 DEF Dispatches
    <3>3. its[o] = [its[o] EXCEPT !.notified = its[o].notified] BY <2>0 DEF Items
    <3> HIDE DEF D, C
    <3> QED BY <2>0, <3>1, <3>2, <3>3
  <2> QED BY <2>1, <2>2
<1>4. items' \in [Ids -> Items(B)] /\ told' \in [Ids -> Tellings(B)] BY <1>1, <1>2, <1>3
<1>5. out' \in Seq(Ids)
  <2>1. PICK s \in SortedByBlock(its, C) : out' = out \o s BY DEF DispatchConfirmations
  <2>2. C \in SUBSET S /\ C \in SUBSET Ids OBVIOUS
  <2> HIDE DEF C
  <2>3. IsFiniteSet(C) BY <2>2, FS_Subset
  <2>4. s \in Seq(C) BY <2>3, SortedType
  <2>5. s \in Seq(Ids) BY <2>2, <2>4, SeqMonotonic
  <2> QED BY <2>1, <2>5
<1>6. pending' \subseteq pending BY DEF DispatchConfirmations
<1> HIDE DEF D, C
<1> QED BY <1>3, <1>4, <1>5, <1>6 DEF DispatchedAll

(***************************************************************************)
(* What the steps of the listener leave alone                              *)
(***************************************************************************)

\* No receipt check of the item begins or ends; or one begins.
Kept(o) == /\ items'[o].queued = items[o].queued
           /\ items'[o].gen = items[o].gen /\ items'[o].applied = items[o].applied
Begun(o) == /\ ~items[o].queued /\ items'[o].queued
            /\ items'[o].gen = items[o].gen + 1 /\ items'[o].applied = items[o].applied

Shrinks == Queue' = Queue \/ (Queue # <<>> /\ Queue' = Tail(Queue))

LEMMA ArrivalsShrink ==
    ASSUME NEW B, Held(B), Shrinks, worker' = worker PROVE Arrivals' \subseteq Arrivals
<1>0. Queue \in Seq(QueueNotes(B)) BY QueueType
<1>1. ReceiptsIn(Queue') \subseteq ReceiptsIn(Queue) BY <1>0, ReceiptsTail DEF Shrinks
<1>2. Fetched' = Fetched BY DEF Fetched
<1>3. Arrivals' = Fetched' \cup ReceiptsIn(Queue') BY DEF Arrivals, ReceiptsIn
<1> QED BY <1>1, <1>2, <1>3 DEF Arrivals

LEMMA QueryFrame ==
    ASSUME NEW B, Held(B), Shape, QueryOK, items' \in [Ids -> Items(B)], worker' = worker, entries' \in Seq(CheckIds),
           \A i, j \in 1..Len(entries') : entries'[i] = entries'[j] => i = j,
           \A i \in 1..Len(entries') : Begun(entries'[i]) \/ \E j \in 1..Len(entries) : entries'[i] = entries[j],
           \A o \in Ids : Kept(o) \/ Begun(o)
    PROVE  QueryOK'
<1>1. \A i \in 1..Len(entries') : items'[entries'[i]].queued
  <2> SUFFICES ASSUME NEW i \in 1..Len(entries') PROVE items'[entries'[i]].queued OBVIOUS
  <2>0. entries'[i] \in Ids BY CheckIdsOK
  <2>1. CASE Begun(entries'[i]) BY <2>1 DEF Begun
  <2>2. CASE \E j \in 1..Len(entries) : entries'[i] = entries[j]
    <3>1. items[entries'[i]].queued BY <2>2 DEF QueryOK
    <3> QED BY <2>0, <3>1 DEF Kept, Begun
  <2> QED BY <2>1, <2>2
<1>2. ASSUME NEW w \in Workers, worker[w].at = "query"
      PROVE  /\ items'[worker[w].item].queued /\ worker[w].gen = items'[worker[w].item].gen
             /\ \A i \in 1..Len(entries') : entries'[i] # worker[w].item
             /\ \A v \in Workers : worker[v].at = "query" /\ worker[v].item = worker[w].item => v = w
  <2>1. worker[w].item \in Ids
    <3>1. worker[w] \in WorkerStates(B) BY DEF Held
    <3> QED BY <1>2, <3>1, WorkerFields, CheckIdsOK
  <2>2. /\ items[worker[w].item].queued /\ worker[w].gen = items[worker[w].item].gen
        /\ \A i \in 1..Len(entries) : entries[i] # worker[w].item
        /\ \A v \in Workers : worker[v].at = "query" /\ worker[v].item = worker[w].item => v = w BY <1>2 DEF QueryOK
  <2>3. Kept(worker[w].item) /\ ~Begun(worker[w].item) BY <2>1, <2>2 DEF Begun
  <2>4. \A i \in 1..Len(entries') : entries'[i] # worker[w].item BY <2>2, <2>3
  <2> QED BY <2>2, <2>3, <2>4 DEF Kept
<1>3. ASSUME NEW o \in Ids
      PROVE  items'[o].applied <= items'[o].gen /\ (items'[o].queued => items'[o].applied < items'[o].gen)
  <2>1. items[o] \in Items(B) BY DEF Held
  <2>2. items[o].gen \in Nat /\ items[o].applied \in Nat BY <2>1, ItemFields
  <2>3. items[o].applied <= items[o].gen /\ (items[o].queued => items[o].applied < items[o].gen) BY DEF QueryOK
  <2> QED BY <2>2, <2>3 DEF Kept, Begun
<1> QED BY <1>1, <1>2, <1>3 DEF QueryOK

LEMMA ArrivalsFrame ==
    ASSUME NEW B, Held(B), Shape, ArrivalsOK, items' \in [Ids -> Items(B)],
           UNCHANGED <<chain, setup>>, Arrivals' \subseteq Arrivals,
           \A o \in Ids : Kept(o) \/ Begun(o),
           mode = "full" => \A o \in Ids : items'[o].blk = items[o].blk
    PROVE  ArrivalsOK'
<1>1. Arrivals' \subseteq Arrivals OBVIOUS
<1>2. \A b : Canonical(b)' = Canonical(b) BY DEF Canonical
<1>3. mode' = mode BY DEF mode
<1>4. ASSUME NEW a \in Arrivals PROVE ArrivalOK(a)'
  <2>1. a[1] \in Ids /\ a[2] \in Nat BY ArrivalFields
  <2>2. ArrivalOK(a) BY DEF ArrivalsOK
  <2>3. items[a[1]].gen \in Nat /\ items[a[1]].queued \in BOOLEAN
    <3>1. items[a[1]] \in Items(B) BY <2>1 DEF Held
    <3> QED BY <3>1, ItemFields
  <2>4. Kept(a[1]) \/ Begun(a[1]) BY <2>1
  <2>5. 1 <= a[2] /\ a[2] <= items'[a[1]].gen /\ (items'[a[1]].queued => a[2] < items'[a[1]].gen)
    BY <2>1, <2>2, <2>3, <2>4 DEF ArrivalOK, Kept, Begun
  <2>6. mode = "full" /\ items'[a[1]].applied < a[2] /\ Canonical(items'[a[1]].blk) => a[3] = items'[a[1]].blk
    BY <2>1, <2>2, <2>4 DEF ArrivalOK, Kept, Begun
  <2>7. role' = "tx" => Key(a[1]) \in a[3].txs BY <2>2 DEF ArrivalOK, role
  <2>8. Canonical(items[a[1]].blk)' = Canonical(items'[a[1]].blk) BY DEF Canonical
  <2> QED BY <1>3, <2>5, <2>6, <2>7, <2>8 DEF ArrivalOK
<1>5. ASSUME NEW a \in Arrivals, NEW c \in Arrivals, mode' = "full", a[1] = c[1], a[2] <= c[2], Canonical(a[3])'
      PROVE  c[3] = a[3]
  BY <1>2, <1>3, <1>5 DEF ArrivalsOK
<1> QED BY <1>1, <1>4, <1>5 DEF ArrivalsOK

LEMMA FreshFrame ==
    ASSUME NEW B, Held(B), setup \in Setups, FreshOK, UNCHANGED <<setup, adds>>, Shrinks,
           Untouched \subseteq Untouched'
    PROVE  FreshOK'
<1> SUFFICES ASSUME role = "tx"
             PROVE  /\ \A i \in 1..Len(Queue') : Queue'[i].type = "newTx" =>
                         Queue'[i].item \in Untouched' /\ Queue'[i].item[2] <= adds[Queue'[i].item[1]]
                    /\ \A i, j \in 1..Len(Queue') :
                         Queue'[i].type = "newTx" /\ Queue'[j].type = "newTx" /\ Queue'[i].item = Queue'[j].item => i = j
                    /\ \A o \in TxIds : o[2] > adds[o[1]] => o \in Untouched'
  <2>1. role' = role BY DEF role
  <2> QED BY <2>1 DEF FreshOK
<1>0. Queue \in Seq(QueueNotes(B)) BY QueueType
<1>1. \A i \in 1..Len(Queue) : Queue[i].type = "newTx" =>
        Queue[i].item \in TxIds /\ Queue[i].item \in Untouched /\ Queue[i].item[2] <= adds[Queue[i].item[1]]
  <2> SUFFICES ASSUME NEW i \in 1..Len(Queue), Queue[i].type = "newTx"
               PROVE  Queue[i].item \in TxIds /\ Queue[i].item \in Untouched /\ Queue[i].item[2] <= adds[Queue[i].item[1]]
    OBVIOUS
  <2>1. Queue[i] \in QueueNotes(B) BY <1>0
  <2>2. Queue[i].item \in TxIds BY <2>1, NoteFields
  <2> QED BY <2>2 DEF FreshOK
<1>2. \A i, j \in 1..Len(Queue) :
        Queue[i].type = "newTx" /\ Queue[j].type = "newTx" /\ Queue[i].item = Queue[j].item => i = j BY DEF FreshOK
<1>3. \A o \in TxIds : o[2] > adds[o[1]] => o \in Untouched' BY DEF FreshOK
<1>4. CASE Queue' = Queue BY <1>1, <1>2, <1>3, <1>4
<1>5. CASE Queue # <<>> /\ Queue' = Tail(Queue)
  <2>1. Len(Queue') = Len(Queue) - 1 /\ \A i \in 1..Len(Queue') : i + 1 \in 1..Len(Queue) /\ Queue'[i] = Queue[i + 1]
    BY <1>0, <1>5
  <2>2. \A i \in 1..Len(Queue') : Queue'[i].type = "newTx" =>
          Queue'[i].item \in Untouched' /\ Queue'[i].item[2] <= adds[Queue'[i].item[1]] BY <1>1, <2>1
  <2>3. ASSUME NEW i \in 1..Len(Queue'), NEW j \in 1..Len(Queue'), Queue'[i].type = "newTx", Queue'[j].type = "newTx",
               Queue'[i].item = Queue'[j].item
        PROVE  i = j
    <3>1. i + 1 = j + 1 BY <1>2, <2>1, <2>3
    <3> QED BY <3>1
  <2> QED BY <1>3, <2>2, <2>3
<1> QED BY <1>4, <1>5 DEF Shrinks

LEMMA ArrivalsAppend ==
    ASSUME NEW B, Held(B), NEW n \in QueueNotes(B), n.type # "receipt", Queue' = Append(Queue, n), worker' = worker
    PROVE  Arrivals' \subseteq Arrivals
<1>0. Queue \in Seq(QueueNotes(B)) BY QueueType
<1>1. ReceiptsIn(Queue') \subseteq ReceiptsIn(Queue) BY <1>0, ReceiptsAppend
<1>2. Fetched' = Fetched BY DEF Fetched
<1>3. Arrivals' = Fetched' \cup ReceiptsIn(Queue') BY DEF Arrivals, ReceiptsIn
<1> QED BY <1>1, <1>2, <1>3 DEF Arrivals

\* A notification that adds nothing.
LEMMA FreshAppend ==
    ASSUME NEW B, Held(B), setup \in Setups, FreshOK, UNCHANGED <<setup, adds>>, NEW n \in QueueNotes(B), n.type # "newTx",
           Queue' = Append(Queue, n), Untouched \subseteq Untouched'
    PROVE  FreshOK'
<1> SUFFICES ASSUME role = "tx"
             PROVE  /\ \A i \in 1..Len(Queue') : Queue'[i].type = "newTx" =>
                         Queue'[i].item \in Untouched' /\ Queue'[i].item[2] <= adds[Queue'[i].item[1]]
                    /\ \A i, j \in 1..Len(Queue') :
                         Queue'[i].type = "newTx" /\ Queue'[j].type = "newTx" /\ Queue'[i].item = Queue'[j].item => i = j
                    /\ \A o \in TxIds : o[2] > adds[o[1]] => o \in Untouched'
  <2>1. role' = role BY DEF role
  <2> QED BY <2>1 DEF FreshOK
<1>0. Queue \in Seq(QueueNotes(B)) /\ Len(Queue) \in Nat BY QueueType
<1>1. Len(Queue') = Len(Queue) + 1 /\ \A i \in 1..Len(Queue) : Queue'[i] = Queue[i] BY <1>0
<1>2. \A i \in 1..Len(Queue') : Queue'[i].type = "newTx" => i \in 1..Len(Queue)
  <2>1. Queue'[Len(Queue) + 1] = n BY <1>0
  <2> QED BY <1>0, <1>1, <2>1
<1>3. \A i \in 1..Len(Queue') : Queue'[i].type = "newTx" =>
        Queue'[i].item \in Untouched' /\ Queue'[i].item[2] <= adds[Queue'[i].item[1]] BY <1>1, <1>2 DEF FreshOK
<1>4. \A i, j \in 1..Len(Queue') :
        Queue'[i].type = "newTx" /\ Queue'[j].type = "newTx" /\ Queue'[i].item = Queue'[j].item => i = j
  BY <1>1, <1>2 DEF FreshOK
<1>5. \A o \in TxIds : o[2] > adds[o[1]] => o \in Untouched' BY DEF FreshOK
<1> QED BY <1>3, <1>4, <1>5

\* Nothing arrives that was not on its way.
Fewer == Shrinks \/ (role = "event" /\ Arrivals' \subseteq Arrivals)

\* The items, what was told and the receipt checks stay as they are.
StillItems == UNCHANGED <<chain, final, mined, setup, items, told, out, entries, worker>>
Loops(B) ==
    /\ bq' \in Seq(BlockEvents(B)) /\ Len(bq') <= BlockCap /\ blocked' \in Seq(BlockEvents(B)) /\ Len(blocked') <= 1
    /\ missed' \in BOOLEAN /\ logs' \in Seq(EventNotes(B)) /\ (role = "tx" => logs' = <<>>)
    /\ notes' \in Seq(QueueNotes(B)) /\ nq' \in Seq(QueueNotes(B)) /\ Len(nq') <= NoteCap
    /\ hashes' \in Seq(B) /\ cache' \subseteq B
    /\ up' \in {"up", "stopping", "down"} /\ sessions' \in 1..MaxSessions
    /\ (up' # "up" => role = "event" /\ sessions' < MaxSessions)
    /\ todo' \subseteq Ids /\ cur' \in Ids \cup {NoId} /\ pc' \in {"idle", "walk", "blocks", "notes"}
    /\ head' \in Int /\ head' <= final + R

Typed(B) ==
    /\ items' \in [Ids -> Items(B)] /\ told' \in [Ids -> Tellings(B)] /\ out' \in Seq(Ids)
    /\ worker' \in [Workers -> WorkerStates(B)]
    /\ entries' \in Seq(CheckIds)
    /\ pending' \subseteq Ids /\ IsFiniteSet(pending') /\ (role = "tx" => pending' \subseteq TxIds)
    /\ \A o, p \in pending' : Key(o) = Key(p) => o = p
    /\ adds' \in [Txs -> 0..MaxAdds]

\* What is held, put together again.
LEMMA HeldStep ==
    ASSUME NEW B, Shape, Loops(B), Typed(B), UNCHANGED <<final, setup>>
    PROVE  Held(B)' /\ Shape'
<1>1. role' = role /\ mode' = mode /\ EventNotes(B)' = EventNotes(B) BY DEF role, mode, EventNotes
<1>c. CheckIds' = CheckIds BY <1>1 DEF CheckIds
<1>n. QueueNotes(B)' = QueueNotes(B) /\ WorkerStates(B)' = WorkerStates(B)
  BY <1>1, <1>c DEF QueueNotes, TxNotes, EventNotes, ReceiptNotes, WorkerStates
<1>2. Held(B)' BY <1>1, <1>n DEF Loops, Held, Typed
<1>3. Shape' BY <1>1, <1>c DEF Loops, Shape, Typed
<1> QED BY <1>2, <1>3

\* What does not change is still of its type.
LEMMA TypedNow ==
    ASSUME NEW B, Held(B), Shape
    PROVE  /\ items \in [Ids -> Items(B)] /\ told \in [Ids -> Tellings(B)] /\ out \in Seq(Ids)
           /\ worker \in [Workers -> WorkerStates(B)]
           /\ entries \in Seq(CheckIds)
           /\ pending \subseteq Ids /\ IsFiniteSet(pending) /\ (role = "tx" => pending \subseteq TxIds)
           /\ \A o, p \in pending : Key(o) = Key(p) => o = p
           /\ adds \in [Txs -> 0..MaxAdds]
BY DEF Held, Shape

\* The invariant, put together again after a step that mines nothing.
LEMMA InvParts ==
    ASSUME NEW B, Inv(B), UNCHANGED <<chain, final, mined, setup>>, Loops(B), Typed(B),
           QueryOK', ArrivalsOK', FreshOK', \A o \in Ids : GoodItem(o, items'[o], told'[o]), LoopOK'
    PROVE  Inv(B)'
<1>0. ChainOK /\ Tree(B) /\ Settled(B) /\ Shape BY DEF Inv
<1>1. ChainOK' /\ Tree(B)' /\ Settled(B)' /\ (\A b : Final(b)' = Final(b)) BY <1>0, QuietTree
<1>2. Held(B)' /\ Shape' BY <1>0, HeldStep
<1>3. ItemsOK'
  <2>1. \A b : Final(b) => Final(b)' BY <1>1
  <2>2. mode' = mode /\ role' = role BY DEF mode, role
  <2> SUFFICES ASSUME NEW o \in Ids PROVE GoodItem(o, items[o], told[o])' BY DEF ItemsOK
  <2>3. GoodItem(o, items'[o], told'[o]) OBVIOUS
  <2>4. items'[o].confirmed => Final(items'[o].blk) BY <2>3 DEF GoodItem
  <2>5. told'[o].confirmed # NoBlock => Final(told'[o].confirmed) BY <2>3 DEF GoodItem
  <2>6. Final(items'[o].blk) => Final(items[o].blk)' BY DEF Final, Canonical
  <2>7. Final(told'[o].confirmed) => Final(told[o].confirmed)' BY DEF Final, Canonical
  <2> QED BY <2>2, <2>3, <2>4, <2>5, <2>6, <2>7 DEF GoodItem
<1> QED BY <1>1, <1>2, <1>3 DEF Inv

LEMMA QuietItems ==
    ASSUME NEW B, Inv(B), StillItems, Loops(B), adds' = adds, pending' \subseteq pending, Fewer, LoopOK'
    PROVE  Inv(B)'
<1>0. Held(B) /\ Shape /\ QueryOK /\ ArrivalsOK /\ FreshOK /\ ItemsOK BY DEF Inv
<1>s. UNCHANGED <<chain, final, mined, setup, items, told, out, entries, worker>> BY DEF StillItems
<1>2. /\ pending' \subseteq Ids /\ IsFiniteSet(pending') /\ (role = "tx" => pending' \subseteq TxIds)
      /\ \A o, p \in pending' : Key(o) = Key(p) => o = p BY <1>0, FS_Subset DEF Shape
<1>3. Typed(B) BY <1>0, <1>s, <1>2, TypedNow DEF Typed
<1>6. QueryOK' BY <1>0, <1>s DEF QueryOK
<1>7. \A o \in Ids : GoodItem(o, items'[o], told'[o]) BY <1>0, <1>s DEF ItemsOK
<1>8. ArrivalsOK'
  <2>1. Arrivals' \subseteq Arrivals BY <1>0, <1>s, ArrivalsShrink DEF Fewer
  <2>2. \A o \in Ids : Kept(o) BY <1>s DEF Kept
  <2>3. items' \in [Ids -> Items(B)] BY <1>3 DEF Typed
  <2> QED BY <1>0, <1>s, <2>1, <2>2, <2>3, ArrivalsFrame
<1>9. FreshOK'
  <2>1. CASE role = "event" BY <1>s, <2>1 DEF FreshOK, role
  <2>2. CASE Shrinks
    <3>1. Untouched \subseteq Untouched' BY <1>s DEF Untouched
    <3> QED BY <1>0, <1>s, <2>2, <3>1, FreshFrame DEF Shape
  <2> QED BY <2>1, <2>2 DEF Fewer
<1> QED BY <1>s, <1>3, <1>6, <1>7, <1>8, <1>9, InvParts

(***************************************************************************)
(* Steps that leave the items alone                                        *)
(***************************************************************************)

LEMMA Now ==
    ASSUME NEW B, Held(B), Shape
    PROVE  /\ bq \in Seq(BlockEvents(B)) /\ Len(bq) <= BlockCap /\ blocked \in Seq(BlockEvents(B)) /\ Len(blocked) <= 1
           /\ missed \in BOOLEAN /\ logs \in Seq(EventNotes(B)) /\ (role = "tx" => logs = <<>>)
           /\ notes \in Seq(QueueNotes(B)) /\ nq \in Seq(QueueNotes(B)) /\ Len(nq) <= NoteCap
           /\ hashes \in Seq(B) /\ cache \subseteq B
           /\ up \in {"up", "stopping", "down"} /\ sessions \in 1..MaxSessions
           /\ (up # "up" => role = "event" /\ sessions < MaxSessions)
           /\ todo \subseteq Ids /\ cur \in Ids \cup {NoId} /\ pc \in {"idle", "walk", "blocks", "notes"}
           /\ head \in Int /\ head <= final + R
BY DEF Held, Shape

LEMMA UnblockStep == ASSUME NEW B, Inv(B), Unblock PROVE Inv(B)'
<1>0. Held(B) /\ Shape /\ LoopOK BY DEF Inv
<1>1. blocked # <<>> /\ Len(bq) < BlockCap /\ bq' = Append(bq, blocked[1]) /\ blocked' = <<>> BY DEF Unblock
<1>2. UNCHANGED <<chainVars, runVars, nq, viewVars, itemVars, loopVars, checkVars, clientVars>> BY DEF Unblock
<1>3. BlockCap \in Nat BY CapsAssumption
<1>4. blocked[1] \in BlockEvents(B) BY <1>0, <1>1, Now
<1>5. bq' \in Seq(BlockEvents(B)) /\ Len(bq') <= BlockCap /\ blocked' \in Seq(BlockEvents(B)) /\ Len(blocked') <= 1
  BY <1>0, <1>1, <1>3, <1>4, Now
<1>6. Loops(B) BY <1>0, <1>2, <1>5, Now DEF Loops, chainVars, runVars, viewVars, loopVars
<1>7. LoopOK' BY <1>0, <1>2 DEF LoopOK, itemVars, loopVars
<1>8. Shrinks BY <1>2 DEF Shrinks, Queue, loopVars
<1>9. StillItems /\ adds' = adds /\ pending' \subseteq pending
  BY <1>2 DEF StillItems, chainVars, runVars, itemVars, checkVars, clientVars
<1> QED BY <1>6, <1>7, <1>8, <1>9, QuietItems DEF Fewer

LEMMA NotifyType ==
    ASSUME NEW B, Held(B), Shape, NEW n \in QueueNotes(B), Notify(n)
    PROVE  nq' \in Seq(QueueNotes(B)) /\ Len(nq') <= NoteCap /\ nq' = Append(nq, n)
<1>1. NoteCap \in Nat BY CapsAssumption
<1> QED BY <1>1, Now DEF Notify

LEMMA EventLogStep == ASSUME NEW B, Inv(B), EventLog PROVE Inv(B)'
<1>0. Held(B) /\ Shape /\ LoopOK BY DEF Inv
<1>1. logs # <<>> /\ Notify(Head(logs)) /\ logs' = Tail(logs) BY DEF EventLog
<1>2. UNCHANGED <<chain, final, mined, missed, runVars, blocked, bq, viewVars, itemVars, loopVars, checkVars, clientVars>>
  BY DEF EventLog
<1>3. role = "event" BY <1>0, <1>1, SetupOK DEF Shape
<1>4. Head(logs) \in EventNotes(B) /\ Tail(logs) \in Seq(EventNotes(B)) BY <1>0, <1>1, Now
<1>5. Head(logs) \in QueueNotes(B) BY <1>3, <1>4 DEF QueueNotes
<1>6. nq' \in Seq(QueueNotes(B)) /\ Len(nq') <= NoteCap BY <1>0, <1>1, <1>5, NotifyType
<1>7. Loops(B) BY <1>0, <1>1, <1>2, <1>3, <1>4, <1>6, Now DEF Loops, runVars, viewVars, loopVars
<1>8. LoopOK' BY <1>0, <1>2 DEF LoopOK, itemVars, loopVars
<1>9. StillItems /\ adds' = adds /\ pending' \subseteq pending BY <1>2 DEF StillItems, runVars, itemVars, checkVars, clientVars
<1>10. Head(logs).type # "receipt" BY <1>4 DEF EventNotes
<1>11. Queue' = Append(Queue, Head(logs))
  <2>1. nq' = Append(nq, Head(logs)) /\ notes' = notes BY <1>0, <1>1, <1>2, <1>5, NotifyType DEF loopVars
  <2> QED BY <1>0, <1>5, <2>1, Now, QueueAppend
<1>12. Arrivals' \subseteq Arrivals BY <1>0, <1>5, <1>9, <1>10, <1>11, ArrivalsAppend DEF StillItems
<1> QED BY <1>3, <1>7, <1>8, <1>9, <1>12, QuietItems DEF Fewer

LEMMA RemoveListenerStep == ASSUME NEW B, Inv(B), RemoveListener PROVE Inv(B)'
<1>0. Held(B) /\ Shape /\ LoopOK BY DEF Inv
<1>1. role = "event" /\ Notify([type |-> "listenerRemoved"]) /\ logs' = <<>> BY DEF RemoveListener
<1>2. UNCHANGED <<chain, final, mined, missed, runVars, blocked, bq, viewVars, itemVars, loopVars, checkVars, tracked, adds>>
  BY DEF RemoveListener
<1>3. [type |-> "listenerRemoved"] \in QueueNotes(B) BY <1>1 DEF QueueNotes
<1>4. nq' \in Seq(QueueNotes(B)) /\ Len(nq') <= NoteCap BY <1>0, <1>1, <1>3, NotifyType
<1>5. logs' \in Seq(EventNotes(B)) BY <1>1
<1>6. Loops(B) BY <1>0, <1>1, <1>2, <1>4, <1>5, Now DEF Loops, runVars, viewVars, loopVars
<1>7. LoopOK' BY <1>0, <1>2 DEF LoopOK, itemVars, loopVars
<1>8. StillItems /\ adds' = adds /\ pending' \subseteq pending BY <1>2 DEF StillItems, runVars, itemVars, checkVars
<1>9. Queue' = Append(Queue, [type |-> "listenerRemoved"])
  <2>1. nq' = Append(nq, [type |-> "listenerRemoved"]) /\ notes' = notes BY <1>0, <1>1, <1>2, <1>3, NotifyType DEF loopVars
  <2> QED BY <1>0, <1>3, <2>1, Now, QueueAppend
<1>10. Arrivals' \subseteq Arrivals BY <1>0, <1>3, <1>8, <1>9, ArrivalsAppend DEF StillItems
<1> QED BY <1>1, <1>6, <1>7, <1>8, <1>10, QuietItems DEF Fewer

LEMMA RequestStopStep == ASSUME NEW B, Inv(B), RequestStop PROVE Inv(B)'
<1>0. Held(B) /\ Shape /\ LoopOK BY DEF Inv
<1>1. role = "event" /\ sessions < MaxSessions /\ up' = "stopping" BY DEF RequestStop
<1>2. UNCHANGED <<chainVars, setup, sessions, queueVars, viewVars, itemVars, loopVars, checkVars, clientVars>> BY DEF RequestStop
<1>3. Loops(B) BY <1>0, <1>1, <1>2, Now DEF Loops, chainVars, queueVars, viewVars, loopVars
<1>4. LoopOK' BY <1>0, <1>2 DEF LoopOK, itemVars, loopVars
<1>5. StillItems /\ adds' = adds /\ pending' \subseteq pending
  BY <1>2 DEF StillItems, chainVars, itemVars, checkVars, clientVars
<1>6. Shrinks BY <1>2 DEF Shrinks, Queue, queueVars, loopVars
<1> QED BY <1>3, <1>4, <1>5, <1>6, QuietItems DEF Fewer

LEMMA StoppedStep == ASSUME NEW B, Inv(B), Stopped PROVE Inv(B)'
<1>0. Held(B) /\ Shape /\ QueryOK /\ ArrivalsOK /\ ItemsOK /\ LoopOK BY DEF Inv
<1>1. /\ up = "stopping" /\ pc = "idle" /\ up' = "down" /\ logs' = <<>> /\ blocked' = <<>> /\ notes' = <<>> /\ hashes' = <<>>
      /\ entries' = <<>> /\ worker' = [w \in Workers |-> Idle]
  BY DEF Stopped
<1>2. UNCHANGED <<chain, final, mined, missed, setup, sessions, bq, nq, viewVars, itemVars, pc, todo, cur,
                  newBlock, had, cache, lowestNil, clientVars>> BY DEF Stopped
<1>3. role = "event" /\ sessions < MaxSessions BY <1>0, <1>1, Now
<1>4. logs' \in Seq(EventNotes(B)) /\ blocked' \in Seq(BlockEvents(B)) /\ notes' \in Seq(QueueNotes(B)) /\ hashes' \in Seq(B)
      /\ Len(blocked') <= 1 BY <1>1
<1>5. Loops(B) BY <1>0, <1>1, <1>2, <1>3, <1>4, Now DEF Loops, viewVars
<1>6. LoopOK' BY <1>0, <1>1, <1>2 DEF LoopOK, itemVars
<1>7. UNCHANGED <<chain, final, mined, setup, items, told, out, pending, adds>> BY <1>2 DEF itemVars, clientVars
<1>8. \A w \in Workers : worker'[w] = Idle /\ worker'[w].at = "idle" BY <1>1 DEF Idle
<1>9. Typed(B)
  <2>1. worker' \in [Workers -> WorkerStates(B)] BY <1>1 DEF WorkerStates
  <2>2. entries' \in Seq(CheckIds) BY <1>1
  <2> QED BY <1>0, <1>7, <2>1, <2>2, TypedNow DEF Typed
<1>10. QueryOK'
  <2>1. Len(entries') = 0 BY <1>1
  <2> QED BY <1>0, <1>7, <1>8, <2>1 DEF QueryOK
<1>11. Arrivals' \subseteq Arrivals
  <2>1. Fetched' = {} BY <1>8 DEF Fetched
  <2>2. notes \in Seq(QueueNotes(B)) /\ nq \in Seq(QueueNotes(B)) /\ Queue' = nq BY <1>0, <1>1, <1>2, Now DEF Queue
  <2>3. ReceiptsIn(Queue') \subseteq ReceiptsIn(Queue) BY <2>2, ReceiptsRight DEF Queue
  <2>4. Arrivals' = Fetched' \cup ReceiptsIn(Queue') BY DEF Arrivals, ReceiptsIn
  <2> QED BY <2>1, <2>3, <2>4 DEF Arrivals
<1>12. ArrivalsOK'
  <2>1. \A o \in Ids : Kept(o) BY <1>7 DEF Kept
  <2>2. items' \in [Ids -> Items(B)] BY <1>9 DEF Typed
  <2> QED BY <1>0, <1>7, <1>11, <2>1, <2>2, ArrivalsFrame
<1>13. FreshOK' BY <1>3, <1>7 DEF FreshOK, role
<1>14. \A o \in Ids : GoodItem(o, items'[o], told'[o]) BY <1>0, <1>7 DEF ItemsOK
<1> QED BY <1>5, <1>6, <1>7, <1>9, <1>10, <1>12, <1>13, <1>14, InvParts

\* The first block alone has the hash 0.
LEMMA ChainHash ==
    ASSUME NEW B, ChainOK, Tree(B), NEW i \in 2..Len(chain) PROVE chain[i] \in B /\ chain[i].hash # 0
<1>1. Len(chain) \in Nat BY DEF ChainOK
<1>2. 1 \in 1..Len(chain) /\ i \in 1..Len(chain) BY <1>1
<1>3. chain[1] \in B /\ chain[i] \in B BY <1>2 DEF Tree
<1>4. chain[1].number = 0 /\ chain[i].number = i - 1 /\ chain[1].hash = 0 BY <1>2 DEF ChainOK
<1>5. chain[1] # chain[i] BY <1>1, <1>4
<1> QED BY <1>3, <1>4, <1>5 DEF Tree

LEMMA StartStep == ASSUME NEW B, Inv(B), Start PROVE Inv(B)'
<1>0. ChainOK /\ Tree(B) /\ Held(B) /\ Shape /\ LoopOK BY DEF Inv
<1>1. /\ up = "down" /\ up' = "up" /\ sessions' = sessions + 1
      /\ logs' = IF ~listening THEN <<>>
                 ELSE [i \in 1..(Len(chain) - 1 - LastConfirmed) |->
                         [type |-> "newEvent", blk |-> chain[LastConfirmed + i + 1]]]
  BY DEF Start
<1>2. UNCHANGED <<chain, final, mined, missed, setup, queueVars, viewVars, itemVars, loopVars, checkVars, clientVars>>
  BY DEF Start
<1>3. role = "event" /\ sessions < MaxSessions /\ sessions' \in 1..MaxSessions
  <2>1. MaxSessions \in Nat BY BoundsAssumption
  <2> QED BY <1>0, <1>1, <2>1, Now
<1>4. PICK m \in Nat : m = LastConfirmed
  <2>1. CASE out = <<>> BY <2>1 DEF LastConfirmed
  <2>2. CASE out # <<>>
    <3>1. Last(out) \in Ids BY <1>0, <2>2 DEF Shape, Last
    <3>2. items[Last(out)] \in Items(B) BY <1>0, <3>1 DEF Held
    <3>3. items[Last(out)].own \in B \cup {NoBlock} BY <3>2, ItemFields
    <3>4. items[Last(out)].own.number \in Nat BY <1>0, <3>3, BlockFields DEF Tree, NoBlock
    <3> QED BY <2>2, <3>4 DEF LastConfirmed
  <2> QED BY <2>1, <2>2
<1>5. logs' \in Seq(EventNotes(B))
  <2>1. CASE ~listening BY <1>1, <2>1
  <2>2. CASE listening
    <3>0. Len(chain) \in Nat BY <1>0 DEF ChainOK
    <3>1. logs' = [i \in 1..(Len(chain) - 1 - m) |-> [type |-> "newEvent", blk |-> chain[m + i + 1]]] BY <1>1, <1>4, <2>2
    <3>2. ASSUME NEW i \in 1..(Len(chain) - 1 - m) PROVE [type |-> "newEvent", blk |-> chain[m + i + 1]] \in EventNotes(B)
      <4>1. m + i + 1 \in 2..Len(chain) BY <3>0
      <4>2. chain[m + i + 1] \in B /\ chain[m + i + 1].hash # 0 BY <1>0, <4>1, ChainHash
      <4> QED BY <4>2 DEF EventNotes
    <3>3. CASE Len(chain) - 1 - m \in Nat
      <4>1. PICK k \in Nat : k = Len(chain) - 1 - m BY <3>3
      <4>2. logs' \in [1..k -> EventNotes(B)] BY <3>1, <3>2, <4>1
      <4> QED BY <4>2
    <3>4. CASE Len(chain) - 1 - m < 0
      <4>1. 1..(Len(chain) - 1 - m) = 1..0 BY <3>0, <3>4
      <4>2. logs' \in [1..0 -> EventNotes(B)] BY <3>1, <3>2, <4>1
      <4> QED BY <4>2
    <3> QED BY <3>0, <3>3, <3>4
  <2> QED BY <2>1, <2>2
<1>6. Loops(B) BY <1>0, <1>1, <1>2, <1>3, <1>5, Now DEF Loops, queueVars, viewVars, loopVars
<1>7. LoopOK' BY <1>0, <1>2 DEF LoopOK, itemVars, loopVars
<1>8. StillItems /\ adds' = adds /\ pending' \subseteq pending BY <1>2 DEF StillItems, itemVars, checkVars, clientVars
<1>9. Shrinks BY <1>2 DEF Shrinks, Queue, queueVars, loopVars
<1> QED BY <1>6, <1>7, <1>8, <1>9, QuietItems DEF Fewer

LEMMA BeginType ==
    ASSUME NEW B, Held(B), Shape, NEW isStale, NEW isBlock, NEW all, BeginIteration(isStale, isBlock, all), all \subseteq Ids
    PROVE  cache' \subseteq B /\ pc' \in {"walk", "blocks"} /\ todo' \subseteq Ids /\ cur' = cur
BY DEF BeginIteration

LEMMA ReceiveBlockStep == ASSUME NEW B, Inv(B), ReceiveBlock PROVE Inv(B)'
<1>0. Tree(B) /\ Held(B) /\ Shape /\ LoopOK BY DEF Inv
<1>1. /\ pc = "idle" /\ bq # <<>> /\ bq' = Tail(bq) /\ hashes' = Append(hashes, Head(bq).blk) /\ head' = Head(bq).blk.number
      /\ BeginIteration(stale \/ Head(bq).gap, TRUE, pending) BY DEF ReceiveBlock
<1>2. UNCHANGED <<chainVars, runVars, blocked, nq, high, itemVars, notes, checkVars, clientVars>> BY DEF ReceiveBlock
<1>3. pending \subseteq Ids BY <1>0 DEF Shape
<1>4. cache' \subseteq B /\ pc' \in {"walk", "blocks"} /\ todo' \subseteq Ids /\ cur' = cur BY <1>0, <1>1, <1>3, BeginType
<1>5. bq' \in Seq(BlockEvents(B)) /\ Len(bq') <= BlockCap /\ Head(bq) \in BlockEvents(B)
  <2>1. BlockCap \in Nat BY CapsAssumption
  <2> QED BY <1>0, <1>1, <2>1, Now
<1>6. Head(bq).blk \in B BY <1>5 DEF BlockEvents
<1>7. hashes' \in Seq(B) BY <1>0, <1>1, <1>6, Now
<1>8. head' \in Int /\ head' <= final + R BY <1>0, <1>1, <1>6, BlockFields DEF Tree
<1>9. cur' = NoId BY <1>0, <1>1, <1>4 DEF LoopOK
<1>10. Loops(B) BY <1>0, <1>2, <1>4, <1>5, <1>7, <1>8, <1>9, Now DEF Loops, chainVars, runVars
<1>11. LoopOK' BY <1>9 DEF LoopOK
<1>12. Shrinks BY <1>2 DEF Shrinks, Queue
<1>13. StillItems /\ adds' = adds /\ pending' \subseteq pending
  BY <1>2 DEF StillItems, chainVars, runVars, itemVars, checkVars, clientVars
<1> QED BY <1>10, <1>11, <1>12, <1>13, QuietItems DEF Fewer

LEMMA ReceiveNotificationStep == ASSUME NEW B, Inv(B), ReceiveNotification PROVE Inv(B)'
<1>0. Tree(B) /\ Held(B) /\ Shape /\ LoopOK BY DEF Inv
<1>1. /\ pc = "idle" /\ nq # <<>> /\ nq' = Tail(nq) /\ BeginIteration(stale, FALSE, pending')
      /\ \/ Head(nq).type = "listenerRemoved" /\ pending' = {} /\ notes' = notes
         \/ Head(nq).type # "listenerRemoved" /\ notes' = Append(notes, Head(nq)) /\ pending' = pending
  BY DEF ReceiveNotification
<1>2. UNCHANGED <<chainVars, runVars, blocked, bq, high, head, items, told, out, hashes, checkVars, clientVars>>
  BY DEF ReceiveNotification
<1>3. pending' \subseteq pending /\ pending' \subseteq Ids BY <1>0, <1>1 DEF Shape
<1>4. cache' \subseteq B /\ pc' \in {"walk", "blocks"} /\ todo' \subseteq Ids /\ cur' = cur
  <2>1. PICK all : all = pending' OBVIOUS
  <2>2. BeginIteration(stale, FALSE, all) /\ all \subseteq Ids BY <1>1, <1>3, <2>1
  <2> QED BY <1>0, <2>2, BeginType
<1>5. Head(nq) \in QueueNotes(B) /\ nq' \in Seq(QueueNotes(B)) /\ Len(nq') <= NoteCap
  <2>1. NoteCap \in Nat BY CapsAssumption
  <2> QED BY <1>0, <1>1, <2>1, Now
<1>6. notes' \in Seq(QueueNotes(B))
  <2>1. notes \in Seq(QueueNotes(B)) BY <1>0, Now
  <2>2. CASE notes' = notes BY <2>1, <2>2
  <2>3. CASE notes' = Append(notes, Head(nq)) BY <1>5, <2>1, <2>3
  <2> QED BY <1>1, <2>2, <2>3
<1>7. cur' = NoId BY <1>0, <1>1, <1>4 DEF LoopOK
<1>8. Loops(B) BY <1>0, <1>2, <1>4, <1>5, <1>6, <1>7, Now DEF Loops, chainVars, runVars
<1>9. LoopOK' BY <1>7 DEF LoopOK
<1>10. Fewer
  <2>1. CASE Head(nq).type = "listenerRemoved"
    <3>1. \A n \in TxNotes(B) : n.type # "listenerRemoved" BY DEF TxNotes, ReceiptNotes
    <3>2. role = "event" BY <1>5, <2>1, <3>1 DEF QueueNotes
    <3>3. notes \in Seq(QueueNotes(B)) /\ nq \in Seq(QueueNotes(B)) /\ Queue' = notes \o Tail(nq)
      BY <1>0, <1>1, <2>1, Now DEF Queue
    <3>4. ReceiptsIn(Queue') \subseteq ReceiptsIn(Queue) BY <1>1, <3>3, ReceiptsDrop DEF Queue
    <3>5. Fetched' = Fetched BY <1>2 DEF Fetched, checkVars
    <3>6. Arrivals' = Fetched' \cup ReceiptsIn(Queue') BY DEF Arrivals, ReceiptsIn
    <3> QED BY <3>2, <3>4, <3>5, <3>6 DEF Arrivals, Fewer
  <2>2. CASE Head(nq).type # "listenerRemoved"
    <3>1. notes \in Seq(QueueNotes(B)) /\ nq \in Seq(QueueNotes(B)) BY <1>0, Now
    <3>2. Queue' = Queue BY <1>1, <2>2, <3>1, QueueMove
    <3> QED BY <3>2 DEF Shrinks, Fewer
  <2> QED BY <2>1, <2>2
<1>11. StillItems /\ adds' = adds BY <1>2 DEF StillItems, chainVars, runVars, checkVars, clientVars
<1> QED BY <1>3, <1>8, <1>9, <1>10, <1>11, QuietItems

LEMMA WalkFailsStep == ASSUME NEW B, Inv(B), WalkFails PROVE Inv(B)'
<1>0. Held(B) /\ Shape /\ LoopOK BY DEF Inv
<1>1. /\ cur # NoId /\ cur' = NoId
      /\ \/ pc' = "idle" /\ todo' = {} /\ notes' = notes
         \/ pc = "notes" /\ notes' = Tail(notes) /\ pc' = pc /\ todo' = todo BY DEF WalkFails
<1>2. UNCHANGED <<chainVars, runVars, queueVars, viewVars, itemVars, hashes, newBlock, had, first,
                  cache, lowestNil, checkVars, clientVars>> BY DEF WalkFails
<1>3. notes' \in Seq(QueueNotes(B)) /\ Shrinks
  <2>0. notes \in Seq(QueueNotes(B)) /\ nq \in Seq(QueueNotes(B)) /\ nq' = nq BY <1>0, <1>2, Now DEF queueVars
  <2>1. CASE notes' = notes BY <2>0, <2>1 DEF Shrinks, Queue
  <2>2. CASE pc = "notes" /\ notes' = Tail(notes)
    <3>1. notes # <<>> BY <1>0, <1>1, <2>2 DEF LoopOK
    <3> QED BY <2>0, <2>2, <3>1, QueueTail DEF Shrinks
  <2> QED BY <1>1, <2>1, <2>2
<1>4. todo' \subseteq Ids /\ pc' \in {"idle", "walk", "blocks", "notes"} BY <1>0, <1>1, Now
<1>5. Loops(B) BY <1>0, <1>1, <1>2, <1>3, <1>4, Now DEF Loops, chainVars, runVars, queueVars, viewVars
<1>6. LoopOK' BY <1>1 DEF LoopOK
<1>7. StillItems /\ adds' = adds /\ pending' \subseteq pending
  BY <1>2 DEF StillItems, chainVars, runVars, itemVars, checkVars, clientVars
<1> QED BY <1>3, <1>5, <1>6, <1>7, QuietItems DEF Fewer

\* WalkDone, BlockLost and BlocksDone go on with the next part of the iteration.
LEMMA GoOnStep == ASSUME NEW B, Inv(B), WalkDone \/ BlockLost \/ BlocksDone PROVE Inv(B)'
<1>0. Held(B) /\ Shape /\ LoopOK BY DEF Inv
<1>1. /\ UNCHANGED <<chainVars, runVars, queueVars, head, itemVars, todo, cur, notes, cache, checkVars, clientVars>>
      /\ \/ pc' = "blocks" /\ hashes' = hashes /\ cur = NoId
         \/ pc' = pc /\ hashes # <<>> /\ hashes' = Tail(hashes)
         \/ pc' = "notes" /\ hashes' = <<>> /\ cur = NoId
  BY DEF WalkDone, BlockLost, BlocksDone, viewVars
<1>2. hashes' \in Seq(B) /\ pc' \in {"idle", "walk", "blocks", "notes"}
  <2>1. hashes \in Seq(B) /\ pc \in {"idle", "walk", "blocks", "notes"} BY <1>0, Now
  <2>2. CASE hashes' = hashes /\ pc' = "blocks" BY <2>1, <2>2
  <2>3. CASE hashes # <<>> /\ hashes' = Tail(hashes) /\ pc' = pc BY <2>1, <2>3
  <2>4. CASE hashes' = <<>> /\ pc' = "notes" BY <2>4
  <2> QED BY <1>1, <2>2, <2>3, <2>4
<1>3. Loops(B) BY <1>0, <1>1, <1>2, Now DEF Loops, chainVars, runVars, queueVars
<1>4. LoopOK' BY <1>0, <1>1 DEF LoopOK, itemVars
<1>5. Shrinks BY <1>1 DEF Shrinks, Queue, queueVars
<1>6. StillItems /\ adds' = adds /\ pending' \subseteq pending
  BY <1>1 DEF StillItems, chainVars, runVars, itemVars, checkVars, clientVars
<1> QED BY <1>3, <1>4, <1>5, <1>6, QuietItems DEF Fewer

(***************************************************************************)
(* The transaction handler                                                 *)
(***************************************************************************)

LEMMA TrackFresh ==
    ASSUME NEW B, Held(B), setup \in Setups, FreshOK, setup' = setup, NEW t \in Txs, adds \in [Txs -> 0..MaxAdds], adds[t] < MaxAdds,
           adds' = [adds EXCEPT ![t] = @ + 1], Queue' = Append(Queue, [type |-> "newTx", item |-> <<t, adds[t] + 1>>]),
           Untouched \subseteq Untouched'
    PROVE  FreshOK'
<1> SUFFICES ASSUME role = "tx"
             PROVE  /\ \A i \in 1..Len(Queue') : Queue'[i].type = "newTx" =>
                         Queue'[i].item \in Untouched' /\ Queue'[i].item[2] <= adds'[Queue'[i].item[1]]
                    /\ \A i, j \in 1..Len(Queue') :
                         Queue'[i].type = "newTx" /\ Queue'[j].type = "newTx" /\ Queue'[i].item = Queue'[j].item => i = j
                    /\ \A o \in TxIds : o[2] > adds'[o[1]] => o \in Untouched'
  <2>1. role' = role BY DEF role
  <2> QED BY <2>1 DEF FreshOK
<1>0. Queue \in Seq(QueueNotes(B)) /\ Len(Queue) \in Nat /\ MaxAdds \in Nat BY QueueType, BoundsAssumption
<1>o. PICK o : o = <<t, adds[t] + 1>> OBVIOUS
<1>n. PICK n : n = [type |-> "newTx", item |-> o] OBVIOUS
<1>a. adds[t] \in Nat /\ \A u \in Txs : adds[u] \in Int /\ adds'[u] \in Int /\ adds'[u] >= adds[u] /\ adds'[t] = adds[t] + 1 BY <1>0
<1>1. o \in TxIds /\ o[1] = t /\ o[2] = adds[t] + 1 /\ n.item = o /\ n.type = "newTx" BY <1>0, <1>a, <1>n, <1>o DEF TxIds
<1>2. Len(Queue') = Len(Queue) + 1 /\ Queue'[Len(Queue) + 1] = n /\ \A i \in 1..Len(Queue) : Queue'[i] = Queue[i]
  BY <1>0, <1>n, <1>o
<1>3. \A i \in 1..Len(Queue) : Queue[i].type = "newTx" =>
        Queue[i].item \in Untouched /\ Queue[i].item[2] <= adds[Queue[i].item[1]] BY DEF FreshOK
<1>u. \A p \in TxIds : p[1] \in Txs /\ p[2] \in Int BY DEF TxIds
<1>4. \A i \in 1..Len(Queue) : Queue[i].type = "newTx" => Queue[i].item # o
  <2> SUFFICES ASSUME NEW i \in 1..Len(Queue), Queue[i].type = "newTx", Queue[i].item = o PROVE FALSE OBVIOUS
  <2>1. o[2] <= adds[o[1]] BY <1>3
  <2> QED BY <1>1, <1>a, <2>1
<1>5. ASSUME NEW i \in 1..Len(Queue'), Queue'[i].type = "newTx"
      PROVE  Queue'[i].item \in Untouched' /\ Queue'[i].item[2] <= adds'[Queue'[i].item[1]]
  <2>1. CASE i \in 1..Len(Queue)
    <3>1. Queue'[i] = Queue[i] /\ Queue[i].item \in Untouched /\ Queue[i].item[2] <= adds[Queue[i].item[1]]
      BY <1>2, <1>3, <1>5, <2>1
    <3>2. Queue[i].item \in TxIds BY <3>1 DEF Untouched
    <3>3. Queue[i].item[1] \in Txs /\ Queue[i].item[2] \in Int BY <1>u, <3>2
    <3> QED BY <1>a, <3>1, <3>3
  <2>2. CASE i = Len(Queue) + 1
    <3>1. o[2] > adds[o[1]] BY <1>1, <1>a
    <3>2. o \in Untouched BY <1>1, <3>1 DEF FreshOK
    <3>3. o[2] <= adds'[o[1]] BY <1>1, <1>a
    <3> QED BY <1>1, <1>2, <2>2, <3>2, <3>3
  <2> QED BY <1>0, <1>2, <2>1, <2>2
<1>6. ASSUME NEW i \in 1..Len(Queue'), NEW j \in 1..Len(Queue'), Queue'[i].type = "newTx", Queue'[j].type = "newTx",
             Queue'[i].item = Queue'[j].item
      PROVE  i = j
  <2>1. (i \in 1..Len(Queue) \/ i = Len(Queue) + 1) /\ (j \in 1..Len(Queue) \/ j = Len(Queue) + 1) BY <1>0, <1>2
  <2>2. CASE i \in 1..Len(Queue) /\ j \in 1..Len(Queue) BY <1>2, <1>6, <2>2 DEF FreshOK
  <2>3. CASE i \in 1..Len(Queue) /\ j = Len(Queue) + 1 BY <1>1, <1>2, <1>4, <1>6, <2>3
  <2>4. CASE j \in 1..Len(Queue) /\ i = Len(Queue) + 1 BY <1>1, <1>2, <1>4, <1>6, <2>4
  <2> QED BY <2>1, <2>2, <2>3, <2>4
<1>7. ASSUME NEW p \in TxIds, p[2] > adds'[p[1]] PROVE p \in Untouched'
  <2>1. p[2] > adds[p[1]] BY <1>7, <1>a, <1>u
  <2> QED BY <2>1 DEF FreshOK
<1> QED BY <1>5, <1>6, <1>7

\* Track and Untrack queue a notification.
LEMMA ClientStep == ASSUME NEW B, Inv(B), NEW t \in Txs, Track(t) \/ Untrack(t) PROVE Inv(B)'
<1>0. Held(B) /\ Shape /\ QueryOK /\ ArrivalsOK /\ FreshOK /\ ItemsOK /\ LoopOK /\ setup \in Setups BY DEF Inv, Shape
<1>1. role = "tx" BY DEF Track, Untrack
<1>2. UNCHANGED <<chainVars, runVars, blocked, bq, viewVars, itemVars, loopVars, checkVars, listening>>
  BY DEF Track, Untrack
<1>3. adds \in [Txs -> 0..MaxAdds] /\ MaxAdds \in Nat BY <1>0, BoundsAssumption DEF Shape
<1>4. PICK n : /\ n \in QueueNotes(B) /\ n.type # "receipt" /\ Notify(n)
               /\ \/ /\ n = [type |-> "newTx", item |-> <<t, adds[t] + 1>>] /\ adds[t] < MaxAdds
                     /\ adds' = [adds EXCEPT ![t] = @ + 1]
                  \/ n.type # "newTx" /\ adds' = adds
  <2>1. CASE Track(t)
    <3>1. PICK n : n = [type |-> "newTx", item |-> <<t, adds[t] + 1>>] OBVIOUS
    <3>2. adds[t] < MaxAdds /\ Notify(n) /\ adds' = [adds EXCEPT ![t] = @ + 1] BY <2>1, <3>1 DEF Track
    <3>3. <<t, adds[t] + 1>> \in TxIds BY <1>3, <3>2 DEF TxIds
    <3>4. n \in TxNotes(B) /\ n.type # "receipt" BY <3>1, <3>3 DEF TxNotes
    <3> QED BY <1>1, <3>1, <3>2, <3>4 DEF QueueNotes
  <2>2. CASE Untrack(t)
    <3>1. PICK n : n = [type |-> "removedTx", tx |-> t] OBVIOUS
    <3>2. Notify(n) /\ adds' = adds BY <2>2, <3>1 DEF Untrack
    <3>3. n \in TxNotes(B) /\ n.type # "receipt" /\ n.type # "newTx" BY <3>1 DEF TxNotes
    <3> QED BY <1>1, <3>2, <3>3 DEF QueueNotes
  <2> QED BY <2>1, <2>2
<1>5. nq' \in Seq(QueueNotes(B)) /\ Len(nq') <= NoteCap /\ nq' = Append(nq, n) BY <1>0, <1>4, NotifyType
<1>6. UNCHANGED <<chain, final, mined, setup, items, told, out, entries, worker, pending, notes>>
  BY <1>2 DEF chainVars, runVars, itemVars, loopVars, checkVars
<1>7. Loops(B) BY <1>0, <1>2, <1>5, Now DEF Loops, chainVars, runVars, viewVars, loopVars
<1>8. adds' \in [Txs -> 0..MaxAdds] BY <1>3, <1>4
<1>9. Typed(B) BY <1>0, <1>6, <1>8, TypedNow DEF Typed
<1>10. Queue' = Append(Queue, n) BY <1>0, <1>4, <1>5, <1>6, Now, QueueAppend
<1>11. ArrivalsOK'
  <2>1. Arrivals' \subseteq Arrivals BY <1>0, <1>4, <1>6, <1>10, ArrivalsAppend
  <2>2. \A o \in Ids : Kept(o) BY <1>6 DEF Kept
  <2>3. items' \in [Ids -> Items(B)] BY <1>9 DEF Typed
  <2> QED BY <1>0, <1>6, <2>1, <2>2, <2>3, ArrivalsFrame
<1>12. Untouched \subseteq Untouched' BY <1>6 DEF Untouched
<1>13. FreshOK'
  <2>1. CASE n.type # "newTx" /\ adds' = adds BY <1>0, <1>4, <1>6, <1>10, <1>12, <2>1, FreshAppend
  <2>2. CASE n = [type |-> "newTx", item |-> <<t, adds[t] + 1>>] /\ adds[t] < MaxAdds /\ adds' = [adds EXCEPT ![t] = @ + 1]
    BY <1>0, <1>3, <1>6, <1>10, <1>12, <2>2, TrackFresh
  <2> QED BY <1>4, <2>1, <2>2
<1>14. QueryOK' BY <1>0, <1>6 DEF QueryOK
<1>15. \A o \in Ids : GoodItem(o, items'[o], told'[o]) BY <1>0, <1>6 DEF ItemsOK
<1>16. LoopOK' BY <1>0, <1>2 DEF LoopOK, itemVars, loopVars
<1> QED BY <1>6, <1>7, <1>9, <1>11, <1>13, <1>14, <1>15, <1>16, InvParts

(***************************************************************************)
(* The receipt checker                                                     *)
(***************************************************************************)

\* The receipt of a transaction is in the one canonical block that holds it.
LEMMA ReceiptOK ==
    ASSUME NEW B, ChainOK, Tree(B), NEW t
    PROVE  /\ ReceiptBlock(t) # NoBlock =>
                ReceiptBlock(t) \in B /\ t \in ReceiptBlock(t).txs /\ Canonical(ReceiptBlock(t))
           /\ \A c \in B : Canonical(c) /\ t \in c.txs => ReceiptBlock(t) = c
<1>0. chain \in Seq(Blocks) /\ Len(chain) \in Nat BY DEF ChainOK
<1>1. ASSUME OnChain(t)
      PROVE  \E i \in 1..Len(chain) : t \in chain[i].txs /\ ReceiptBlock(t) = chain[i]
  <2> DEFINE k == CHOOSE i \in 1..Len(chain) : t \in chain[i].txs
  <2>1. k \in 1..Len(chain) /\ t \in chain[k].txs BY <1>1 DEF OnChain
  <2>2. ReceiptBlock(t) = chain[k] BY <1>1 DEF ReceiptBlock
  <2> HIDE DEF k
  <2> QED BY <2>1, <2>2
<1>2. ASSUME ReceiptBlock(t) # NoBlock
      PROVE  ReceiptBlock(t) \in B /\ t \in ReceiptBlock(t).txs /\ Canonical(ReceiptBlock(t))
  <2>1. OnChain(t) BY <1>2 DEF ReceiptBlock
  <2>2. PICK i \in 1..Len(chain) : t \in chain[i].txs /\ ReceiptBlock(t) = chain[i] BY <1>1, <2>1
  <2>3. chain[i] \in B BY DEF Tree
  <2>4. chain[i].number = i - 1 BY DEF ChainOK
  <2>5. Canonical(chain[i]) BY <1>0, <2>4 DEF Canonical
  <2> QED BY <2>2, <2>3, <2>5
<1>3. ASSUME NEW c \in B, Canonical(c), t \in c.txs PROVE ReceiptBlock(t) = c
  <2>1. c.number \in Nat BY BlockFields DEF Tree
  <2>2. c.number + 1 \in 1..Len(chain) /\ chain[c.number + 1] = c BY <1>0, <1>3, <2>1 DEF Canonical
  <2>3. OnChain(t) BY <1>3, <2>2 DEF OnChain
  <2>4. PICK i \in 1..Len(chain) : t \in chain[i].txs /\ ReceiptBlock(t) = chain[i] BY <1>1, <2>3
  <2>5. i = c.number + 1 BY <1>3, <2>2, <2>4 DEF ChainOK
  <2> QED BY <2>2, <2>4, <2>5
<1> QED BY <1>2, <1>3

LEMMA NotOnChain == ASSUME ChainOK PROVE ~Canonical(NoBlock)
<1>1. chain[1].hash = 0 BY DEF ChainOK
<1> QED BY <1>1 DEF Canonical, NoBlock

\* What a worker has fetched, after one worker has gone on.
LEMMA FetchedStep ==
    ASSUME NEW B, Held(B), NEW w \in Workers, NEW x, worker' = [worker EXCEPT ![w] = x]
    PROVE  Fetched' \subseteq Fetched \cup (IF x.at = "notify" THEN {<<x.item, x.gen, x.blk>>} ELSE {})
<1>0. worker \in [Workers -> WorkerStates(B)] BY DEF Held
<1> SUFFICES ASSUME NEW a \in Fetched' PROVE a \in Fetched \/ (x.at = "notify" /\ a = <<x.item, x.gen, x.blk>>) OBVIOUS
<1>1. PICK v \in Workers : worker'[v].at = "notify" /\ a = <<worker'[v].item, worker'[v].gen, worker'[v].blk>> BY DEF Fetched
<1>2. CASE v = w
  <2>1. worker'[v] = x BY <1>0, <1>2
  <2> QED BY <1>1, <2>1
<1>3. CASE v # w
  <2>1. worker'[v] = worker[v] BY <1>0, <1>3
  <2> QED BY <1>1, <2>1 DEF Fetched
<1> QED BY <1>2, <1>3

\* A worker that is not idle checks an item whose receipt is asked for.
LEMMA WorkerTx ==
    ASSUME NEW B, Held(B), Shape, NEW w \in Workers, worker[w].at # "idle"
    PROVE  /\ worker[w].item \in CheckIds /\ worker[w].item \in Ids /\ worker[w].gen \in Nat
           /\ worker[w].at = "notify" => worker[w].blk \in B
<1>1. worker[w] \in WorkerStates(B) BY DEF Held
<1> QED BY <1>1, WorkerFields, CheckIdsOK

LEMMA IdleOK == ASSUME NEW B PROVE Idle \in WorkerStates(B) /\ Idle.at = "idle"
BY DEF WorkerStates, Idle

LEMMA WaitNextStep == ASSUME NEW B, Inv(B), NEW w \in Workers, WaitNext(w) PROVE Inv(B)'
<1>0. Held(B) /\ Shape /\ QueryOK /\ ArrivalsOK /\ FreshOK /\ ItemsOK /\ LoopOK /\ setup \in Setups BY DEF Inv, Shape
<1>1. entries # <<>> /\ entries' = Tail(entries) BY DEF WaitNext
<1>2. UNCHANGED <<chainVars, runVars, queueVars, viewVars, itemVars, loopVars, clientVars>> BY DEF WaitNext
<1>3. UNCHANGED <<chain, final, mined, setup, items, told, out, pending, adds>>
  BY <1>2 DEF chainVars, runVars, itemVars, clientVars
<1>5. PICK o \in CheckIds : o = Head(entries) BY <1>0, <1>1 DEF Shape
<1>d. o \in Ids BY CheckIdsOK
<1>6. items[o].gen \in Nat
  <2>1. items[o] \in Items(B) BY <1>0, <1>d DEF Held
  <2> QED BY <2>1, ItemFields
<1>7. PICK x : x = [at |-> "query", item |-> o, gen |-> items[o].gen] OBVIOUS
<1>8. x \in WorkerStates(B) /\ x.at = "query" /\ x.item = o /\ x.gen = items[o].gen BY <1>6, <1>7 DEF WorkerStates
<1>9. worker' = [worker EXCEPT ![w] = x] BY <1>5, <1>7 DEF WaitNext
<1>10. worker \in [Workers -> WorkerStates(B)] BY <1>0 DEF Held
<1>11. /\ worker' \in [Workers -> WorkerStates(B)] /\ worker'[w] = x
       /\ \A v \in Workers : v # w => worker'[v] = worker[v] BY <1>8, <1>9, <1>10
<1>12. Loops(B) BY <1>0, <1>2, Now DEF Loops, chainVars, runVars, queueVars, viewVars, loopVars
<1>13. entries' \in Seq(CheckIds) BY <1>0, <1>1, TypedNow
<1>14. Typed(B) BY <1>0, <1>3, <1>11, <1>13, TypedNow DEF Typed
<1>15. QueryOK'
  <2>0. entries \in Seq(CheckIds) /\ Len(entries) \in Nat BY <1>0, TypedNow
  <2>1. Len(entries') = Len(entries) - 1 /\ 1 \in 1..Len(entries) /\ entries[1] = o
        /\ \A i \in 1..Len(entries') : i + 1 \in 1..Len(entries) /\ entries'[i] = entries[i + 1] BY <1>1, <1>5, <2>0
  <2>2. \A i, j \in 1..Len(entries) : entries[i] = entries[j] => i = j BY <1>0 DEF QueryOK
  <2>3. \A i, j \in 1..Len(entries') : entries'[i] = entries'[j] => i = j
    <3> SUFFICES ASSUME NEW i \in 1..Len(entries'), NEW j \in 1..Len(entries'), entries'[i] = entries'[j] PROVE i = j OBVIOUS
    <3>1. i + 1 = j + 1 BY <2>1, <2>2
    <3> QED BY <3>1
  <2>4. \A i \in 1..Len(entries') : entries'[i] # o
    <3> SUFFICES ASSUME NEW i \in 1..Len(entries'), entries'[i] = o PROVE FALSE OBVIOUS
    <3>1. i + 1 = 1 BY <2>1, <2>2
    <3> QED BY <3>1
  <2>5. \A i \in 1..Len(entries') : items[entries'[i]].queued BY <1>0, <2>1 DEF QueryOK
  <2>6. ASSUME NEW v \in Workers, worker'[v].at = "query"
        PROVE  /\ items[worker'[v].item].queued /\ worker'[v].gen = items[worker'[v].item].gen
               /\ \A i \in 1..Len(entries') : entries'[i] # worker'[v].item
               /\ \A u \in Workers : worker'[u].at = "query" /\ worker'[u].item = worker'[v].item => u = v
    <3>0. \A u \in Workers : u # w /\ worker[u].at = "query" => worker[u].item # o BY <1>0, <2>1 DEF QueryOK
    <3>1. CASE v = w
      <4>1. items[o].queued BY <1>0, <2>1 DEF QueryOK
      <4>2. \A u \in Workers : worker'[u].at = "query" /\ worker'[u].item = o => u = w BY <1>11, <3>0
      <4> QED BY <1>8, <1>11, <2>4, <3>1, <4>1, <4>2
    <3>2. CASE v # w
      <4>1. worker'[v] = worker[v] BY <1>11, <3>2
      <4>2. /\ items[worker[v].item].queued /\ worker[v].gen = items[worker[v].item].gen
            /\ \A i \in 1..Len(entries) : entries[i] # worker[v].item
            /\ \A u \in Workers : worker[u].at = "query" /\ worker[u].item = worker[v].item => u = v
        BY <1>0, <2>6, <4>1 DEF QueryOK
      <4>3. \A i \in 1..Len(entries') : entries'[i] # worker[v].item BY <2>1, <4>2
      <4>4. \A u \in Workers : worker'[u].at = "query" /\ worker'[u].item = worker[v].item => u = v
        BY <1>8, <1>11, <2>1, <4>2
      <4> QED BY <4>1, <4>2, <4>3, <4>4
    <3> QED BY <3>1, <3>2
  <2>7. \A p \in Ids : items[p].applied <= items[p].gen /\ (items[p].queued => items[p].applied < items[p].gen)
    BY <1>0 DEF QueryOK
  <2> QED BY <1>3, <2>3, <2>5, <2>6, <2>7 DEF QueryOK
<1>16. Queue' = Queue BY <1>2 DEF Queue, queueVars, loopVars
<1>17. Arrivals' \subseteq Arrivals
  <2>1. Fetched' \subseteq Fetched BY <1>0, <1>8, <1>9, FetchedStep
  <2>2. Arrivals' = Fetched' \cup ReceiptsIn(Queue') BY DEF Arrivals, ReceiptsIn
  <2> QED BY <1>16, <2>1, <2>2 DEF Arrivals
<1>18. ArrivalsOK' BY <1>0, <1>3, <1>17 DEF ArrivalsOK, ArrivalOK, Canonical, mode, role
<1>19. FreshOK'
  <2>1. Untouched \subseteq Untouched' BY <1>3 DEF Untouched
  <2> QED BY <1>0, <1>3, <1>16, <2>1, FreshFrame DEF Shrinks
<1>20. \A p \in Ids : GoodItem(p, items'[p], told'[p]) BY <1>0, <1>3 DEF ItemsOK
<1>21. LoopOK' BY <1>0, <1>2 DEF LoopOK, itemVars, loopVars
<1> QED BY <1>3, <1>12, <1>14, <1>15, <1>18, <1>19, <1>20, <1>21, InvParts

LEMMA NotifyReceiptStep == ASSUME NEW B, Inv(B), NEW w \in Workers, NotifyReceipt(w) PROVE Inv(B)'
<1>0. Held(B) /\ Shape /\ QueryOK /\ ArrivalsOK /\ FreshOK /\ ItemsOK /\ LoopOK /\ setup \in Setups BY DEF Inv, Shape
<1>1. worker[w].at = "notify" /\ worker' = [worker EXCEPT ![w] = Idle] BY DEF NotifyReceipt
<1>2. UNCHANGED <<chainVars, runVars, blocked, bq, viewVars, itemVars, loopVars, entries, clientVars>> BY DEF NotifyReceipt
<1>3. UNCHANGED <<chain, final, mined, setup, items, told, out, pending, adds, notes>>
  BY <1>2 DEF chainVars, runVars, itemVars, clientVars, loopVars
<1>4. worker[w].item \in CheckIds /\ worker[w].gen \in Nat /\ worker[w].blk \in B BY <1>0, <1>1, WorkerTx
<1>5. PICK n : n = [type |-> "receipt", item |-> worker[w].item, blk |-> worker[w].blk, gen |-> worker[w].gen] OBVIOUS
<1>6. n \in QueueNotes(B) /\ n.type = "receipt" /\ <<n.item, n.gen, n.blk>> = <<worker[w].item, worker[w].gen, worker[w].blk>>
  <2>1. n \in ReceiptNotes(B) BY <1>4, <1>5 DEF ReceiptNotes
  <2> QED BY <1>5, <2>1 DEF QueueNotes, TxNotes
<1>7. Notify(n) BY <1>5 DEF NotifyReceipt
<1>8. nq' \in Seq(QueueNotes(B)) /\ Len(nq') <= NoteCap /\ nq' = Append(nq, n) BY <1>0, <1>6, <1>7, NotifyType
<1>9. worker \in [Workers -> WorkerStates(B)] BY <1>0 DEF Held
<1>10. worker' \in [Workers -> WorkerStates(B)] /\ worker'[w] = Idle
       /\ \A v \in Workers : v # w => worker'[v] = worker[v] BY <1>1, <1>9, IdleOK
<1>11. Loops(B) BY <1>0, <1>2, <1>8, Now DEF Loops, chainVars, runVars, viewVars, loopVars
<1>12. Typed(B) BY <1>0, <1>2, <1>3, <1>10, TypedNow DEF Typed
<1>13. Queue' = Append(Queue, n) BY <1>0, <1>3, <1>6, <1>8, Now, QueueAppend
<1>14. Arrivals' \subseteq Arrivals
  <2>0. Queue \in Seq(QueueNotes(B)) BY <1>0, QueueType
  <2>1. Fetched' \subseteq Fetched BY <1>0, <1>1, FetchedStep, IdleOK
  <2>2. <<worker[w].item, worker[w].gen, worker[w].blk>> \in Fetched BY <1>1 DEF Fetched
  <2>3. ReceiptsIn(Queue') \subseteq ReceiptsIn(Queue) \cup Fetched BY <1>6, <1>13, <2>0, <2>2, ReceiptsAppend
  <2>4. Arrivals' = Fetched' \cup ReceiptsIn(Queue') BY DEF Arrivals, ReceiptsIn
  <2> QED BY <2>1, <2>3, <2>4 DEF Arrivals
<1>15. ArrivalsOK' BY <1>0, <1>3, <1>14 DEF ArrivalsOK, ArrivalOK, Canonical, mode, role
<1>16. FreshOK'
  <2>1. Untouched \subseteq Untouched' BY <1>3 DEF Untouched
  <2>2. n.type # "newTx" BY <1>6
  <2> QED BY <1>0, <1>3, <1>6, <1>13, <2>1, <2>2, FreshAppend
<1>17. QueryOK'
  <2>1. \A v \in Workers : worker'[v].at = "query" => v # w /\ worker'[v] = worker[v] BY <1>10, IdleOK
  <2>2. entries' = entries BY <1>2
  <2> QED BY <1>0, <1>3, <2>1, <2>2 DEF QueryOK
<1>18. \A p \in Ids : GoodItem(p, items'[p], told'[p]) BY <1>0, <1>3 DEF ItemsOK
<1>19. LoopOK' BY <1>0, <1>2 DEF LoopOK, itemVars, loopVars
<1> QED BY <1>3, <1>11, <1>12, <1>15, <1>16, <1>17, <1>18, <1>19, InvParts

LEMMA CheckFailsStep == ASSUME NEW B, Inv(B), NEW w \in Workers, CheckFails(w) PROVE Inv(B)'
<1>0. Held(B) /\ Shape /\ QueryOK /\ ArrivalsOK /\ FreshOK /\ ItemsOK /\ LoopOK /\ setup \in Setups BY DEF Inv, Shape
<1>1. worker[w].at = "query" /\ worker' = [worker EXCEPT ![w] = Idle] /\ entries' = Append(entries, worker[w].item)
      /\ items' = [items EXCEPT ![worker[w].item].queued = TRUE] BY DEF CheckFails
<1>2. UNCHANGED <<chainVars, runVars, queueVars, viewVars, pending, told, out, loopVars, clientVars>> BY DEF CheckFails
<1>3. UNCHANGED <<chain, final, mined, setup, told, out, pending, adds, notes, nq>>
  BY <1>2 DEF chainVars, runVars, queueVars, clientVars, loopVars
<1>4. worker[w].item \in CheckIds /\ worker[w].item \in Ids BY <1>0, <1>1, WorkerTx
<1>o. PICK o \in CheckIds : o = worker[w].item /\ o \in Ids BY <1>4
<1>5. items' = items
  <2>1. items \in [Ids -> Items(B)] /\ items[o].queued BY <1>0, <1>1, <1>o DEF Held, QueryOK
  <2>2. items[o] \in Items(B) BY <1>o, <2>1
  <2>3. [items[o] EXCEPT !.queued = TRUE] = items[o] BY <2>1, <2>2 DEF Items
  <2>4. items' = [items EXCEPT ![o] = [items[o] EXCEPT !.queued = TRUE]] BY <1>1, <1>o
  <2> QED BY <1>o, <2>1, <2>3, <2>4
<1>9. worker \in [Workers -> WorkerStates(B)] BY <1>0 DEF Held
<1>10. worker' \in [Workers -> WorkerStates(B)] /\ worker'[w] = Idle
       /\ \A v \in Workers : v # w => worker'[v] = worker[v] BY <1>1, <1>9, IdleOK
<1>11. Loops(B) BY <1>0, <1>2, Now DEF Loops, chainVars, runVars, queueVars, viewVars, loopVars
<1>e. entries' \in Seq(CheckIds) BY <1>0, <1>1, <1>4, TypedNow
<1>12. Typed(B) BY <1>0, <1>e, <1>3, <1>5, <1>10, TypedNow DEF Typed
<1>13. Queue' = Queue BY <1>3 DEF Queue
<1>14. Arrivals' \subseteq Arrivals
  <2>1. Fetched' \subseteq Fetched BY <1>0, <1>1, FetchedStep, IdleOK
  <2>2. Arrivals' = Fetched' \cup ReceiptsIn(Queue') BY DEF Arrivals, ReceiptsIn
  <2> QED BY <1>13, <2>1, <2>2 DEF Arrivals
<1>15. ArrivalsOK' BY <1>0, <1>3, <1>5, <1>14 DEF ArrivalsOK, ArrivalOK, Canonical, mode, role
<1>16. FreshOK'
  <2>1. Untouched \subseteq Untouched' BY <1>3, <1>5 DEF Untouched
  <2> QED BY <1>0, <1>3, <1>13, <2>1, FreshFrame DEF Shrinks
<1>17. QueryOK'
  <2>0. entries \in Seq(CheckIds) /\ Len(entries) \in Nat BY <1>0, TypedNow
  <2>1. \A v \in Workers : worker'[v].at = "query" => v # w /\ worker'[v] = worker[v] BY <1>10, IdleOK
  <2>2. Len(entries') = Len(entries) + 1 /\ entries'[Len(entries) + 1] = o /\ \A i \in 1..Len(entries) : entries'[i] = entries[i]
    BY <1>1, <1>o, <2>0
  <2>3. items[o].queued /\ (\A i \in 1..Len(entries) : entries[i] # o)
        /\ \A v \in Workers : worker[v].at = "query" /\ worker[v].item = o => v = w BY <1>0, <1>1, <1>o DEF QueryOK
  <2>4. \A i \in 1..Len(entries') : i \in 1..Len(entries) \/ i = Len(entries) + 1 BY <2>0, <2>2
  <2>5. \A i, j \in 1..Len(entries') : entries'[i] = entries'[j] => i = j BY <1>0, <2>2, <2>3, <2>4 DEF QueryOK
  <2>6. \A i \in 1..Len(entries') : items[entries'[i]].queued BY <1>0, <2>2, <2>3, <2>4 DEF QueryOK
  <2>7. ASSUME NEW v \in Workers, worker'[v].at = "query"
        PROVE  /\ items[worker'[v].item].queued /\ worker'[v].gen = items[worker'[v].item].gen
               /\ \A i \in 1..Len(entries') : entries'[i] # worker'[v].item
               /\ \A u \in Workers : worker'[u].at = "query" /\ worker'[u].item = worker'[v].item => u = v
    <3>1. worker'[v] = worker[v] /\ v # w BY <2>1, <2>7
    <3>2. /\ items[worker[v].item].queued /\ worker[v].gen = items[worker[v].item].gen
          /\ \A i \in 1..Len(entries) : entries[i] # worker[v].item
          /\ \A u \in Workers : worker[u].at = "query" /\ worker[u].item = worker[v].item => u = v
      BY <1>0, <2>7, <3>1 DEF QueryOK
    <3>3. worker[v].item # o BY <2>3, <2>7, <3>1
    <3>4. \A i \in 1..Len(entries') : entries'[i] # worker[v].item BY <2>2, <2>4, <3>2, <3>3
    <3> QED BY <2>1, <3>1, <3>2, <3>4
  <2>8. \A p \in Ids : items[p].applied <= items[p].gen /\ (items[p].queued => items[p].applied < items[p].gen)
    BY <1>0 DEF QueryOK
  <2> QED BY <1>5, <2>5, <2>6, <2>7, <2>8 DEF QueryOK
<1>18. \A p \in Ids : GoodItem(p, items'[p], told'[p]) BY <1>0, <1>3, <1>5 DEF ItemsOK
<1>19. LoopOK' BY <1>0, <1>2, <1>5 DEF LoopOK, loopVars
<1> QED BY <1>3, <1>11, <1>12, <1>15, <1>16, <1>17, <1>18, <1>19, InvParts

\* The rest of an item does not matter for its confirmations.
LEMMA GoodFrame ==
    ASSUME NEW o, NEW it, NEW jt, NEW tl, GoodItem(o, it, tl), jt.blk = it.blk, jt.confs = it.confs,
           jt.notified = it.notified, jt.confirmed = it.confirmed
    PROVE  GoodItem(o, jt, tl)
BY DEF GoodItem

LEMMA CheckReceiptStep == ASSUME NEW B, Inv(B), NEW w \in Workers, CheckReceipt(w) PROVE Inv(B)'
<1>0. /\ ChainOK /\ Tree(B) /\ Held(B) /\ Shape /\ QueryOK /\ ArrivalsOK /\ FreshOK /\ ItemsOK /\ LoopOK
      /\ setup \in Setups BY DEF Inv, Shape
<1>1. worker[w].at = "query" BY DEF CheckReceipt
<1>2. UNCHANGED <<chainVars, runVars, queueVars, viewVars, pending, told, out, loopVars, entries, clientVars>> BY DEF CheckReceipt
<1>3. UNCHANGED <<chain, final, mined, setup, told, out, pending, adds, notes, nq, entries>>
  BY <1>2 DEF chainVars, runVars, queueVars, clientVars, loopVars
<1>4. worker[w].item \in CheckIds /\ worker[w].item \in Ids /\ worker[w].gen \in Nat BY <1>0, <1>1, WorkerTx
<1>o. PICK o \in CheckIds : o = worker[w].item /\ o \in Ids BY <1>4
<1>r. (role = "tx" => o \in TxIds) /\ (role = "tx" \/ mode = "light") BY CheckIdsOK
<1>g. PICK g \in Nat : g = worker[w].gen BY <1>4
<1>t. PICK t : t = TxOf(o) OBVIOUS
<1>k. role = "tx" => t = Key(o) BY <1>t DEF TxOf
<1>b. PICK b : b = ReceiptBlock(t) OBVIOUS
<1>5. b # NoBlock => b \in B /\ t \in b.txs /\ Canonical(b) BY <1>0, <1>b, ReceiptOK
<1>6. \A c \in B : Canonical(c) /\ t \in c.txs => b = c BY <1>0, <1>b, ReceiptOK
<1>x. PICK x : x = IF b = NoBlock THEN Idle ELSE [at |-> "notify", item |-> o, gen |-> g, blk |-> b] OBVIOUS
<1>7. x \in WorkerStates(B) /\ x.at # "query" /\ (x.at = "notify" => b # NoBlock /\ <<x.item, x.gen, x.blk>> = <<o, g, b>>)
  <2>1. CASE b = NoBlock BY <1>x, <2>1, IdleOK
  <2>2. CASE b # NoBlock BY <1>5, <1>g, <1>o, <1>x, <2>2 DEF WorkerStates
  <2> QED BY <2>1, <2>2
<1>8. worker' = [worker EXCEPT ![w] = x] /\ items' = [items EXCEPT ![o].queued = FALSE]
  BY <1>o, <1>g, <1>b, <1>t, <1>x DEF CheckReceipt
<1>9. worker \in [Workers -> WorkerStates(B)] /\ items \in [Ids -> Items(B)] /\ items[o] \in Items(B) BY <1>0, <1>o DEF Held
<1>10. worker' \in [Workers -> WorkerStates(B)] /\ worker'[w] = x
       /\ \A v \in Workers : v # w => worker'[v] = worker[v] BY <1>7, <1>8, <1>9
<1>11. /\ items'[o] \in Items(B) /\ items'[o].queued = FALSE /\ items'[o].gen = items[o].gen
       /\ items'[o].applied = items[o].applied /\ items'[o].blk = items[o].blk /\ items'[o].confs = items[o].confs
       /\ items'[o].notified = items[o].notified /\ items'[o].confirmed = items[o].confirmed
  <2>1. items'[o] = [items[o] EXCEPT !.queued = FALSE] BY <1>8, <1>9, <1>o
  <2> QED BY <1>9, <2>1 DEF Items
<1>12. items' \in [Ids -> Items(B)] /\ \A p \in Ids : p # o => items'[p] = items[p] BY <1>8, <1>9, <1>11
<1>13. \A p \in Ids : /\ items'[p].gen = items[p].gen /\ items'[p].applied = items[p].applied /\ items'[p].blk = items[p].blk
                      /\ items'[p].confs = items[p].confs /\ items'[p].notified = items[p].notified
                      /\ items'[p].confirmed = items[p].confirmed
  BY <1>11, <1>12
<1>q. /\ items[o].queued /\ g = items[o].gen /\ (\A i \in 1..Len(entries) : entries[i] # o)
      /\ \A v \in Workers : worker[v].at = "query" /\ worker[v].item = o => v = w
  BY <1>0, <1>1, <1>o, <1>g DEF QueryOK
<1>14. Loops(B) BY <1>0, <1>2, Now DEF Loops, chainVars, runVars, queueVars, viewVars, loopVars
<1>15. Typed(B) BY <1>0, <1>3, <1>10, <1>12, TypedNow DEF Typed
<1>16. Queue' = Queue BY <1>3 DEF Queue
<1>17. QueryOK'
  <2>0. \A i \in 1..Len(entries) : entries[i] \in Ids /\ entries[i] # o
    <3>1. \A i \in 1..Len(entries) : entries[i] \in CheckIds BY <1>0, TypedNow
    <3> QED BY <1>q, <3>1, CheckIdsOK
  <2>1. \A i \in 1..Len(entries) : items'[entries[i]].queued BY <1>0, <1>12, <2>0 DEF QueryOK
  <2>2. ASSUME NEW v \in Workers, worker'[v].at = "query"
        PROVE  /\ items'[worker'[v].item].queued /\ worker'[v].gen = items'[worker'[v].item].gen
               /\ \A i \in 1..Len(entries) : entries[i] # worker'[v].item
               /\ \A u \in Workers : worker'[u].at = "query" /\ worker'[u].item = worker'[v].item => u = v
    <3>1. worker'[v] = worker[v] /\ v # w BY <1>7, <1>10, <2>2
    <3>2. worker[v].item # o /\ worker[v].item \in Ids BY <1>0, <1>q, <2>2, <3>1, WorkerTx
    <3>3. /\ items[worker[v].item].queued /\ worker[v].gen = items[worker[v].item].gen
          /\ \A i \in 1..Len(entries) : entries[i] # worker[v].item
          /\ \A u \in Workers : worker[u].at = "query" /\ worker[u].item = worker[v].item => u = v
      BY <1>0, <2>2, <3>1 DEF QueryOK
    <3>4. \A u \in Workers : worker'[u].at = "query" => worker'[u] = worker[u] BY <1>7, <1>10
    <3> QED BY <1>12, <3>1, <3>2, <3>3, <3>4
  <2>3. \A p \in Ids : items'[p].applied <= items'[p].gen /\ (items'[p].queued => items'[p].applied < items'[p].gen)
    BY <1>0, <1>11, <1>12 DEF QueryOK
  <2>4. \A i, j \in 1..Len(entries) : entries[i] = entries[j] => i = j BY <1>0 DEF QueryOK
  <2> QED BY <1>3, <2>1, <2>2, <2>3, <2>4 DEF QueryOK
<1>18. ArrivalsOK'
  <2>n. PICK new : new = <<o, g, b>> OBVIOUS
  <2>1. \A a \in Arrivals' : a \in Arrivals \/ (a = new /\ b # NoBlock)
    <3>1. Fetched' \subseteq Fetched \cup (IF x.at = "notify" THEN {<<x.item, x.gen, x.blk>>} ELSE {})
      BY <1>0, <1>8, FetchedStep
    <3>2. Arrivals' = Fetched' \cup ReceiptsIn(Queue') BY DEF Arrivals, ReceiptsIn
    <3> QED BY <1>7, <1>16, <2>n, <3>1, <3>2 DEF Arrivals
  <2>2. \A c : Canonical(c)' = Canonical(c) BY <1>3 DEF Canonical
  <2>3. mode' = mode /\ role' = role BY <1>3 DEF mode, role
  <2>4. ASSUME NEW a \in Arrivals PROVE ArrivalOK(a)'
    <3>1. a[1] \in Ids /\ ArrivalOK(a) BY <1>0, ArrivalFields DEF ArrivalsOK
    <3>2. items'[a[1]].queued => items[a[1]].queued BY <1>11, <1>12, <3>1
    <3>3. Canonical(items[a[1]].blk)' = Canonical(items[a[1]].blk) BY <1>3, <1>13, <3>1 DEF Canonical
    <3> QED BY <1>13, <2>3, <3>1, <3>2, <3>3 DEF ArrivalOK
  <2>5. ASSUME b # NoBlock PROVE ArrivalOK(new)'
    <3>0. new[1] = o /\ new[2] = g /\ new[3] = b BY <2>n
    <3>1. items[o].applied \in Nat /\ items[o].blk \in B \cup {NoBlock} BY <1>9, ItemFields
    <3>2. items[o].applied < items[o].gen BY <1>0, <1>q, <1>o DEF QueryOK
    <3>3. 1 <= g /\ g <= items'[o].gen BY <1>11, <1>q, <3>1, <3>2
    <3>4. mode = "full" /\ Canonical(items[o].blk) => b = items[o].blk
      <4> SUFFICES ASSUME mode = "full", Canonical(items[o].blk) PROVE b = items[o].blk OBVIOUS
      <4>1. items[o].blk # NoBlock BY <1>0, NotOnChain
      <4>2. role = "tx" BY <1>r
      <4>3. Key(o) \in items[o].blk.txs BY <1>0, <1>o, <4>1, <4>2 DEF ItemsOK, GoodItem
      <4> QED BY <1>6, <1>k, <3>1, <4>1, <4>2, <4>3
    <3>5. Canonical(items[o].blk)' => Canonical(items[o].blk) BY <1>3, <1>11 DEF Canonical
    <3>6. role = "tx" => Key(o) \in b.txs BY <1>5, <1>k, <2>5
    <3> QED BY <1>11, <2>3, <3>0, <3>3, <3>4, <3>5, <3>6 DEF ArrivalOK
  <2>6. ASSUME NEW a \in Arrivals', NEW c \in Arrivals', mode = "full", a[1] = c[1], a[2] <= c[2], Canonical(a[3])
        PROVE  c[3] = a[3]
    <3>1. CASE a \in Arrivals /\ c \in Arrivals BY <1>0, <2>6, <3>1 DEF ArrivalsOK
    <3>2. CASE a = new /\ c = new BY <3>2
    <3>3. CASE a \in Arrivals /\ c = new
      <4>0. role = "tx" BY <1>r, <2>6
      <4>1. a[1] = o /\ a[3] \in B /\ Key(a[1]) \in a[3].txs
        BY <1>0, <2>6, <2>n, <3>3, <4>0, ArrivalFields DEF ArrivalsOK, ArrivalOK
      <4> QED BY <1>6, <1>k, <2>6, <2>n, <3>3, <4>0, <4>1
    <3>4. CASE a = new /\ c \in Arrivals
      <4>1. c[1] = o /\ c[2] \in Nat /\ g <= c[2] BY <1>0, <2>6, <2>n, <3>4, ArrivalFields
      <4>2. c[2] < g BY <1>0, <1>q, <3>4, <4>1 DEF ArrivalsOK, ArrivalOK
      <4> QED BY <1>g, <4>1, <4>2
    <3> QED BY <2>1, <3>1, <3>2, <3>3, <3>4
  <2>7. \A a \in Arrivals' : ArrivalOK(a)' BY <2>1, <2>4, <2>5
  <2> QED BY <2>2, <2>3, <2>6, <2>7 DEF ArrivalsOK
<1>19. FreshOK'
  <2>1. o \notin Untouched
    <3>1. NewItem(NoBlock).queued = FALSE BY DEF NewItem
    <3> QED BY <1>q, <3>1 DEF Untouched
  <2>2. Untouched \subseteq Untouched' BY <1>3, <1>12, <2>1, IdsOK DEF Untouched
  <2> QED BY <1>0, <1>3, <1>16, <2>2, FreshFrame DEF Shrinks
<1>20. \A p \in Ids : GoodItem(p, items'[p], told'[p])
  <2> SUFFICES ASSUME NEW p \in Ids PROVE GoodItem(p, items'[p], told'[p]) OBVIOUS
  <2>1. GoodItem(p, items[p], told[p]) BY <1>0 DEF ItemsOK
  <2> QED BY <1>3, <1>13, <2>1, GoodFrame
<1>21. LoopOK'
  <2>1. cur \in Ids \cup {NoId} /\ UNCHANGED <<cur, pc, notes>> BY <1>0, <1>2, Now DEF loopVars
  <2> QED BY <1>0, <1>13, <2>1 DEF LoopOK
<1> QED BY <1>3, <1>14, <1>15, <1>17, <1>18, <1>19, <1>20, <1>21, InvParts

(***************************************************************************)
(* A new block                                                             *)
(***************************************************************************)

\* The connector's log of a stream: the events of orphaned blocks go, the new one comes.
LEMMA RemovalsType ==
    ASSUME NEW B, ChainOK, Tree(B), NEW n \in 0..(Len(chain) - 1)
    PROVE  Removals(n) \in Seq(EventNotes(B))
<1>0. Len(chain) \in Nat BY DEF ChainOK
<1>a. Len(chain) - n - 1 \in Nat BY <1>0
<1>1. PICK k \in Nat : k = Len(chain) - n - 1 BY <1>a
<1>2. ASSUME NEW i \in 1..k PROVE [type |-> "removedEvent", blk |-> chain[Len(chain) - i + 1]] \in EventNotes(B)
  <2>1. Len(chain) - i + 1 \in 2..Len(chain) BY <1>0, <1>1
  <2>2. chain[Len(chain) - i + 1] \in B /\ chain[Len(chain) - i + 1].hash # 0 BY <2>1, ChainHash
  <2> QED BY <2>2 DEF EventNotes
<1>3. Removals(n) = [i \in 1..k |-> [type |-> "removedEvent", blk |-> chain[Len(chain) - i + 1]]] BY <1>1 DEF Removals
<1>4. Removals(n) \in [1..k -> EventNotes(B)] BY <1>2, <1>3
<1> QED BY <1>4

LEMMA BufferType ==
    ASSUME NEW S, NEW e \in BlockEvents(S), bq \in Seq(BlockEvents(S)), blocked \in Seq(BlockEvents(S)),
           Len(bq) <= BlockCap, Len(blocked) <= 1, Buffer(e)
    PROVE  bq' \in Seq(BlockEvents(S)) /\ blocked' \in Seq(BlockEvents(S)) /\ Len(bq') <= BlockCap /\ Len(blocked') <= 1
<1>0. BlockCap \in Nat /\ Len(bq) \in Nat BY CapsAssumption
<1>1. CASE blocked = <<>> /\ Len(bq) < BlockCap /\ bq' = Append(bq, e) /\ blocked' = blocked BY <1>0, <1>1
<1>2. CASE blocked' = <<e>> /\ bq' = bq BY <1>2
<1>3. CASE blocked # <<>> /\ blocked' = <<[blocked[1] EXCEPT !.gap = TRUE]>> /\ bq' = bq
  <2>1. blocked[1] \in BlockEvents(S) BY <1>3
  <2>2. [blocked[1] EXCEPT !.gap = TRUE] \in BlockEvents(S) BY <2>1 DEF BlockEvents
  <2> QED BY <1>3, <2>2
<1> QED BY <1>1, <1>2, <1>3 DEF Buffer

LEMMA MineStep ==
    ASSUME NEW B, Inv(B), NEW n \in Nat, NEW txs \in SUBSET (Txs \cup Hashes), role = "event" /\ mode = "full" => txs = {}, Mine(n, txs)
    PROVE  \E C : Inv(C)'
<1>0. /\ ChainOK /\ Tree(B) /\ Settled(B) /\ Held(B) /\ Shape /\ QueryOK /\ ArrivalsOK /\ FreshOK /\ ItemsOK /\ LoopOK
      /\ setup \in Setups BY DEF Inv, Shape
<1>1. PICK b \in Blocks :
        /\ b = [number |-> n + 1, hash |-> mined + 1, parent |-> chain[n + 1].hash, txs |-> txs]
        /\ ChainOK' /\ Tree(B \cup {b})' /\ Settled(B \cup {b})'
        /\ \A c \in B : (Canonical(c)' => Canonical(c)) /\ (Final(c) => Final(c)')
  BY <1>0, MineTree
<1>2. PICK C : C = B \cup {b} OBVIOUS
<1>3. ChainOK' /\ Tree(C)' /\ Settled(C)' /\ B \subseteq C /\ b \in C BY <1>1, <1>2
<1>4. UNCHANGED <<runVars, nq, viewVars, itemVars, loopVars, checkVars, clientVars>> BY DEF Mine
<1>5. role' = role /\ mode' = mode /\ setup' = setup BY <1>4 DEF runVars, role, mode
<1>6. n \in 0..(Len(chain) - 1) /\ mined \in Nat /\ final \in Nat /\ final' \in Nat /\ final' >= final
  <2>1. mined \in Nat /\ final \in Nat /\ R \in Nat BY <1>0, RAssumption DEF ChainOK
  <2>2. n \in 0..(Len(chain) - 1) /\ n >= final BY <1>0, MineBlock
  <2>3. final' = IF n + 1 - R > final THEN n + 1 - R ELSE final BY DEF Mine
  <2> QED BY <2>1, <2>2, <2>3
<1>h. /\ EventNotes(B) \subseteq EventNotes(C) /\ QueueNotes(B) \subseteq QueueNotes(C)
      /\ BlockEvents(B) \subseteq BlockEvents(C) /\ Items(B) \subseteq Items(C)
      /\ Tellings(B) \subseteq Tellings(C) /\ WorkerStates(B) \subseteq WorkerStates(C) BY <1>3, HeldGrows
<1>7. logs' \in Seq(EventNotes(C)) /\ (role = "tx" => logs' = <<>>)
  <2>0. logs \in Seq(EventNotes(C)) /\ (role = "tx" => logs = <<>>)
    <3>1. logs \in Seq(EventNotes(B)) /\ (role = "tx" => logs = <<>>) BY <1>0, Now
    <3> QED BY <1>h, <3>1, SeqMonotonic
  <2>1. CASE role = "event" /\ up = "up" /\ listening
    <3>1. PICK e : e = [type |-> "newEvent", blk |-> b] OBVIOUS
    <3>2. e \in EventNotes(C) BY <1>1, <1>3, <1>6, <3>1 DEF EventNotes
    <3>3. Removals(n) \in Seq(EventNotes(C))
      <4>1. Removals(n) \in Seq(EventNotes(B)) BY <1>0, <1>6, RemovalsType
      <4> QED BY <1>h, <4>1, SeqMonotonic
    <3>4. logs' = logs \o Append(Removals(n), e) BY <1>1, <2>1, <3>1 DEF Mine
    <3>5. Append(Removals(n), e) \in Seq(EventNotes(C)) BY <3>2, <3>3
    <3> QED BY <2>0, <2>1, <3>4, <3>5
  <2>2. CASE ~(role = "event" /\ up = "up" /\ listening)
    <3>1. logs' = logs BY <2>2 DEF Mine
    <3> QED BY <2>0, <3>1
  <2> QED BY <2>1, <2>2
<1>8. /\ bq' \in Seq(BlockEvents(C)) /\ blocked' \in Seq(BlockEvents(C)) /\ Len(bq') <= BlockCap /\ Len(blocked') <= 1
      /\ missed' \in BOOLEAN
  <2>0. bq \in Seq(BlockEvents(C)) /\ blocked \in Seq(BlockEvents(C)) /\ Len(bq) <= BlockCap /\ Len(blocked) <= 1 /\ missed \in BOOLEAN
    <3>1. bq \in Seq(BlockEvents(B)) /\ blocked \in Seq(BlockEvents(B)) /\ Len(bq) <= BlockCap /\ Len(blocked) <= 1 /\ missed \in BOOLEAN
      BY <1>0, Now
    <3> QED BY <1>h, <3>1, SeqMonotonic
  <2>1. CASE Buffer([blk |-> b, gap |-> missed]) /\ missed' = FALSE
    <3>1. PICK e \in BlockEvents(C) : e = [blk |-> b, gap |-> missed] BY <1>3, <2>0 DEF BlockEvents
    <3> QED BY <2>0, <2>1, <3>1, BufferType
  <2>2. CASE missed' = TRUE /\ UNCHANGED <<blocked, bq>> BY <2>0, <2>2
  <2> QED BY <1>1, <2>1, <2>2 DEF Mine
<1>9. Held(C)'
  <2>1. nq' = nq /\ notes' = notes /\ hashes' = hashes /\ cache' = cache /\ items' = items /\ told' = told /\ worker' = worker
    BY <1>4 DEF itemVars, loopVars, checkVars
  <2>2. nq \in Seq(QueueNotes(C)) /\ notes \in Seq(QueueNotes(C)) /\ hashes \in Seq(C) /\ cache \subseteq C
    <3>1. nq \in Seq(QueueNotes(B)) /\ notes \in Seq(QueueNotes(B)) /\ hashes \in Seq(B) /\ cache \subseteq B BY <1>0, Now
    <3> QED BY <1>3, <1>h, <3>1, SeqMonotonic
  <2>3. items \in [Ids -> Items(C)] /\ told \in [Ids -> Tellings(C)] /\ worker \in [Workers -> WorkerStates(C)]
    BY <1>0, <1>h DEF Held
  <2>4. QueueNotes(C)' = QueueNotes(C) /\ WorkerStates(C)' = WorkerStates(C)
    BY <1>5 DEF QueueNotes, TxNotes, EventNotes, ReceiptNotes, WorkerStates, CheckIds
  <2> QED BY <1>7, <1>8, <2>1, <2>2, <2>3, <2>4 DEF Held
<1>10. Shape'
  <2>1. R \in Nat BY RAssumption
  <2>a. head \in Int /\ head <= final + R BY <1>0, Now
  <2>b. final \in Nat /\ final' \in Nat /\ final' >= final BY <1>6
  <2>c. PICK f \in Nat, g \in Nat : f = final /\ g = final' BY <2>b
  <2>2. head \in Int /\ head <= final' + R
    <3>1. g >= f /\ head \in Int /\ head <= f + R BY <2>a, <2>b, <2>c
    <3>2. head <= g + R BY <2>1, <3>1
    <3> QED BY <2>a, <2>c, <3>2
  <2>3. CheckIds' = CheckIds BY <1>5 DEF CheckIds
  <2> QED BY <1>0, <1>4, <1>5, <1>7, <1>8, <2>2, <2>3
      DEF Shape, runVars, viewVars, itemVars, loopVars, checkVars, clientVars
<1>i. UNCHANGED <<items, told, pending, entries, worker, notes, nq, adds, pc, cur>>
  BY <1>4 DEF itemVars, loopVars, checkVars, clientVars
<1>11. QueryOK' BY <1>0, <1>i DEF QueryOK
<1>12. FreshOK'
  <2>1. Queue' = Queue BY <1>i DEF Queue
  <2>2. Untouched \subseteq Untouched' BY <1>i DEF Untouched
  <2> QED BY <1>0, <1>5, <1>i, <2>1, <2>2, FreshFrame DEF Shrinks
<1>n. \A c \in B \cup {NoBlock} : (Canonical(c)' => Canonical(c)) /\ (Final(c) => Final(c)')
  <2>1. chain'[1].hash = 0 /\ chain[1].hash = 0 BY <1>0, <1>3 DEF ChainOK
  <2>2. ~Canonical(NoBlock)' /\ ~Canonical(NoBlock) BY <2>1 DEF Canonical, NoBlock
  <2>3. ~Final(NoBlock) BY <2>2 DEF Final
  <2> QED BY <1>1, <2>2, <2>3
<1>13. ArrivalsOK'
  <2>1. Arrivals' = Arrivals BY <1>i DEF Arrivals, Fetched, ReceiptsIn, Queue
  <2>2. ASSUME NEW a \in Arrivals PROVE ArrivalOK(a)'
    <3>1. a[1] \in Ids /\ ArrivalOK(a) BY <1>0, ArrivalFields DEF ArrivalsOK
    <3>2. items[a[1]].blk \in B \cup {NoBlock}
      <4>1. items[a[1]] \in Items(B) BY <1>0, <3>1 DEF Held
      <4> QED BY <4>1, ItemFields
    <3>3. PICK c \in B \cup {NoBlock} : c = items[a[1]].blk BY <3>2
    <3>4. Canonical(items[a[1]].blk)' => Canonical(items[a[1]].blk)
      <4>1. Canonical(items[a[1]].blk)' => Canonical(c)' BY <1>i, <3>3 DEF Canonical
      <4> QED BY <1>n, <3>3, <4>1
    <3> QED BY <1>5, <1>i, <3>1, <3>4 DEF ArrivalOK
  <2>3. ASSUME NEW a \in Arrivals, NEW c \in Arrivals, mode' = "full", a[1] = c[1], a[2] <= c[2], Canonical(a[3])'
        PROVE  c[3] = a[3]
    <3>1. a[3] \in B BY <1>0, ArrivalFields
    <3>2. Canonical(a[3]) BY <1>1, <2>3, <3>1
    <3> QED BY <1>0, <1>5, <2>3, <3>2 DEF ArrivalsOK
  <2> QED BY <2>1, <2>2, <2>3 DEF ArrivalsOK
<1>14. ItemsOK'
  <2> SUFFICES ASSUME NEW o \in Ids PROVE GoodItem(o, items[o], told[o])' BY DEF ItemsOK
  <2>1. items[o].blk \in B \cup {NoBlock} /\ told[o].confirmed \in B \cup {NoBlock}
    <3>1. items[o] \in Items(B) /\ told[o] \in Tellings(B) BY <1>0 DEF Held
    <3> QED BY <3>1, ItemFields, TellingFields
  <2>2. PICK c \in B \cup {NoBlock} : c = items[o].blk BY <2>1
  <2>3. PICK d \in B \cup {NoBlock} : d = told[o].confirmed BY <2>1
  <2>4. GoodItem(o, items[o], told[o]) BY <1>0 DEF ItemsOK
  <2>5. Final(items[o].blk) => Final(items[o].blk)'
    <3>1. Final(c)' => Final(items[o].blk)' BY <1>i, <2>2 DEF Final, Canonical
    <3> QED BY <1>n, <2>2, <3>1
  <2>6. Final(told[o].confirmed) => Final(told[o].confirmed)'
    <3>1. Final(d)' => Final(told[o].confirmed)' BY <1>i, <2>3 DEF Final, Canonical
    <3> QED BY <1>n, <2>3, <3>1
  <2> QED BY <1>5, <1>i, <2>4, <2>5, <2>6 DEF GoodItem
<1>15. LoopOK' BY <1>0, <1>i DEF LoopOK
<1>16. Inv(C)' BY <1>3, <1>9, <1>10, <1>11, <1>12, <1>13, <1>14, <1>15 DEF Inv
<1> QED BY <1>16

(***************************************************************************)
(* Steps of the listener that change items                                 *)
(***************************************************************************)

\* The receipt checks that wait: each once, and new ones only of items marked for them.
Requeued ==
    /\ \A i, j \in 1..Len(entries') : entries'[i] = entries'[j] => i = j
    /\ \A i \in 1..Len(entries') : Begun(entries'[i]) \/ \E j \in 1..Len(entries) : entries'[i] = entries[j]

\* Receipts and blocks of items stay; checks may begin; the walk and its callbacks go on.
LEMMA ItemsStep ==
    ASSUME NEW B, Inv(B), UNCHANGED <<chain, final, mined, setup, worker, adds>>, Loops(B), Typed(B), LoopOK',
           Requeued, \A o \in Ids : Kept(o) \/ Begun(o),
           mode = "full" => \A o \in Ids : items'[o].blk = items[o].blk,
           Shrinks, \A o \in Untouched : items'[o] = items[o] /\ o \notin pending',
           \A o \in Ids : GoodItem(o, items'[o], told'[o])
    PROVE  Inv(B)'
<1>0. Held(B) /\ Shape /\ QueryOK /\ ArrivalsOK /\ FreshOK /\ setup \in Setups BY DEF Inv, Shape
<1>1. items' \in [Ids -> Items(B)] /\ entries' \in Seq(CheckIds) BY DEF Typed
<1>2. QueryOK' BY <1>0, <1>1, QueryFrame DEF Requeued
<1>3. Arrivals' \subseteq Arrivals BY <1>0, ArrivalsShrink
<1>4. ArrivalsOK' BY <1>0, <1>1, <1>3, ArrivalsFrame
<1>5. Untouched \subseteq Untouched' BY DEF Untouched
<1>6. FreshOK' BY <1>0, <1>5, FreshFrame
<1> QED BY <1>2, <1>4, <1>6, InvParts

\* An item with a block has been touched, and so has one that is pending.
LEMMA Touched == \A o \in Untouched : items[o].blk = NoBlock /\ o \notin pending /\ ~items[o].queued
BY DEF Untouched, NewItem

LEMMA TakeItemStep == ASSUME NEW B, Inv(B), TakeItem PROVE Inv(B)'
<1>0. Held(B) /\ Shape /\ QueryOK /\ ItemsOK /\ LoopOK /\ setup \in Setups BY DEF Inv, Shape
<1>1. /\ pc \in {"walk", "blocks"} /\ cur = NoId
      /\ UNCHANGED <<chainVars, runVars, queueVars, viewVars, pending, told, out, pc, notes, hashes,
                     newBlock, had, first, cache, lowestNil, checkVars, clientVars>> BY DEF TakeItem
<1>2. PICK o \in todo :
        /\ todo' = todo \ {o}
        /\ \/ UNCHANGED <<items, cur>>
           \/ /\ items[o].blk # NoBlock /\ cur' = o
              /\ items' = IF mode = "full" THEN [items EXCEPT ![o].confs = <<>>] ELSE items
  BY DEF TakeItem
<1>3. o \in Ids /\ todo' \subseteq Ids BY <1>0, <1>2, Now
<1>u. UNCHANGED <<chain, final, mined, setup, worker, adds, entries, pending, told, out, pc, notes, nq>>
  BY <1>1 DEF chainVars, runVars, queueVars, checkVars, clientVars
<1>4. cur' \in Ids \cup {NoId} BY <1>1, <1>2, <1>3
<1>5. Loops(B) BY <1>0, <1>1, <1>3, <1>4, Now DEF Loops, chainVars, runVars, queueVars, viewVars
<1>6. Shrinks BY <1>u DEF Shrinks, Queue
<1>7. items \in [Ids -> Items(B)] /\ told \in [Ids -> Tellings(B)] BY <1>0, TypedNow
<1>8. /\ \A p \in Ids : p # o => items'[p] = items[p]
      /\ items'[o] \in Items(B) /\ items' \in [Ids -> Items(B)]
      /\ \/ items'[o] = items[o]
         \/ mode = "full" /\ items[o].blk # NoBlock /\ items'[o] = [items[o] EXCEPT !.confs = <<>>]
  <2>1. CASE items' = items BY <1>3, <1>7, <2>1
  <2>2. CASE mode = "full" /\ items[o].blk # NoBlock /\ items' = [items EXCEPT ![o].confs = <<>>]
    <3>1. items'[o] = [items[o] EXCEPT !.confs = <<>>] /\ \A p \in Ids : p # o => items'[p] = items[p] BY <1>3, <1>7, <2>2
    <3>2. items[o] \in Items(B) /\ <<>> \in Seq(B) BY <1>3, <1>7
    <3>3. items'[o] \in Items(B) BY <3>1, <3>2 DEF Items
    <3>4. items' \in [Ids -> Items(B)] BY <1>7, <2>2, <3>1, <3>3
    <3> QED BY <2>2, <3>1, <3>3, <3>4
  <2> QED BY <1>2, <2>1, <2>2
<1>9. /\ items'[o].queued = items[o].queued /\ items'[o].gen = items[o].gen /\ items'[o].applied = items[o].applied
      /\ items'[o].blk = items[o].blk /\ items'[o].notified = items[o].notified /\ items'[o].confirmed = items[o].confirmed
      /\ items'[o].confs = items[o].confs \/ (mode = "full" /\ items[o].blk # NoBlock /\ items'[o].confs = <<>>)
  <2>1. items[o] \in Items(B) BY <1>3, <1>7
  <2>2. CASE items'[o] = items[o] BY <2>2
  <2>3. CASE mode = "full" /\ items[o].blk # NoBlock /\ items'[o] = [items[o] EXCEPT !.confs = <<>>]
    BY <2>1, <2>3 DEF Items
  <2> QED BY <1>8, <2>2, <2>3
<1>10. \A p \in Ids : Kept(p) /\ items'[p].blk = items[p].blk BY <1>8, <1>9 DEF Kept
<1>11. \A p \in Untouched : items'[p] = items[p] /\ p \notin pending'
  <2> SUFFICES ASSUME NEW p \in Untouched PROVE items'[p] = items[p] /\ p \notin pending' OBVIOUS
  <2>1. items[p].blk = NoBlock /\ p \notin pending BY Touched
  <2>2. p \in Ids BY IdsOK DEF Untouched
  <2> QED BY <1>8, <1>u, <2>1, <2>2
<1>12. ASSUME NEW p \in Ids PROVE GoodItem(p, items'[p], told'[p])
  <2>1. GoodItem(p, items[p], told[p]) BY <1>0 DEF ItemsOK
  <2>2. CASE items'[p] = items[p] BY <1>u, <2>1, <2>2
  <2>3. CASE p = o /\ mode = "full" /\ items'[p].confs = <<>>
    <3>1. ChainOn(items[p].blk, <<>>) BY DEF ChainOn
    <3> QED BY <1>9, <1>u, <2>1, <2>3, <3>1 DEF GoodItem
  <2>4. CASE p = o /\ items'[p].confs = items[p].confs BY <1>9, <1>u, <2>1, <2>4 DEF GoodItem
  <2> QED BY <1>8, <1>9, <2>2, <2>3, <2>4
<1>13. Requeued BY <1>0, <1>u DEF Requeued, QueryOK
<1>14. Typed(B) BY <1>0, <1>8, <1>u, TypedNow DEF Typed
<1>15. LoopOK'
  <2>1. cur' # NoId => items'[cur'].blk # NoBlock BY <1>1, <1>2, <1>3, <1>9
  <2> QED BY <1>1, <1>u, <2>1 DEF LoopOK
<1> QED BY <1>5, <1>6, <1>10, <1>11, <1>12, <1>13, <1>14, <1>15, <1>u, ItemsStep

\* What is taken out of the waiting checks leaves the others as they were.
LEMMA WithoutStep ==
    ASSUME NEW T, NEW es \in Seq(T), NEW C,
           \A i, j \in 1..Len(es) : es[i] = es[j] => i = j,
           \A i \in 1..Len(es) : Begun(es[i]) \/ \E j \in 1..Len(entries) : es[i] = entries[j],
           entries' = EntriesWithout(es, C) \/ entries' = es
    PROVE  entries' \in Seq(T) /\ Requeued
<1>1. CASE entries' = es BY <1>1 DEF Requeued
<1>2. CASE entries' = EntriesWithout(es, C)
  <2>1. /\ entries' \in Seq(T)
        /\ \A k \in 1..Len(entries') : \E i \in 1..Len(es) : entries'[k] = es[i]
        /\ \A i, j \in 1..Len(entries') : entries'[i] = entries'[j] => i = j
    <3>1. PICK r : r = EntriesWithout(es, C) OBVIOUS
    <3>a. \A i, j \in 1..Len(es) : es[i] = es[j] => i = j OBVIOUS
    <3>b. /\ EntriesWithout(es, C) \in Seq(T)
          /\ \A k \in 1..Len(EntriesWithout(es, C)) : \E i \in 1..Len(es) : EntriesWithout(es, C)[k] = es[i]
          /\ (\A i, j \in 1..Len(es) : es[i] = es[j] => i = j) =>
               \A i, j \in 1..Len(EntriesWithout(es, C)) : EntriesWithout(es, C)[i] = EntriesWithout(es, C)[j] => i = j
      BY EntriesWithoutOK
    <3>2. /\ r \in Seq(T)
          /\ \A k \in 1..Len(r) : \E i \in 1..Len(es) : r[k] = es[i]
          /\ \A i, j \in 1..Len(r) : r[i] = r[j] => i = j BY <3>1, <3>a, <3>b
    <3>3. entries' = r BY <1>2, <3>1
    <3> QED BY <3>2, <3>3
  <2> QED BY <2>1 DEF Requeued
<1> QED BY <1>1, <1>2

\* What is left of the pending items, and a notification that is done with.
LEMMA PendingLess ==
    ASSUME NEW B, Held(B), Shape, pending' \subseteq pending
    PROVE  /\ pending' \subseteq Ids /\ IsFiniteSet(pending') /\ (role = "tx" => pending' \subseteq TxIds)
           /\ \A o, p \in pending' : Key(o) = Key(p) => o = p
BY FS_Subset DEF Shape

LEMMA NextNotesOK ==
    ASSUME NEW B, Held(B), Shape, LoopOK, cur # NoId, notes' = NextNotes, nq' = nq
    PROVE  notes' \in Seq(QueueNotes(B)) /\ Shrinks
<1>0. notes \in Seq(QueueNotes(B)) /\ nq \in Seq(QueueNotes(B)) BY Now
<1>1. CASE pc = "notes"
  <2>1. notes # <<>> /\ notes' = Tail(notes) BY <1>1 DEF LoopOK, NextNotes
  <2> QED BY <1>0, <2>1, QueueTail DEF Shrinks
<1>2. CASE pc # "notes"
  <2>1. notes' = notes BY <1>2 DEF NextNotes
  <2> QED BY <1>0, <2>1 DEF Shrinks, Queue
<1> QED BY <1>1, <1>2

\* What the callbacks of an item add up to when it becomes confirmed.
NewlyLinked ==
    \A o \in Ids : mode = "full" /\ R > 0 /\ ~items[o].confirmed /\ items'[o].confirmed =>
        /\ told'[o].confirmed = items'[o].blk
        /\ ChainOn(told'[o].confirmed, told'[o].list)
        /\ Len(told'[o].list) >= R
        /\ role = "tx" => told'[o].receipt = told'[o].confirmed

\* The walk of an item ends.
LEMMA EndWalkStep ==
    ASSUME NEW B, Inv(B), mode = "full", cur # NoId, NEW it, EndWalk(it),
           it = items[cur] \/ (it = [items[cur] EXCEPT !.confirmed = TRUE] /\ Len(items[cur].confs) >= R),
           cache' \subseteq B,
           UNCHANGED <<chainVars, runVars, queueVars, viewVars, pc, todo, hashes, worker, clientVars>>
    PROVE  Inv(B)' /\ NewlyLinked
<1>0. Tree(B) /\ Settled(B) /\ Held(B) /\ Shape /\ QueryOK /\ ItemsOK /\ LoopOK /\ setup \in Setups BY DEF Inv, Shape
<1>1. PICK S : S = IF it.confirmed \/ it.confs # <<>> THEN {cur} ELSE {} OBVIOUS
<1>2. PICK its : its = [items EXCEPT ![cur] = it] OBVIOUS
<1>3. DispatchConfirmations(its, S) BY <1>1, <1>2 DEF EndWalk
<1>4. /\ entries' = IF it.confirmed THEN EntriesWithout(entries, {cur}) ELSE entries
      /\ cur' = NoId /\ notes' = NextNotes BY DEF EndWalk
<1>5. cur \in Ids /\ items[cur].blk # NoBlock BY <1>0, Now DEF LoopOK
<1>6. items \in [Ids -> Items(B)] /\ told \in [Ids -> Tellings(B)] /\ out \in Seq(Ids) BY <1>0, TypedNow
<1>7. items[cur] \in Items(B) BY <1>5, <1>6
<1>8. /\ it \in Items(B) /\ it.queued = items[cur].queued /\ it.gen = items[cur].gen /\ it.applied = items[cur].applied
      /\ it.blk = items[cur].blk /\ it.confs = items[cur].confs /\ it.notified = items[cur].notified
      /\ it.confirmed => items[cur].confirmed \/ Len(items[cur].confs) >= R
  BY <1>7 DEF Items
<1>9. its \in [Ids -> Items(B)] /\ its[cur] = it /\ \A o \in Ids : o # cur => its[o] = items[o] BY <1>2, <1>5, <1>6, <1>8
<1>10. \A o \in Ids : GoodItem(o, its[o], told[o])
  <2> SUFFICES ASSUME NEW o \in Ids PROVE GoodItem(o, its[o], told[o]) OBVIOUS
  <2>1. GoodItem(o, items[o], told[o]) BY <1>0 DEF ItemsOK
  <2>2. CASE o # cur BY <1>9, <2>1, <2>2
  <2>3. CASE o = cur
    <3>1. it.confirmed => Final(it.blk)
      <4>1. CASE items[cur].confirmed BY <1>8, <2>1, <2>3, <4>1 DEF GoodItem
      <4>2. CASE Len(items[cur].confs) >= R
        <5>1. items[cur].blk \in B /\ items[cur].confs \in Seq(B) BY <1>5, <1>7, ItemFields
        <5>2. ChainOn(items[cur].blk, items[cur].confs) BY <2>1, <2>3 DEF GoodItem
        <5>3. Final(items[cur].blk) BY <1>0, <4>2, <5>1, <5>2, EnoughFinal
        <5> QED BY <1>8, <5>3
      <4> QED BY <1>8, <4>1, <4>2
    <3>2. mode # "light" OBVIOUS
    <3> QED BY <1>8, <1>9, <2>1, <2>3, <3>1, <3>2 DEF GoodItem
  <2> QED BY <2>2, <2>3
<1>11. S \in SUBSET Ids /\ IsFiniteSet(S) BY <1>1, <1>5, FS_EmptySet, FS_Singleton
<1>12. /\ items' \in [Ids -> Items(B)] /\ told' \in [Ids -> Tellings(B)] /\ out' \in Seq(Ids)
       /\ pending' \subseteq pending
       /\ \A o \in Ids :
            /\ GoodItem(o, items'[o], told'[o])
            /\ items'[o] = [its[o] EXCEPT !.notified = items'[o].notified]
            /\ o \notin S => items'[o] = its[o] /\ told'[o] = told[o]
            /\ o \in S /\ mode = "full" /\ R > 0 /\ its[o].confirmed /\ Len(its[o].confs) >= R =>
                 /\ told'[o].confirmed = its[o].blk /\ ChainOn(its[o].blk, told'[o].list)
                 /\ Len(told'[o].list) >= R /\ (role = "tx" => told'[o].receipt = its[o].blk)
  <2>1. DispatchedAll(B, its, S) BY <1>0, <1>3, <1>6, <1>9, <1>10, <1>11, DispatchOK, Zenon
  <2> QED BY <2>1 DEF DispatchedAll
<1>13. \A o \in Ids : /\ items'[o].queued = its[o].queued /\ items'[o].gen = its[o].gen
                      /\ items'[o].applied = its[o].applied /\ items'[o].blk = its[o].blk
                      /\ items'[o].confirmed = its[o].confirmed
  <2> SUFFICES ASSUME NEW o \in Ids
               PROVE  /\ items'[o].queued = its[o].queued /\ items'[o].gen = its[o].gen
                      /\ items'[o].applied = its[o].applied /\ items'[o].blk = its[o].blk
                      /\ items'[o].confirmed = its[o].confirmed
    OBVIOUS
  <2>1. PICK d : d = items'[o].notified OBVIOUS
  <2>2. items'[o] = [its[o] EXCEPT !.notified = d] /\ its[o] \in Items(B) BY <1>9, <1>12, <2>1
  <2> QED BY <2>2 DEF Items
<1>14. \A o \in Ids : Kept(o) /\ items'[o].blk = items[o].blk BY <1>8, <1>9, <1>13 DEF Kept
<1>15. \A o \in Ids : GoodItem(o, items'[o], told'[o]) BY <1>12
<1>16. notes' \in Seq(QueueNotes(B)) /\ Shrinks
  <2>1. nq' = nq BY DEF queueVars
  <2> QED BY <1>0, <1>4, <2>1, NextNotesOK
<1>17. entries' \in Seq(CheckIds) /\ Requeued
  <2>1. entries \in Seq(CheckIds) BY <1>0, TypedNow
  <2>2. \A i, j \in 1..Len(entries) : entries[i] = entries[j] => i = j BY <1>0 DEF QueryOK
  <2>3. entries' = EntriesWithout(entries, {cur}) \/ entries' = entries BY <1>4
  <2>4. PICK C : C = {cur} OBVIOUS
  <2>5. PICK es : es = entries OBVIOUS
  <2>6. \A i \in 1..Len(es) : Begun(es[i]) \/ \E j \in 1..Len(entries) : es[i] = entries[j] BY <2>5
  <2>7. entries' = EntriesWithout(es, C) \/ entries' = es BY <2>3, <2>4, <2>5
  <2>8. es \in Seq(CheckIds) /\ \A i, j \in 1..Len(es) : es[i] = es[j] => i = j BY <2>1, <2>2, <2>5
  <2>9. PICK T : T = CheckIds OBVIOUS
  <2>10. es \in Seq(T) BY <2>8, <2>9
  <2>11. entries' \in Seq(T) /\ Requeued BY <2>6, <2>7, <2>8, <2>10, WithoutStep
  <2> QED BY <2>9, <2>11
<1>u. UNCHANGED <<chain, final, mined, setup, worker, adds, pc>> BY DEF chainVars, runVars, clientVars
<1>18. Typed(B) BY <1>0, <1>12, <1>17, <1>u, TypedNow, PendingLess DEF Typed
<1>19. Loops(B) BY <1>0, <1>4, <1>16, Now DEF Loops, chainVars, runVars, queueVars, viewVars
<1>20. LoopOK' BY <1>4 DEF LoopOK
<1>21. \A o \in Untouched : items'[o] = items[o] /\ o \notin pending'
  <2> SUFFICES ASSUME NEW o \in Untouched PROVE items'[o] = items[o] /\ o \notin pending' OBVIOUS
  <2>1. items[o].blk = NoBlock /\ o \notin pending /\ o \in Ids BY Touched, IdsOK DEF Untouched
  <2>2. o # cur /\ o \notin S BY <1>1, <1>5, <2>1
  <2> QED BY <1>9, <1>12, <2>1, <2>2
<1>22. Inv(B)' BY <1>14, <1>15, <1>16, <1>17, <1>18, <1>19, <1>20, <1>21, <1>u, ItemsStep
<1>23. NewlyLinked
  <2> SUFFICES ASSUME NEW o \in Ids, R > 0, ~items[o].confirmed, items'[o].confirmed
               PROVE  /\ told'[o].confirmed = items'[o].blk
                      /\ ChainOn(told'[o].confirmed, told'[o].list)
                      /\ Len(told'[o].list) >= R
                      /\ role = "tx" => told'[o].receipt = told'[o].confirmed
    BY DEF NewlyLinked
  <2>1. its[o].confirmed /\ items'[o].blk = its[o].blk BY <1>13
  <2>2. o = cur BY <1>9, <2>1
  <2>3. it.confirmed /\ o \in S /\ Len(its[o].confs) >= R BY <1>1, <1>8, <1>9, <2>1, <2>2
  <2> QED BY <1>12, <2>1, <2>3
<1> QED BY <1>22, <1>23

\* A block on top of the confirmations is one more of them.
LEMMA ChainAppend ==
    ASSUME NEW b, NEW B, B \subseteq Blocks, NEW s \in Seq(B), NEW c \in B, ChainOn(b, s), b.number \in Int,
           c.number = b.number + 1 + Len(s), c.parent = IF s = <<>> THEN b.hash ELSE s[Len(s)].hash
    PROVE  ChainOn(b, Append(s, c))
<1>0. Len(s) \in Nat OBVIOUS
<1>1. PICK r : r = Append(s, c) OBVIOUS
<1>2. Len(r) = Len(s) + 1 /\ r[Len(s) + 1] = c /\ \A i \in 1..Len(s) : r[i] = s[i] BY <1>1
<1>3. ASSUME NEW i \in 1..Len(r)
      PROVE  r[i].parent = (IF i = 1 THEN b.hash ELSE r[i - 1].hash) /\ r[i].number = b.number + i
  <2>1. CASE i \in 1..Len(s)
    <3>1. s[i].parent = (IF i = 1 THEN b.hash ELSE s[i - 1].hash) /\ s[i].number = b.number + i BY <2>1 DEF ChainOn
    <3>2. i # 1 => i - 1 \in 1..Len(s) BY <1>0, <2>1
    <3> QED BY <1>2, <2>1, <3>1, <3>2
  <2>2. CASE i = Len(s) + 1
    <3>0. c.number \in Int BY BlockFields
    <3>a. r[i] = c BY <1>2, <2>2
    <3>b. c.number = b.number + i BY <1>0, <2>2, <3>0
    <3>1. r[i].number = b.number + i BY <3>a, <3>b
    <3>2. CASE Len(s) = 0
      <4>1. s = <<>> /\ i = 1 BY <2>2, <3>2
      <4> QED BY <1>2, <2>2, <3>1, <4>1
    <3>3. CASE Len(s) # 0
      <4>1. s # <<>> /\ i # 1 /\ i - 1 = Len(s) /\ Len(s) \in 1..Len(s) BY <1>0, <2>2, <3>3
      <4>2. r[i - 1] = s[Len(s)] BY <1>2, <4>1
      <4> QED BY <1>2, <2>2, <3>1, <4>1, <4>2
    <3> QED BY <3>2, <3>3
  <2> QED BY <1>0, <1>2, <2>1, <2>2
<1>4. ChainOn(b, r) BY <1>3 DEF ChainOn
<1> QED BY <1>1, <1>4

\* One more confirmation for the item that is being walked.
LEMMA WalkOnStep ==
    ASSUME NEW B, Inv(B), mode = "full", cur # NoId, NEW b \in B,
           b.number = WalkNumber(items[cur]), b.parent = WalkParent(items[cur]),
           items' = [items EXCEPT ![cur].confs = Append(@, b)], cache' \subseteq B,
           UNCHANGED <<pending, told, out, entries, cur, notes>>,
           UNCHANGED <<chainVars, runVars, queueVars, viewVars, pc, todo, hashes, worker, clientVars>>
    PROVE  Inv(B)' /\ NewlyLinked
<1>0. Tree(B) /\ Held(B) /\ Shape /\ QueryOK /\ ItemsOK /\ LoopOK /\ setup \in Setups BY DEF Inv, Shape
<1>1. cur \in Ids /\ items[cur].blk # NoBlock BY <1>0, Now DEF LoopOK
<1>2. items \in [Ids -> Items(B)] BY <1>0, TypedNow
<1>3. items[cur] \in Items(B) BY <1>1, <1>2
<1>4. items[cur].confs \in Seq(B) /\ items[cur].blk \in B BY <1>1, <1>3, ItemFields
<1>5. PICK s : s = Append(items[cur].confs, b) OBVIOUS
<1>6. s \in Seq(B) BY <1>4, <1>5
<1>7. items'[cur] = [items[cur] EXCEPT !.confs = s] /\ \A o \in Ids : o # cur => items'[o] = items[o] BY <1>1, <1>2, <1>5
<1>8. /\ items'[cur] \in Items(B) /\ items'[cur].queued = items[cur].queued /\ items'[cur].gen = items[cur].gen
      /\ items'[cur].applied = items[cur].applied /\ items'[cur].blk = items[cur].blk /\ items'[cur].confs = s
      /\ items'[cur].notified = items[cur].notified /\ items'[cur].confirmed = items[cur].confirmed
  <2>1. PICK it \in Items(B) : it = items[cur] BY <1>3
  <2>2. PICK jt : jt = [it EXCEPT !.confs = s] OBVIOUS
  <2>3. /\ jt \in Items(B) /\ jt.queued = it.queued /\ jt.gen = it.gen /\ jt.applied = it.applied /\ jt.blk = it.blk
        /\ jt.confs = s /\ jt.notified = it.notified /\ jt.confirmed = it.confirmed BY <1>6, <2>2 DEF Items
  <2>4. items'[cur] = jt BY <1>7, <2>1, <2>2
  <2> QED BY <2>1, <2>3, <2>4
<1>9. items' \in [Ids -> Items(B)] BY <1>2, <1>7, <1>8
<1>10. ChainOn(items[cur].blk, s)
  <2>1. ChainOn(items[cur].blk, items[cur].confs) BY <1>0, <1>1 DEF ItemsOK, GoodItem
  <2>2. items[cur].blk.number \in Int /\ B \subseteq Blocks BY <1>0, <1>4, BlockFields DEF Tree
  <2>3. b.number = items[cur].blk.number + 1 + Len(items[cur].confs) BY DEF WalkNumber
  <2>4. b.parent = IF items[cur].confs = <<>> THEN items[cur].blk.hash ELSE items[cur].confs[Len(items[cur].confs)].hash
    BY DEF WalkParent, Last
  <2> QED BY <1>4, <1>5, <2>1, <2>2, <2>3, <2>4, ChainAppend
<1>11. \A o \in Ids : GoodItem(o, items'[o], told'[o])
  <2> SUFFICES ASSUME NEW o \in Ids PROVE GoodItem(o, items'[o], told'[o]) OBVIOUS
  <2>1. GoodItem(o, items[o], told[o]) BY <1>0 DEF ItemsOK
  <2>2. CASE o # cur BY <1>7, <2>1, <2>2
  <2>3. CASE o = cur
    <3>1. mode # "light" OBVIOUS
    <3> QED BY <1>1, <1>8, <1>10, <2>1, <2>3, <3>1 DEF GoodItem
  <2> QED BY <2>2, <2>3
<1>12. \A o \in Ids : Kept(o) /\ items'[o].blk = items[o].blk /\ items'[o].confirmed = items[o].confirmed BY <1>7, <1>8 DEF Kept
<1>u. UNCHANGED <<chain, final, mined, setup, worker, adds, pc, nq>> BY DEF chainVars, runVars, queueVars, clientVars
<1>13. Typed(B) BY <1>0, <1>9, <1>u, TypedNow DEF Typed
<1>14. Loops(B) BY <1>0, Now DEF Loops, chainVars, runVars, queueVars, viewVars
<1>15. LoopOK' BY <1>0, <1>8, <1>u DEF LoopOK
<1>16. Requeued BY <1>0 DEF Requeued, QueryOK
<1>17. Shrinks BY <1>u DEF Shrinks, Queue
<1>18. \A o \in Untouched : items'[o] = items[o] /\ o \notin pending'
  <2> SUFFICES ASSUME NEW o \in Untouched PROVE items'[o] = items[o] /\ o \notin pending' OBVIOUS
  <2>1. items[o].blk = NoBlock /\ o \notin pending /\ o \in Ids BY Touched, IdsOK DEF Untouched
  <2>2. o # cur BY <1>1, <2>1
  <2> QED BY <1>7, <2>1, <2>2
<1>19. Inv(B)' BY <1>11, <1>12, <1>13, <1>14, <1>15, <1>16, <1>17, <1>18, <1>u, ItemsStep
<1>20. NewlyLinked BY <1>12 DEF NewlyLinked
<1> QED BY <1>19, <1>20

LEMMA WalkStep == ASSUME NEW B, Inv(B), WalkChainForItem PROVE Inv(B)' /\ NewlyLinked
<1>0. ChainOK /\ Tree(B) /\ Held(B) /\ Shape /\ LoopOK BY DEF Inv
<1>1. mode = "full" /\ cur # NoId BY DEF WalkChainForItem
<1>2. UNCHANGED <<chainVars, runVars, queueVars, viewVars, pc, todo, hashes, newBlock, had, first, worker, clientVars>>
  BY DEF WalkChainForItem
<1>3. UNCHANGED <<chainVars, runVars, queueVars, viewVars, pc, todo, hashes, worker, clientVars>> BY <1>2
<1>4. cache \subseteq B BY <1>0, Now
<1>5. PICK it : it = items[cur] OBVIOUS
<1>6. \/ /\ Len(it.confs) >= R
         /\ EndWalk([it EXCEPT !.confirmed = TRUE])
         /\ cache' = cache
      \/ EndWalk(it) /\ cache' = cache
      \/ \E b \in cache : b.number = WalkNumber(it) /\ Walked(it, b)
      \/ WalkNumber(it) < Len(chain) /\ Walked(it, chain[WalkNumber(it) + 1])
  BY <1>5 DEF WalkChainForItem
<1>7. CASE Len(it.confs) >= R /\ EndWalk([it EXCEPT !.confirmed = TRUE]) /\ cache' = cache
  <2>1. PICK jt : jt = [it EXCEPT !.confirmed = TRUE] OBVIOUS
  <2>2. EndWalk(jt) /\ jt = [items[cur] EXCEPT !.confirmed = TRUE] /\ Len(items[cur].confs) >= R BY <1>5, <1>7, <2>1
  <2>3. cache' \subseteq B BY <1>4, <1>7
  <2> QED BY <1>1, <1>3, <2>2, <2>3, EndWalkStep, Zenon
<1>8. CASE EndWalk(it) /\ cache' = cache
  <2>1. cache' \subseteq B BY <1>4, <1>8
  <2> QED BY <1>1, <1>3, <1>5, <1>8, <2>1, EndWalkStep, Zenon
<1>9. ASSUME NEW b \in B, b.number = WalkNumber(it), Walked(it, b) PROVE Inv(B)' /\ NewlyLinked
  <2>1. cache' \subseteq B BY <1>4, <1>9 DEF Walked
  <2>2. CASE EndWalk(it) BY <1>1, <1>3, <1>5, <2>1, <2>2, EndWalkStep, Zenon
  <2>3. CASE b.parent = WalkParent(it) /\ items' = [items EXCEPT ![cur].confs = Append(@, b)]
              /\ UNCHANGED <<pending, told, out, entries, cur, notes>>
    BY <1>1, <1>3, <1>5, <1>9, <2>1, <2>3, WalkOnStep
  <2> QED BY <1>9, <2>2, <2>3 DEF Walked
<1>10. CASE \E b \in cache : b.number = WalkNumber(it) /\ Walked(it, b) BY <1>4, <1>9, <1>10
<1>11. CASE WalkNumber(it) < Len(chain) /\ Walked(it, chain[WalkNumber(it) + 1])
  <2>1. cur \in Ids /\ items[cur].blk # NoBlock BY <1>0, <1>1, Now DEF LoopOK
  <2>2. items[cur] \in Items(B) BY <1>0, <2>1, TypedNow
  <2>3. it.blk \in B /\ it.confs \in Seq(B) BY <1>5, <2>1, <2>2, ItemFields
  <2>4. it.blk.number \in Nat BY <1>0, <2>3, BlockFields DEF Tree
  <2>5. WalkNumber(it) \in Nat BY <2>3, <2>4 DEF WalkNumber
  <2>6. PICK k \in Nat : k = WalkNumber(it) BY <2>5
  <2>7. k + 1 \in 1..Len(chain) /\ chain[k + 1] \in B /\ chain[k + 1].number = k
    <3>1. Len(chain) \in Nat BY <1>0 DEF ChainOK
    <3>2. k + 1 \in 1..Len(chain) BY <1>11, <2>6, <3>1
    <3>3. chain[k + 1].number = (k + 1) - 1 BY <1>0, <3>2 DEF ChainOK
    <3> QED BY <1>0, <3>2, <3>3 DEF Tree
  <2> QED BY <1>9, <1>11, <2>6, <2>7
<1> QED BY <1>6, <1>7, <1>8, <1>10, <1>11

(***************************************************************************)
(* Scheduling receipt checks                                               *)
(***************************************************************************)

\* What schedule makes of an item.
Rescheduled(it, jt) ==
    /\ jt.blk = it.blk /\ jt.confs = it.confs /\ jt.notified = it.notified /\ jt.confirmed = it.confirmed
    /\ jt.applied = it.applied

LEMMA ScheduledOK ==
    ASSUME NEW B, NEW its \in [Ids -> Items(B)], NEW S, NEW jts, jts = ScheduledItems(its, S)
    PROVE  /\ jts \in [Ids -> Items(B)]
           /\ \A o \in Ids :
                /\ Rescheduled(its[o], jts[o])
                /\ o \in S /\ ~its[o].queued => jts[o].queued /\ jts[o].gen = its[o].gen + 1
                /\ o \notin S \/ its[o].queued => jts[o] = its[o]
<1>1. jts = [o \in Ids |-> IF o \in S /\ ~its[o].queued
                           THEN [its[o] EXCEPT !.queued = TRUE, !.once = TRUE, !.gen = @ + 1]
                           ELSE its[o]] BY DEF ScheduledItems
<1>2. ASSUME NEW o \in Ids
      PROVE  /\ jts[o] \in Items(B) /\ Rescheduled(its[o], jts[o])
             /\ o \in S /\ ~its[o].queued => jts[o].queued /\ jts[o].gen = its[o].gen + 1
             /\ o \notin S \/ its[o].queued => jts[o] = its[o]
  <2>1. PICK it \in Items(B) : it = its[o] OBVIOUS
  <2>2. CASE o \in S /\ ~it.queued
    <3>1. PICK g \in Nat : g = it.gen + 1 BY ItemFields
    <3>2. PICK jt : jt = [it EXCEPT !.queued = TRUE, !.once = TRUE, !.gen = g] OBVIOUS
    <3>3. /\ jt \in Items(B) /\ jt.blk = it.blk /\ jt.confs = it.confs /\ jt.notified = it.notified
          /\ jt.confirmed = it.confirmed /\ jt.applied = it.applied /\ jt.queued /\ jt.gen = g BY <3>1, <3>2 DEF Items
    <3>4. jts[o] = jt BY <1>1, <2>1, <2>2, <3>1, <3>2
    <3> QED BY <2>1, <2>2, <3>1, <3>3, <3>4 DEF Rescheduled
  <2>3. CASE ~(o \in S /\ ~it.queued)
    <3>1. jts[o] = it BY <1>1, <2>1, <2>3
    <3> QED BY <2>1, <2>3, <3>1 DEF Rescheduled
  <2> QED BY <2>2, <2>3
<1>3. jts \in [Ids -> Items(B)] BY <1>1, <1>2
<1> QED BY <1>2, <1>3

\* What waits after schedule: each item once.
LEMMA ScheduledEntriesOK ==
    ASSUME NEW B, Held(B), Shape, QueryOK, NEW S \in SUBSET CheckIds, IsFiniteSet(S),
           NEW es, es = ScheduledEntries(items, S)
    PROVE  /\ es \in Seq(CheckIds)
           /\ \A i, j \in 1..Len(es) : es[i] = es[j] => i = j
           /\ \A i \in 1..Len(es) : (es[i] \in S /\ ~items[es[i]].queued) \/ \E j \in 1..Len(entries) : es[i] = entries[j]
<1>0. entries \in Seq(CheckIds) /\ Len(entries) \in Nat BY TypedNow
<1>1. PICK T : T = {o \in S : ~items[o].queued} OBVIOUS
<1>2. T \subseteq S /\ IsFiniteSet(T) /\ \A o \in T : ~items[o].queued BY <1>1, FS_Subset
<1>3. PICK s : s = SetToSeq(T) OBVIOUS
<1>4. s \in Seq(T) /\ Len(s) \in Nat /\ \A i, j \in 1..Len(s) : s[i] = s[j] => i = j BY <1>2, <1>3, SetToSeqOK
<1>5. es = entries \o s BY <1>1, <1>3 DEF ScheduledEntries
<1>6. s \in Seq(CheckIds) BY <1>2, <1>4, SeqMonotonic
<1>7. es \in Seq(CheckIds) BY <1>0, <1>5, <1>6
<1>10. /\ Len(es) = Len(entries) + Len(s) /\ \A i \in 1..Len(entries) : es[i] = entries[i]
       /\ \A i \in 1..Len(es) : i > Len(entries) => i - Len(entries) \in 1..Len(s) /\ es[i] = s[i - Len(entries)]
  BY <1>0, <1>4, <1>5, <1>6
<1>11. \A i \in 1..Len(s) : s[i] \in T BY <1>4
<1>12. \A i \in 1..Len(entries) : entries[i] \notin T BY <1>2 DEF QueryOK
<1>13. ASSUME NEW i \in 1..Len(es) PROVE (es[i] \in S /\ ~items[es[i]].queued) \/ \E j \in 1..Len(entries) : es[i] = entries[j]
  <2>1. CASE i <= Len(entries)
    <3>1. i \in 1..Len(entries) BY <1>0, <2>1
    <3> QED BY <1>10, <3>1
  <2>2. CASE i > Len(entries)
    <3>1. es[i] \in T BY <1>10, <1>11, <2>2
    <3> QED BY <1>2, <3>1
  <2>3. Len(es) \in Nat BY <1>7
  <2> QED BY <1>0, <2>1, <2>2, <2>3
<1>14. ASSUME NEW i \in 1..Len(es), NEW j \in 1..Len(es), es[i] = es[j] PROVE i = j
  <2>0. Len(es) \in Nat BY <1>7
  <2>1. CASE i <= Len(entries) /\ j <= Len(entries)
    <3>1. i \in 1..Len(entries) /\ j \in 1..Len(entries) BY <1>0, <2>0, <2>1
    <3>2. entries[i] = entries[j] BY <1>10, <1>14, <3>1
    <3> QED BY <3>1, <3>2 DEF QueryOK
  <2>2. CASE i > Len(entries) /\ j > Len(entries)
    <3>1. i - Len(entries) = j - Len(entries) BY <1>4, <1>10, <1>14, <2>2
    <3> QED BY <1>0, <2>0, <3>1
  <2>3. CASE i <= Len(entries) /\ j > Len(entries)
    <3>1. i \in 1..Len(entries) BY <1>0, <2>0, <2>3
    <3>2. es[i] \notin T /\ es[j] \in T BY <1>10, <1>11, <1>12, <2>3, <3>1
    <3> QED BY <1>14, <3>2
  <2>4. CASE i > Len(entries) /\ j <= Len(entries)
    <3>1. j \in 1..Len(entries) BY <1>0, <2>0, <2>4
    <3>2. es[j] \notin T /\ es[i] \in T BY <1>10, <1>11, <1>12, <2>4, <3>1
    <3> QED BY <1>14, <3>2
  <2> QED BY <1>0, <2>0, <2>1, <2>2, <2>3, <2>4
<1> QED BY <1>7, <1>13, <1>14

LEMMA ScheduleStep == ASSUME NEW B, Inv(B), ScheduleReceiptChecks PROVE Inv(B)' /\ NewlyLinked
<1>0. Held(B) /\ Shape /\ QueryOK /\ ItemsOK /\ LoopOK /\ setup \in Setups BY DEF Inv, Shape
<1>1. /\ cur = NoId /\ pc' = "idle"
      /\ UNCHANGED <<chainVars, runVars, queueVars, viewVars, pending, told, out, todo, cur, notes, hashes,
                     newBlock, had, cache, lowestNil, worker, clientVars>> BY DEF ScheduleReceiptChecks
<1>2. PICK S \in SUBSET pending :
        /\ S = {} \/ role = "tx"
        /\ items' = ScheduledItems(items, S) /\ entries' = ScheduledEntries(items, S)
  <2> DEFINE all == (~first /\ had) \/ (mode = "light" /\ newBlock)
             due == {o \in pending : role = "tx" /\ all /\ (~items[o].once \/ (mode = "light" /\ items[o].blk = NoBlock))}
             old == {o \in pending : role = "tx" /\ "timeout" \in Faults /\ items[o].gen < MaxChecks}
  <2>1. PICK T \in SUBSET old : items' = ScheduledItems(items, due \cup T) /\ entries' = ScheduledEntries(items, due \cup T)
    BY DEF ScheduleReceiptChecks
  <2>2. due \cup T \in SUBSET pending OBVIOUS
  <2>3. due \cup T = {} \/ role = "tx" OBVIOUS
  <2> HIDE DEF due, old
  <2> QED BY <2>1, <2>2, <2>3
<1>3. S \in SUBSET Ids /\ IsFiniteSet(S) /\ S \in SUBSET CheckIds BY <1>0, <1>2, FS_Subset DEF Shape, CheckIds
<1>4. items \in [Ids -> Items(B)] BY <1>0, TypedNow
<1>5. /\ items' \in [Ids -> Items(B)]
      /\ \A o \in Ids :
           /\ Rescheduled(items[o], items'[o])
           /\ o \in S /\ ~items[o].queued => items'[o].queued /\ items'[o].gen = items[o].gen + 1
           /\ o \notin S \/ items[o].queued => items'[o] = items[o]
  <2>1. PICK jts : jts = ScheduledItems(items, S) OBVIOUS
  <2>2. /\ jts \in [Ids -> Items(B)]
        /\ \A o \in Ids :
             /\ Rescheduled(items[o], jts[o])
             /\ o \in S /\ ~items[o].queued => jts[o].queued /\ jts[o].gen = items[o].gen + 1
             /\ o \notin S \/ items[o].queued => jts[o] = items[o]
    BY <1>4, <2>1, ScheduledOK
  <2>3. items' = jts BY <1>2, <2>1
  <2> QED BY <2>2, <2>3
<1>6. \A o \in Ids : (Kept(o) \/ Begun(o)) /\ (o \in S /\ ~items[o].queued => Begun(o)) BY <1>5 DEF Kept, Begun, Rescheduled
<1>7. \A o \in Ids : items'[o].blk = items[o].blk /\ items'[o].confirmed = items[o].confirmed BY <1>5 DEF Rescheduled
<1>8. entries' \in Seq(CheckIds) /\ Requeued
  <2>1. PICK es : es = ScheduledEntries(items, S) OBVIOUS
  <2>2. /\ es \in Seq(CheckIds)
        /\ \A i, j \in 1..Len(es) : es[i] = es[j] => i = j
        /\ \A i \in 1..Len(es) : (es[i] \in S /\ ~items[es[i]].queued) \/ \E j \in 1..Len(entries) : es[i] = entries[j]
    BY <1>0, <1>2, <1>3, <2>1, ScheduledEntriesOK
  <2>3. \A i \in 1..Len(es) : Begun(es[i]) \/ \E j \in 1..Len(entries) : es[i] = entries[j] BY <1>3, <1>6, <2>2
  <2>4. entries' = es BY <1>2, <2>1
  <2>5. PICK T : T = CheckIds OBVIOUS
  <2>6. es \in Seq(T) BY <2>2, <2>5
  <2>7. entries' \in Seq(T) /\ Requeued BY <2>2, <2>3, <2>4, <2>6, WithoutStep
  <2> QED BY <2>5, <2>7
<1>u. UNCHANGED <<chain, final, mined, setup, worker, adds, nq, notes, pending, told, out, cur>>
  BY <1>1 DEF chainVars, runVars, queueVars, clientVars
<1>9. Typed(B) BY <1>0, <1>5, <1>8, <1>u, TypedNow DEF Typed
<1>10. Loops(B) BY <1>0, <1>1, Now DEF Loops, chainVars, runVars, queueVars, viewVars
<1>11. LoopOK' BY <1>1 DEF LoopOK
<1>12. Shrinks BY <1>u DEF Shrinks, Queue
<1>13. \A o \in Untouched : items'[o] = items[o] /\ o \notin pending'
  <2> SUFFICES ASSUME NEW o \in Untouched PROVE items'[o] = items[o] /\ o \notin pending' OBVIOUS
  <2>1. o \notin pending /\ o \in Ids BY Touched, IdsOK DEF Untouched
  <2> QED BY <1>2, <1>5, <1>u, <2>1
<1>14. \A o \in Ids : GoodItem(o, items'[o], told'[o])
  <2> SUFFICES ASSUME NEW o \in Ids PROVE GoodItem(o, items'[o], told'[o]) OBVIOUS
  <2>1. GoodItem(o, items[o], told[o]) BY <1>0 DEF ItemsOK
  <2> QED BY <1>5, <1>u, <2>1 DEF GoodItem, Rescheduled
<1>15. Inv(B)' BY <1>6, <1>7, <1>8, <1>9, <1>10, <1>11, <1>12, <1>13, <1>14, <1>u, ItemsStep
<1>16. NewlyLinked BY <1>7 DEF NewlyLinked
<1> QED BY <1>15, <1>16

(***************************************************************************)
(* A new block is processed                                                *)
(***************************************************************************)

\* A prefix of the confirmations with a block on top of it.
LEMMA AttachChain ==
    ASSUME NEW B, B \subseteq Blocks, NEW it \in Items(B), it.blk \in B, NEW b \in B, ChainOn(it.blk, it.confs), Attaches(it, b)
    PROVE  /\ Append(SubSeq(it.confs, 1, b.number - it.blk.number - 1), b) \in Seq(B)
           /\ ChainOn(it.blk, Append(SubSeq(it.confs, 1, b.number - it.blk.number - 1), b))
<1>0. it.confs \in Seq(B) /\ Len(it.confs) \in Nat /\ it.blk.number \in Int /\ b.number \in Int BY ItemFields, BlockFields
<1>1. PICK i \in 0..Len(it.confs) : AttachesAt(it, b, i) BY DEF Attaches
<1>2. b.number = it.blk.number + 1 + i /\ b.parent = IF i = 0 THEN it.blk.hash ELSE it.confs[i].hash BY <1>1 DEF AttachesAt
<1>3. b.number - it.blk.number - 1 = i BY <1>0, <1>2
<1>4. PICK s : s = SubSeq(it.confs, 1, i) OBVIOUS
<1>5. s \in Seq(B) /\ Len(s) = i /\ \A j \in 1..i : s[j] = it.confs[j] BY <1>0, <1>4
<1>6. ChainOn(it.blk, s)
  <2> SUFFICES ASSUME NEW j \in 1..Len(s)
               PROVE  s[j].parent = (IF j = 1 THEN it.blk.hash ELSE s[j - 1].hash) /\ s[j].number = it.blk.number + j
    BY DEF ChainOn
  <2>1. j \in 1..i /\ j \in 1..Len(it.confs) /\ (j # 1 => j - 1 \in 1..i) BY <1>0, <1>5
  <2>2. it.confs[j].parent = (IF j = 1 THEN it.blk.hash ELSE it.confs[j - 1].hash) /\ it.confs[j].number = it.blk.number + j
    BY <2>1 DEF ChainOn
  <2> QED BY <1>5, <2>1, <2>2
<1>7. b.number = it.blk.number + 1 + Len(s) BY <1>2, <1>5
<1>8. b.parent = IF s = <<>> THEN it.blk.hash ELSE s[Len(s)].hash
  <2>1. CASE i = 0
    <3>1. s = <<>> BY <1>5, <2>1
    <3> QED BY <1>2, <2>1, <3>1
  <2>2. CASE i # 0
    <3>1. s # <<>> /\ i \in 1..i /\ s[Len(s)] = it.confs[i] BY <1>5, <2>2
    <3> QED BY <1>2, <2>2, <3>1
  <2> QED BY <2>1, <2>2
<1>9. ChainOn(it.blk, Append(s, b)) BY <1>0, <1>5, <1>6, <1>7, <1>8, ChainAppend
<1>10. Append(s, b) \in Seq(B) BY <1>5
<1> QED BY <1>3, <1>4, <1>9, <1>10

\* What the block makes of an item that has a block of its own.
AttachedTo(B, o, it, jt, tl) ==
    /\ jt \in Items(B) /\ GoodItem(o, jt, tl)
    /\ jt.blk = it.blk /\ jt.queued = it.queued /\ jt.gen = it.gen /\ jt.applied = it.applied
    /\ jt.confirmed => it.confirmed \/ Len(jt.confs) >= R

LEMMA AttachedOK ==
    ASSUME NEW B, Tree(B), Settled(B), mode = "full", NEW o, NEW it \in Items(B), NEW tl, GoodItem(o, it, tl),
           it.blk # NoBlock, NEW b \in B
    PROVE  AttachedTo(B, o, it, Attached(it, b), tl)
<1>0. it.confs \in Seq(B) /\ it.blk \in B /\ it.confirmed \in BOOLEAN /\ B \subseteq Blocks BY ItemFields DEF Tree
<1>1. PICK cs : cs = IF Attaches(it, b) THEN Append(SubSeq(it.confs, 1, b.number - it.blk.number - 1), b) ELSE it.confs OBVIOUS
<1>2. ChainOn(it.blk, it.confs) BY DEF GoodItem
<1>3. cs \in Seq(B) /\ ChainOn(it.blk, cs)
  <2>1. CASE Attaches(it, b) BY <1>0, <1>1, <1>2, <2>1, AttachChain
  <2>2. CASE ~Attaches(it, b) BY <1>0, <1>1, <1>2, <2>2
  <2> QED BY <2>1, <2>2
<1>4. PICK y \in BOOLEAN : y = (it.confirmed \/ Len(cs) >= R) OBVIOUS
<1>5. PICK jt : jt = [it EXCEPT !.confs = cs, !.confirmed = y] OBVIOUS
<1>6. Attached(it, b) = jt
  <2>1. Attached(it, b) = [it EXCEPT !.confs = cs, !.confirmed = @ \/ Len(cs) >= R] BY <1>1 DEF Attached
  <2> QED BY <1>4, <1>5, <2>1
<1>7. /\ jt \in Items(B) /\ jt.blk = it.blk /\ jt.queued = it.queued /\ jt.gen = it.gen /\ jt.applied = it.applied
      /\ jt.notified = it.notified /\ jt.confs = cs /\ jt.confirmed = y BY <1>3, <1>4, <1>5 DEF Items
<1>8. y => Final(it.blk)
  <2>1. CASE it.confirmed BY <2>1 DEF GoodItem
  <2>2. CASE Len(cs) >= R BY <1>0, <1>3, <2>2, EnoughFinal
  <2> QED BY <1>4, <2>1, <2>2
<1>9. GoodItem(o, jt, tl)
  <2>1. mode # "light" OBVIOUS
  <2> QED BY <1>3, <1>7, <1>8, <2>1 DEF GoodItem
<1> QED BY <1>4, <1>6, <1>7, <1>9 DEF AttachedTo

LEMMA ProcessBlockStep == ASSUME NEW B, Inv(B), ProcessBlock PROVE Inv(B)' /\ NewlyLinked
<1>0. Tree(B) /\ Settled(B) /\ Held(B) /\ Shape /\ QueryOK /\ ItemsOK /\ LoopOK /\ setup \in Setups BY DEF Inv, Shape
<1>1. mode = "full" /\ pc = "blocks" /\ hashes # <<>> /\ hashes' = Tail(hashes) BY DEF ProcessBlock
<1>2. UNCHANGED <<chainVars, runVars, queueVars, stale, head, pc, todo, cur, notes, newBlock, had,
                  first, cache, lowestNil, worker, clientVars>> BY DEF ProcessBlock
<1>3. PICK b \in B : b = Head(hashes)
  <2>1. hashes \in Seq(B) BY <1>0, Now
  <2> QED BY <1>1, <2>1
<1>4. PICK moved : moved = {o \in pending : Key(o) \in b.txs /\ items[o].blk.hash # b.hash} OBVIOUS
<1>5. PICK its : its = ScheduledItems(items, moved) OBVIOUS
<1>6. PICK M : M = {o \in pending : items[o].blk # NoBlock} OBVIOUS
<1>7. PICK now : now = [o \in Ids |-> IF o \in M THEN Attached(its[o], b) ELSE its[o]] OBVIOUS
<1>8. PICK S : S = {o \in M : R > 0 /\ (now[o].confirmed \/ Attaches(items[o], b))} OBVIOUS
<1>9. PICK C : C = {o \in S : now[o].confirmed} OBVIOUS
<1>10. DispatchConfirmations(now, S) /\ entries' = EntriesWithout(ScheduledEntries(items, moved), C)
  BY <1>3, <1>4, <1>5, <1>6, <1>7, <1>8, <1>9 DEF ProcessBlock
<1>11. moved \subseteq pending /\ M \subseteq pending /\ S \subseteq M BY <1>4, <1>6, <1>8
<1>12. /\ moved \in SUBSET Ids /\ IsFiniteSet(moved) /\ (role = "tx" => moved \subseteq TxIds)
       /\ S \in SUBSET Ids /\ IsFiniteSet(S) /\ M \in SUBSET Ids
  BY <1>0, <1>11, FS_Subset DEF Shape
<1>13. moved \in SUBSET CheckIds
  <2>1. CASE role = "tx" BY <1>12, <2>1 DEF CheckIds
  <2>2. CASE role = "event"
    <3>1. b.txs = {} BY <1>0, <1>1, <2>2 DEF Tree
    <3>2. moved = {} BY <1>4, <3>1
    <3> QED BY <3>2
  <2> QED BY <1>0, <2>1, <2>2, SetupOK
<1>14. items \in [Ids -> Items(B)] /\ told \in [Ids -> Tellings(B)] /\ out \in Seq(Ids) BY <1>0, TypedNow
<1>15. /\ its \in [Ids -> Items(B)]
       /\ \A o \in Ids :
            /\ Rescheduled(items[o], its[o])
            /\ o \in moved /\ ~items[o].queued => its[o].queued /\ its[o].gen = items[o].gen + 1
            /\ o \notin moved \/ items[o].queued => its[o] = items[o]
  BY <1>5, <1>14, ScheduledOK, SMTT(30)
<1>16. \A o \in Ids : GoodItem(o, its[o], told[o])
  <2> SUFFICES ASSUME NEW o \in Ids PROVE GoodItem(o, its[o], told[o]) OBVIOUS
  <2>1. GoodItem(o, items[o], told[o]) /\ Rescheduled(items[o], its[o]) BY <1>0, <1>15 DEF ItemsOK
  <2> QED BY <2>1 DEF GoodItem, Rescheduled
<1>17. ASSUME NEW o \in Ids
       PROVE  /\ now[o] \in Items(B) /\ GoodItem(o, now[o], told[o])
              /\ now[o].blk = its[o].blk /\ now[o].queued = its[o].queued /\ now[o].gen = its[o].gen
              /\ now[o].applied = its[o].applied
              /\ now[o].confirmed => its[o].confirmed \/ (o \in M /\ Len(now[o].confs) >= R)
              /\ o \notin M => now[o] = its[o]
  <2>0. its[o] \in Items(B) /\ GoodItem(o, its[o], told[o]) BY <1>15, <1>16
  <2>1. CASE o \in M
    <3>1. now[o] = Attached(its[o], b) BY <1>7, <2>1
    <3>2. its[o].blk # NoBlock BY <1>6, <1>15, <2>1 DEF Rescheduled
    <3>3. AttachedTo(B, o, its[o], Attached(its[o], b), told[o]) BY <1>0, <1>1, <2>0, <3>2, AttachedOK, Zenon
    <3>4. AttachedTo(B, o, its[o], now[o], told[o]) BY <3>1, <3>3
    <3> QED BY <2>1, <3>4 DEF AttachedTo
  <2>2. CASE o \notin M
    <3>1. now[o] = its[o] BY <1>7, <2>2
    <3> QED BY <2>0, <2>2, <3>1
  <2> QED BY <2>1, <2>2
<1>18. now \in [Ids -> Items(B)] /\ \A o \in Ids : GoodItem(o, now[o], told[o]) BY <1>7, <1>17
<1>19. /\ items' \in [Ids -> Items(B)] /\ told' \in [Ids -> Tellings(B)] /\ out' \in Seq(Ids)
       /\ pending' \subseteq pending
       /\ \A o \in Ids :
            /\ GoodItem(o, items'[o], told'[o])
            /\ items'[o] = [now[o] EXCEPT !.notified = items'[o].notified]
            /\ o \notin S => items'[o] = now[o] /\ told'[o] = told[o]
            /\ o \in S /\ mode = "full" /\ R > 0 /\ now[o].confirmed /\ Len(now[o].confs) >= R =>
                 /\ told'[o].confirmed = now[o].blk /\ ChainOn(now[o].blk, told'[o].list)
                 /\ Len(told'[o].list) >= R /\ (role = "tx" => told'[o].receipt = now[o].blk)
  <2>1. DispatchedAll(B, now, S) BY <1>0, <1>10, <1>12, <1>14, <1>18, DispatchOK, Zenon
  <2> QED BY <2>1 DEF DispatchedAll
<1>20. \A o \in Ids : /\ items'[o].queued = its[o].queued /\ items'[o].gen = its[o].gen
                      /\ items'[o].applied = its[o].applied /\ items'[o].blk = its[o].blk
                      /\ items'[o].confirmed = now[o].confirmed
  <2> SUFFICES ASSUME NEW o \in Ids
               PROVE  /\ items'[o].queued = its[o].queued /\ items'[o].gen = its[o].gen
                      /\ items'[o].applied = its[o].applied /\ items'[o].blk = its[o].blk
                      /\ items'[o].confirmed = now[o].confirmed
    OBVIOUS
  <2>1. PICK it \in Items(B) : it = now[o] BY <1>17
  <2>2. PICK d : d = items'[o].notified OBVIOUS
  <2>3. PICK jt : jt = [it EXCEPT !.notified = d] OBVIOUS
  <2>4. jt.queued = it.queued /\ jt.gen = it.gen /\ jt.applied = it.applied /\ jt.blk = it.blk /\ jt.confirmed = it.confirmed
    BY <2>3 DEF Items
  <2>5. items'[o] = jt BY <1>19, <2>1, <2>2, <2>3
  <2> QED BY <1>17, <2>1, <2>4, <2>5
<1>21. \A o \in Ids : /\ Kept(o) \/ Begun(o)
                      /\ o \in moved /\ ~items[o].queued => Begun(o)
                      /\ items'[o].blk = items[o].blk
  BY <1>15, <1>20 DEF Kept, Begun, Rescheduled
<1>22. entries' \in Seq(CheckIds) /\ Requeued
  <2>1. PICK es : es = ScheduledEntries(items, moved) OBVIOUS
  <2>2. /\ es \in Seq(CheckIds)
        /\ \A i, j \in 1..Len(es) : es[i] = es[j] => i = j
        /\ \A i \in 1..Len(es) : (es[i] \in moved /\ ~items[es[i]].queued) \/ \E j \in 1..Len(entries) : es[i] = entries[j]
    BY <1>0, <1>12, <1>13, <2>1, ScheduledEntriesOK
  <2>3. \A i \in 1..Len(es) : Begun(es[i]) \/ \E j \in 1..Len(entries) : es[i] = entries[j] BY <1>12, <1>21, <2>2
  <2>4. entries' = EntriesWithout(es, C) BY <1>10, <2>1
  <2>5. PICK T : T = CheckIds OBVIOUS
  <2>6. es \in Seq(T) BY <2>2, <2>5
  <2>7. entries' \in Seq(T) /\ Requeued BY <2>2, <2>3, <2>4, <2>6, WithoutStep
  <2> QED BY <2>5, <2>7
<1>u. UNCHANGED <<chain, final, mined, setup, worker, adds, nq, notes, cur, pc>>
  BY <1>2 DEF chainVars, runVars, queueVars, clientVars
<1>23. Typed(B) BY <1>0, <1>19, <1>22, <1>u, TypedNow, PendingLess DEF Typed
<1>24. hashes' \in Seq(B)
  <2>1. hashes \in Seq(B) BY <1>0, Now
  <2> QED BY <1>1, <2>1
<1>25. Loops(B) BY <1>0, <1>2, <1>24, Now DEF Loops, chainVars, runVars, queueVars
<1>26. LoopOK'
  <2>1. cur # NoId => cur \in Ids /\ items[cur].blk # NoBlock BY <1>0, Now DEF LoopOK
  <2> QED BY <1>0, <1>21, <1>u, <2>1 DEF LoopOK
<1>27. Shrinks BY <1>u DEF Shrinks, Queue
<1>28. \A o \in Untouched : items'[o] = items[o] /\ o \notin pending'
  <2> SUFFICES ASSUME NEW o \in Untouched PROVE items'[o] = items[o] /\ o \notin pending' OBVIOUS
  <2>1. o \notin pending /\ o \in Ids BY Touched, IdsOK DEF Untouched
  <2>2. o \notin moved /\ o \notin M /\ o \notin S /\ o \notin pending' BY <1>11, <1>19, <2>1
  <2>3. now[o] = its[o] /\ its[o] = items[o] BY <1>15, <1>17, <2>1, <2>2
  <2> QED BY <1>19, <2>1, <2>2, <2>3
<1>29. \A o \in Ids : GoodItem(o, items'[o], told'[o]) BY <1>19
<1>30. Inv(B)' BY <1>21, <1>22, <1>23, <1>25, <1>26, <1>27, <1>28, <1>29, <1>u, ItemsStep
<1>31. NewlyLinked
  <2> SUFFICES ASSUME NEW o \in Ids, R > 0, ~items[o].confirmed, items'[o].confirmed
               PROVE  /\ told'[o].confirmed = items'[o].blk
                      /\ ChainOn(told'[o].confirmed, told'[o].list)
                      /\ Len(told'[o].list) >= R
                      /\ role = "tx" => told'[o].receipt = told'[o].confirmed
    BY DEF NewlyLinked
  <2>1. now[o].confirmed /\ ~its[o].confirmed /\ items'[o].blk = now[o].blk BY <1>15, <1>17, <1>20 DEF Rescheduled
  <2>2. o \in M /\ Len(now[o].confs) >= R BY <1>17, <2>1
  <2>3. o \in S BY <1>8, <2>1, <2>2
  <2> QED BY <1>1, <1>19, <2>1, <2>2, <2>3
<1> QED BY <1>30, <1>31

(***************************************************************************)
(* Confirmations by block height                                           *)
(***************************************************************************)

\* Light mode changes the block of an item and nothing of its checks or callbacks.
SameChecks(it, jt) ==
    /\ jt.queued = it.queued /\ jt.gen = it.gen /\ jt.applied = it.applied
    /\ jt.confs = it.confs /\ jt.notified = it.notified /\ jt.confirmed = it.confirmed

LEMMA HeightDoneStep ==
    ASSUME NEW B, Inv(B), mode = "light", cur # NoId, NEW it \in Items(B), NEW ended \in BOOLEAN, HeightDone(it, ended),
           SameChecks(items[cur], it), role = "tx" /\ it.blk # NoBlock => Key(cur) \in it.blk.txs,
           ended => Final(it.blk), cur' = NoId, notes' \in Seq(QueueNotes(B)), Shrinks, pc' \in {pc, "idle"},
           UNCHANGED <<chainVars, runVars, queueVars, viewVars, todo, hashes, newBlock, had, first,
                       cache, lowestNil, worker, clientVars>>
    PROVE  Inv(B)'
<1>0. Held(B) /\ Shape /\ QueryOK /\ ItemsOK /\ LoopOK /\ setup \in Setups BY DEF Inv, Shape
<1>1. cur \in Ids /\ items[cur].blk # NoBlock BY <1>0, Now DEF LoopOK
<1>2. /\ items' = [items EXCEPT ![cur] = it]
      /\ pending' = IF ended THEN {p \in pending : Key(p) # KeyNow(it)} ELSE pending
      /\ out' = IF ended THEN Append(out, cur) ELSE out
      /\ told' = IF ended THEN [told EXCEPT ![cur].confirmed = it.blk] ELSE told
      /\ entries' = IF ended /\ role = "tx" THEN EntriesWithout(entries, {cur}) ELSE entries BY DEF HeightDone
<1>3. items \in [Ids -> Items(B)] /\ told \in [Ids -> Tellings(B)] /\ out \in Seq(Ids) BY <1>0, TypedNow
<1>5. items' \in [Ids -> Items(B)] /\ items'[cur] = it /\ \A o \in Ids : o # cur => items'[o] = items[o] BY <1>1, <1>2, <1>3
<1>6. /\ told' \in [Ids -> Tellings(B)] /\ \A o \in Ids : o # cur => told'[o] = told[o]
      /\ told'[cur].list = told[cur].list /\ told'[cur].receipt = told[cur].receipt
      /\ told'[cur].confirmed = IF ended THEN it.blk ELSE told[cur].confirmed
  <2>1. CASE ~ended BY <1>2, <1>3, <2>1
  <2>2. CASE ended
    <3>1. PICK tl \in Tellings(B) : tl = told[cur] BY <1>1, <1>3
    <3>2. PICK tm : tm = [tl EXCEPT !.confirmed = it.blk] OBVIOUS
    <3>3. it.blk \in B \cup {NoBlock} BY ItemFields
    <3>4. tm \in Tellings(B) /\ tm.list = tl.list /\ tm.receipt = tl.receipt /\ tm.confirmed = it.blk BY <3>2, <3>3 DEF Tellings
    <3>5. told' = [told EXCEPT ![cur] = tm] BY <1>2, <2>2, <3>1, <3>2
    <3> QED BY <1>1, <1>3, <2>2, <3>1, <3>4, <3>5
  <2> QED BY <2>1, <2>2
<1>7. out' \in Seq(Ids) /\ pending' \subseteq pending BY <1>1, <1>2, <1>3
<1>8. \A o \in Ids : Kept(o) BY <1>5 DEF Kept, SameChecks
<1>9. \A o \in Ids : GoodItem(o, items'[o], told'[o])
  <2> SUFFICES ASSUME NEW o \in Ids PROVE GoodItem(o, items'[o], told'[o]) OBVIOUS
  <2>1. GoodItem(o, items[o], told[o]) BY <1>0 DEF ItemsOK
  <2>2. CASE o # cur BY <1>5, <1>6, <2>1, <2>2
  <2>3. CASE o = cur
    <3>1. role = "tx" => o \in TxIds BY <1>1, <2>1, <2>3 DEF GoodItem
    <3>2. told'[o].confirmed # NoBlock => Final(told'[o].confirmed)
      <4>1. CASE ended BY <1>6, <2>3, <4>1
      <4>2. CASE ~ended BY <1>6, <2>1, <2>3, <4>2 DEF GoodItem
      <4> QED BY <4>1, <4>2
    <3>3. items'[o] = it /\ it.confs = items[o].confs /\ it.notified = items[o].notified /\ ~it.confirmed
      BY <1>5, <2>1, <2>3 DEF GoodItem, SameChecks
    <3>4. told'[o].list = told[o].list BY <1>6, <2>3
    <3>5. mode # "full" OBVIOUS
    <3> QED BY <2>1, <2>3, <3>1, <3>2, <3>3, <3>4, <3>5 DEF GoodItem
  <2> QED BY <2>2, <2>3
<1>10. entries' \in Seq(CheckIds) /\ Requeued
  <2>1. PICK es : es = entries OBVIOUS
  <2>2. PICK C : C = {cur} OBVIOUS
  <2>3. PICK T : T = CheckIds OBVIOUS
  <2>7. es \in Seq(T) BY <1>0, <2>1, <2>3, TypedNow
  <2>4. \A i, j \in 1..Len(es) : es[i] = es[j] => i = j BY <1>0, <2>1 DEF QueryOK
  <2>5. \A i \in 1..Len(es) : Begun(es[i]) \/ \E j \in 1..Len(entries) : es[i] = entries[j] BY <2>1
  <2>6. entries' = EntriesWithout(es, C) \/ entries' = es BY <1>2, <2>1, <2>2
  <2>8. entries' \in Seq(T) /\ Requeued BY <2>4, <2>5, <2>6, <2>7, WithoutStep, SMTT(60)
  <2> QED BY <2>3, <2>8
<1>u. UNCHANGED <<chain, final, mined, setup, worker, adds, nq>> BY DEF chainVars, runVars, queueVars, clientVars
<1>11. Typed(B) BY <1>0, <1>5, <1>6, <1>7, <1>10, <1>u, TypedNow, PendingLess DEF Typed
<1>12. pc' \in {"idle", "walk", "blocks", "notes"} BY <1>0, Now
<1>13. Loops(B) BY <1>0, <1>12, Now DEF Loops, chainVars, runVars, queueVars, viewVars
<1>14. LoopOK' BY DEF LoopOK
<1>15. \A o \in Untouched : items'[o] = items[o] /\ o \notin pending'
  <2> SUFFICES ASSUME NEW o \in Untouched PROVE items'[o] = items[o] /\ o \notin pending' OBVIOUS
  <2>1. items[o].blk = NoBlock /\ o \notin pending /\ o \in Ids BY Touched, IdsOK DEF Untouched
  <2>2. o # cur BY <1>1, <2>1
  <2> QED BY <1>5, <1>7, <2>1, <2>2
<1>16. mode # "full" OBVIOUS
<1> QED BY <1>8, <1>9, <1>10, <1>11, <1>13, <1>14, <1>15, <1>16, <1>u, ItemsStep

Moved(it, b) == [it EXCEPT !.blk = b, !.prev = -1]

LEMMA MovedItem ==
    ASSUME NEW B, NEW it \in Items(B), NEW b \in B \cup {NoBlock}, NEW jt, jt = Moved(it, b)
    PROVE  jt \in Items(B) /\ jt.blk = b /\ SameChecks(it, jt)
<1>1. PICK m \in Int : m = -1 OBVIOUS
<1>2. jt = [it EXCEPT !.blk = b, !.prev = m] BY <1>1 DEF Moved
<1> HIDE <1>1
<1>3. jt \in Items(B) BY <1>2 DEF Items
<1>4. jt.blk = b BY <1>2 DEF Items
<1>5. SameChecks(it, jt) BY <1>2 DEF Items, SameChecks
<1> QED BY <1>3, <1>4, <1>5

\* The item has lost its receipt, and its check is scheduled.
LEMMA HeightLostStep ==
    ASSUME NEW B, Inv(B), mode = "light", cur # NoId, NEW its \in [Ids -> Items(B)],
           its[cur].blk = NoBlock, SameChecks(items[cur], its[cur]), \A o \in Ids : o # cur => its[o] = items[o],
           items' = ScheduledItems(its, {cur}), entries' = ScheduledEntries(items, {cur}),
           UNCHANGED <<pending, told, out>>, cur' = NoId, notes' \in Seq(QueueNotes(B)), Shrinks, pc' \in {pc, "idle"},
           UNCHANGED <<chainVars, runVars, queueVars, viewVars, todo, hashes, newBlock, had, first,
                       cache, lowestNil, worker, clientVars>>
    PROVE  Inv(B)'
<1>0. Held(B) /\ Shape /\ QueryOK /\ ItemsOK /\ LoopOK /\ setup \in Setups BY DEF Inv, Shape
<1>1. cur \in Ids /\ items[cur].blk # NoBlock BY <1>0, Now DEF LoopOK
<1>2. items \in [Ids -> Items(B)] /\ told \in [Ids -> Tellings(B)] /\ out \in Seq(Ids) BY <1>0, TypedNow
<1>4. cur \in CheckIds
  <2>1. CASE role = "tx"
    <3>1. cur \in TxIds BY <1>0, <1>1, <2>1 DEF ItemsOK, GoodItem
    <3> QED BY <2>1, <3>1 DEF CheckIds
  <2>2. CASE role = "event"
    <3>1. role # "tx" /\ mode = "light" BY <2>2
    <3> QED BY <1>1, <3>1 DEF CheckIds
  <2> QED BY <1>0, <2>1, <2>2, SetupOK
<1>9. PICK S : S = {cur} OBVIOUS
<1>10. S \in SUBSET Ids /\ S \in SUBSET CheckIds /\ IsFiniteSet(S) BY <1>1, <1>4, <1>9, FS_Singleton
<1>11. /\ items' \in [Ids -> Items(B)]
       /\ \A o \in Ids :
            /\ Rescheduled(its[o], items'[o])
            /\ o \in S /\ ~its[o].queued => items'[o].queued /\ items'[o].gen = its[o].gen + 1
            /\ o \notin S \/ its[o].queued => items'[o] = its[o]
  <2>1. PICK jts : jts = ScheduledItems(its, S) OBVIOUS
  <2>2. /\ jts \in [Ids -> Items(B)]
        /\ \A o \in Ids :
             /\ Rescheduled(its[o], jts[o])
             /\ o \in S /\ ~its[o].queued => jts[o].queued /\ jts[o].gen = its[o].gen + 1
             /\ o \notin S \/ its[o].queued => jts[o] = its[o]
    BY <2>1, ScheduledOK
  <2>3. items' = jts BY <1>9, <2>1
  <2> QED BY <2>2, <2>3
<1>12. \A o \in Ids : /\ its[o].queued = items[o].queued /\ its[o].gen = items[o].gen /\ its[o].applied = items[o].applied
                      /\ its[o].confs = items[o].confs /\ its[o].notified = items[o].notified
                      /\ its[o].confirmed = items[o].confirmed
  BY <1>1 DEF SameChecks
<1>13. \A o \in Ids : (Kept(o) \/ Begun(o)) /\ (o \in S /\ ~items[o].queued => Begun(o))
  <2> SUFFICES ASSUME NEW o \in Ids PROVE (Kept(o) \/ Begun(o)) /\ (o \in S /\ ~items[o].queued => Begun(o)) OBVIOUS
  <2>1. CASE o \in S /\ ~its[o].queued BY <1>11, <1>12, <2>1, ZenonT(60) DEF Begun, Rescheduled
  <2>2. CASE o \notin S \/ its[o].queued BY <1>11, <1>12, <2>2 DEF Kept
  <2> QED BY <2>1, <2>2
<1>14. entries' \in Seq(CheckIds) /\ Requeued
  <2>1. PICK es : es = ScheduledEntries(items, S) OBVIOUS
  <2>2. /\ es \in Seq(CheckIds)
        /\ \A i, j \in 1..Len(es) : es[i] = es[j] => i = j
        /\ \A i \in 1..Len(es) : (es[i] \in S /\ ~items[es[i]].queued) \/ \E j \in 1..Len(entries) : es[i] = entries[j]
    BY <1>0, <1>10, <2>1, ScheduledEntriesOK
  <2>3. \A i \in 1..Len(es) : Begun(es[i]) \/ \E j \in 1..Len(entries) : es[i] = entries[j] BY <1>10, <1>13, <2>2
  <2>4. entries' = es BY <1>9, <2>1
  <2>5. PICK T : T = CheckIds OBVIOUS
  <2>6. es \in Seq(T) BY <2>2, <2>5
  <2>7. entries' \in Seq(T) /\ Requeued BY <2>2, <2>3, <2>4, <2>6, Zenon DEF Requeued
  <2> QED BY <2>5, <2>7
<1>15. \A o \in Ids : GoodItem(o, items'[o], told'[o])
  <2> SUFFICES ASSUME NEW o \in Ids PROVE GoodItem(o, items'[o], told'[o]) OBVIOUS
  <2>1. GoodItem(o, items[o], told[o]) BY <1>0 DEF ItemsOK
  <2>2. CASE o # cur
    <3>1. items'[o] = items[o] BY <1>9, <1>11, <2>2
    <3> QED BY <2>1, <3>1
  <2>3. CASE o = cur
    <3>1. /\ items'[o].blk = NoBlock /\ items'[o].confs = items[o].confs /\ items'[o].notified = items[o].notified
          /\ items'[o].confirmed = items[o].confirmed BY <1>11, <1>12, <2>3, ZenonT(60) DEF Rescheduled
    <3>2. mode # "full" OBVIOUS
    <3> QED BY <2>1, <3>1, <3>2 DEF GoodItem
  <2> QED BY <2>2, <2>3
<1>u. UNCHANGED <<chain, final, mined, setup, worker, adds, nq>> BY DEF chainVars, runVars, queueVars, clientVars
<1>16. Typed(B) BY <1>0, <1>11, <1>14, <1>u, TypedNow DEF Typed
<1>17. pc' \in {"idle", "walk", "blocks", "notes"} BY <1>0, Now
<1>18. Loops(B) BY <1>0, <1>17, Now DEF Loops, chainVars, runVars, queueVars, viewVars
<1>19. LoopOK' BY DEF LoopOK
<1>20. \A o \in Untouched : items'[o] = items[o] /\ o \notin pending'
  <2> SUFFICES ASSUME NEW o \in Untouched PROVE items'[o] = items[o] /\ o \notin pending' OBVIOUS
  <2>1. items[o].blk = NoBlock /\ o \notin pending /\ o \in Ids BY Touched, IdsOK DEF Untouched
  <2>2. o # cur BY <1>1, <2>1
  <2> QED BY <1>9, <1>11, <2>1, <2>2
<1>21. mode # "full" OBVIOUS
<1> QED BY <1>13, <1>14, <1>15, <1>16, <1>18, <1>19, <1>20, <1>21, <1>u, ItemsStep

LEMMA BlockHeightStep == ASSUME NEW B, Inv(B), BlockHeightConfirmations PROVE Inv(B)'
<1>0. ChainOK /\ Tree(B) /\ Held(B) /\ Shape /\ ItemsOK /\ LoopOK /\ setup \in Setups BY DEF Inv, Shape
<1>1. mode = "light" /\ cur # NoId /\ cur' = NoId /\ (HeightNext \/ HeightError) BY DEF BlockHeightConfirmations
<1>2. UNCHANGED <<chainVars, runVars, queueVars, viewVars, todo, hashes, newBlock, had, first,
                  cache, lowestNil, worker, clientVars>> BY DEF BlockHeightConfirmations
<1>a. notes' \in Seq(QueueNotes(B)) /\ Shrinks /\ pc' \in {pc, "idle"}
  <2>0. nq' = nq BY <1>2 DEF queueVars
  <2>1. CASE HeightNext
    <3>1. notes' = NextNotes /\ pc' = pc BY <2>1 DEF HeightNext
    <3> QED BY <1>0, <1>1, <2>0, <3>1, NextNotesOK
  <2>2. CASE notes' = notes /\ pc' = "idle" BY <1>0, <2>0, <2>2, Now DEF Shrinks, Queue
  <2> QED BY <1>1, <2>1, <2>2 DEF HeightError
<1>3. cur \in Ids /\ items[cur].blk # NoBlock BY <1>0, <1>1, Now DEF LoopOK
<1>4. PICK it \in Items(B) : it = items[cur] BY <1>0, <1>3, TypedNow
<1>5. it.blk \in B /\ it.prev \in Int BY <1>3, <1>4, ItemFields
<1>6. it.blk.number \in Nat /\ it.blk.number <= final + R BY <1>0, <1>5, BlockFields DEF Tree
<1>7. head \in Int /\ head <= final + R /\ final \in Nat /\ R \in Nat BY <1>0, Now, RAssumption DEF ChainOK
<1>8. PICK k : k = IF head > it.blk.number THEN head - it.blk.number ELSE 0 OBVIOUS
<1>9. k \in Int BY <1>6, <1>7, <1>8
<1>10. PICK b : b = ReceiptBlock(TxOf(cur)) OBVIOUS
<1>11. b # NoBlock => b \in B /\ (role = "tx" => Key(cur) \in b.txs) /\ Canonical(b)
  <2>1. PICK t : t = TxOf(cur) OBVIOUS
  <2>2. b # NoBlock => b \in B /\ t \in b.txs /\ Canonical(b) BY <1>0, <1>10, <2>1, ReceiptOK
  <2>3. role = "tx" => t = Key(cur) BY <2>1 DEF TxOf
  <2> QED BY <2>2, <2>3
<1>12. \/ HeightDone(it, FALSE)
       \/ HeightDone([it EXCEPT !.prev = k], FALSE)
       \/ k >= R /\ b = it.blk /\ HeightDone([it EXCEPT !.prev = k], TRUE)
       \/ b # NoBlock /\ HeightDone([it EXCEPT !.blk = b, !.prev = -1], FALSE)
       \/ HeightDone([it EXCEPT !.blk = NoBlock, !.prev = -1], FALSE)
       \/ /\ items' = ScheduledItems([items EXCEPT ![cur].blk = NoBlock, ![cur].prev = -1], {cur})
          /\ entries' = ScheduledEntries(items, {cur})
          /\ UNCHANGED <<pending, told, out>>
  BY <1>4, <1>8, <1>10 DEF BlockHeightConfirmations, HeightLost
<1>13. role = "tx" => Key(cur) \in it.blk.txs BY <1>0, <1>3, <1>4 DEF ItemsOK, GoodItem
<1>14. ASSUME NEW jt \in Items(B), NEW ended \in BOOLEAN, SameChecks(it, jt), HeightDone(jt, ended),
              role = "tx" /\ jt.blk # NoBlock => Key(cur) \in jt.blk.txs, ended => Final(jt.blk)
       PROVE  Inv(B)'
  <2>1. SameChecks(items[cur], jt) BY <1>4, <1>14
  <2> QED BY <1>1, <1>2, <1>a, <1>14, <2>1, HeightDoneStep
<1>15. CASE HeightDone(it, FALSE)
  <2>1. SameChecks(it, it) BY DEF SameChecks
  <2> QED BY <1>13, <1>14, <1>15, <2>1
<1>16. PICK jt : jt = [it EXCEPT !.prev = k] OBVIOUS
<1>17. jt \in Items(B) /\ jt.blk = it.blk /\ SameChecks(it, jt) BY <1>9, <1>16 DEF Items, SameChecks
<1>18. CASE HeightDone([it EXCEPT !.prev = k], FALSE) BY <1>13, <1>14, <1>16, <1>17, <1>18
<1>19. CASE k >= R /\ b = it.blk /\ HeightDone([it EXCEPT !.prev = k], TRUE)
  <2>1. it.blk.number <= final BY <1>6, <1>7, <1>8, <1>19
  <2>2. Canonical(it.blk) BY <1>3, <1>4, <1>11, <1>19
  <2>3. Final(jt.blk) BY <1>17, <2>1, <2>2 DEF Final
  <2> QED BY <1>13, <1>14, <1>16, <1>17, <1>19, <2>3
<1>20. CASE b # NoBlock /\ HeightDone([it EXCEPT !.blk = b, !.prev = -1], FALSE)
  <2>1. PICK kt : kt = Moved(it, b) OBVIOUS
  <2>2. b \in B /\ (role = "tx" => Key(cur) \in b.txs) BY <1>11, <1>20
  <2>3. kt \in Items(B) /\ kt.blk = b /\ SameChecks(it, kt) BY <2>1, <2>2, MovedItem
  <2>4. HeightDone(kt, FALSE) BY <1>20, <2>1 DEF Moved
  <2> QED BY <1>14, <2>2, <2>3, <2>4
<1>21. CASE HeightDone([it EXCEPT !.blk = NoBlock, !.prev = -1], FALSE)
  <2>1. PICK kt : kt = Moved(it, NoBlock) OBVIOUS
  <2>2. kt \in Items(B) /\ kt.blk = NoBlock /\ SameChecks(it, kt) BY <2>1, MovedItem
  <2>3. HeightDone(kt, FALSE) BY <1>21, <2>1 DEF Moved
  <2> QED BY <1>14, <2>2, <2>3
<1>22. CASE /\ items' = ScheduledItems([items EXCEPT ![cur].blk = NoBlock, ![cur].prev = -1], {cur})
            /\ entries' = ScheduledEntries(items, {cur})
            /\ UNCHANGED <<pending, told, out>>
  <2>1. PICK its : its = [items EXCEPT ![cur].blk = NoBlock, ![cur].prev = -1] OBVIOUS
  <2>2. items' = ScheduledItems(its, {cur}) BY <1>22, <2>1
  <2>3. PICK kt : kt = Moved(it, NoBlock) OBVIOUS
  <2>4. kt \in Items(B) /\ kt.blk = NoBlock /\ SameChecks(it, kt) BY <2>3, MovedItem
  <2>5. items \in [Ids -> Items(B)] BY <1>0, TypedNow
  <2>6. its = [items EXCEPT ![cur] = kt] BY <1>3, <1>4, <2>1, <2>3, <2>5 DEF Moved
  <2>7. /\ its \in [Ids -> Items(B)] /\ its[cur].blk = NoBlock /\ SameChecks(items[cur], its[cur])
        /\ \A o \in Ids : o # cur => its[o] = items[o] BY <1>3, <1>4, <2>4, <2>5, <2>6
  <2> QED BY <1>1, <1>2, <1>a, <1>22, <2>2, <2>7, HeightLostStep
<1> QED BY <1>12, <1>15, <1>18, <1>19, <1>20, <1>21, <1>22

(***************************************************************************)
(* Notifications are processed                                             *)
(***************************************************************************)

\* What processing a notification leaves alone.
Noted == UNCHANGED <<chainVars, runVars, queueVars, viewVars, out, pc, todo, hashes, newBlock, had, first,
                     cache, lowestNil, worker, clientVars>>

LEMMA NotedSame == ASSUME Noted PROVE UNCHANGED <<chain, final, mined, setup, worker, adds, nq, out, pc>>
BY DEF Noted, chainVars, runVars, queueVars, clientVars

\* A notification that was dealt with is gone.
LEMMA NoteDone ==
    ASSUME NEW B, Held(B), Shape, notes # <<>>, notes' = Tail(notes), nq' = nq
    PROVE  /\ notes' \in Seq(QueueNotes(B)) /\ Shrinks
           /\ Queue # <<>> /\ Queue' = Tail(Queue) /\ Head(notes) = Queue[1]
<1>0. notes \in Seq(QueueNotes(B)) /\ nq \in Seq(QueueNotes(B)) BY Now
<1>1. Queue' = Tail(Queue) /\ Queue # <<>> /\ Head(notes) = Queue[1] BY <1>0, QueueTail
<1>2. notes' \in Seq(QueueNotes(B)) BY <1>0
<1> QED BY <1>1, <1>2 DEF Shrinks

LEMMA RemoveKeyStep ==
    ASSUME NEW B, Inv(B), cur = NoId, notes # <<>>, NEW k, RemoveKey(k), Noted
    PROVE  Inv(B)' /\ NewlyLinked
<1>0. Held(B) /\ Shape /\ LoopOK BY DEF Inv
<1>1. pending' \subseteq pending /\ notes' = Tail(notes) /\ UNCHANGED <<items, cur, told, entries>> BY DEF RemoveKey
<1>2. UNCHANGED <<chain, final, mined, setup, worker, adds, nq, out, pc>> BY NotedSame
<1>3. notes' \in Seq(QueueNotes(B)) /\ Shrinks BY <1>0, <1>1, <1>2, NoteDone
<1>4. Loops(B) BY <1>0, <1>1, <1>3, Now DEF Loops, Noted, chainVars, runVars, queueVars, viewVars
<1>5. LoopOK' BY <1>1 DEF LoopOK
<1>6. StillItems BY <1>1, <1>2 DEF StillItems
<1>7. Inv(B)' BY <1>1, <1>2, <1>3, <1>4, <1>5, <1>6, QuietItems DEF Fewer
<1>8. NewlyLinked BY <1>1 DEF NewlyLinked
<1> QED BY <1>7, <1>8

\* addOrReplaceItem keeps one item per key.
LEMMA AddedOK ==
    ASSUME NEW B, Held(B), Shape, NEW o \in Ids, role = "tx" => o \in TxIds, pending' = Added(o)
    PROVE  /\ pending' \subseteq Ids /\ IsFiniteSet(pending') /\ (role = "tx" => pending' \subseteq TxIds)
           /\ \A p, q \in pending' : Key(p) = Key(q) => p = q
<1>1. PICK P : P = {p \in pending : Key(p) # Key(o)} OBVIOUS
<1>2. P \subseteq pending /\ pending' = P \cup {o} /\ \A p \in P : Key(p) # Key(o) BY <1>1 DEF Added
<1>3. IsFiniteSet(P) BY <1>2, FS_Subset DEF Shape
<1>4. IsFiniteSet(P \cup {o}) BY <1>3, FS_AddElement
<1>5. \A p, q \in pending' : Key(p) = Key(q) => p = q
  <2>1. \A p, q \in P : Key(p) = Key(q) => p = q BY <1>2 DEF Shape
  <2> QED BY <1>2, <2>1
<1> QED BY <1>2, <1>4, <1>5 DEF Shape

\* No receipt that is on its way names an item that is not being checked.
LEMMA Unchecked ==
    ASSUME NEW B, Held(B), Shape, NEW o, ~Checked(o)
    PROVE  /\ \A i \in 1..Len(entries) : entries[i] # o
           /\ \A w \in Workers : worker[w].at # "idle" => worker[w].item # o
           /\ \A a \in Arrivals : a[1] # o
<1>0. notes \in Seq(QueueNotes(B)) /\ nq \in Seq(QueueNotes(B)) BY Now
<1>1. \A i \in 1..Len(entries) : entries[i] # o BY DEF Checked
<1>2. ASSUME NEW w \in Workers, worker[w].at # "idle" PROVE worker[w].item # o
  <2>1. worker[w] # Idle BY <1>2 DEF Idle
  <2> QED BY <2>1 DEF Checked
<1>3. ASSUME NEW i \in 1..Len(Queue), Queue[i].type = "receipt" PROVE Queue[i].item # o
  <2>0. Len(Queue) = Len(notes) + Len(nq) /\ Len(notes) \in Nat /\ Len(nq) \in Nat BY <1>0 DEF Queue
  <2>1. \/ i \in 1..Len(notes) /\ Queue[i] = notes[i]
        \/ i - Len(notes) \in 1..Len(nq) /\ Queue[i] = nq[i - Len(notes)]
    <3>1. CASE i <= Len(notes)
      <4>1. i \in 1..Len(notes) BY <2>0, <3>1
      <4> QED BY <1>0, <4>1 DEF Queue
    <3>2. CASE ~(i <= Len(notes))
      <4>1. i - Len(notes) \in 1..Len(nq) BY <2>0, <3>2
      <4> QED BY <1>0, <2>0, <3>2, <4>1 DEF Queue
    <3> QED BY <3>1, <3>2
  <2>2. CASE i \in 1..Len(notes) /\ Queue[i] = notes[i]
    <3>1. notes[i].type = "receipt" BY <1>3, <2>2
    <3> QED BY <2>2, <3>1 DEF Checked
  <2>3. CASE i - Len(notes) \in 1..Len(nq) /\ Queue[i] = nq[i - Len(notes)]
    <3>1. nq[i - Len(notes)].type = "receipt" BY <1>3, <2>3
    <3> QED BY <2>3, <3>1 DEF Checked
  <2> QED BY <2>1, <2>2, <2>3
<1>4. ASSUME NEW a \in Arrivals PROVE a[1] # o
  <2>1. CASE a \in Fetched
    <3>1. PICK w \in Workers : worker[w].at = "notify" /\ a[1] = worker[w].item BY <2>1 DEF Fetched
    <3> QED BY <1>2, <3>1
  <2>2. CASE a \in ReceiptsIn(Queue)
    <3>1. PICK i \in 1..Len(Queue) : Queue[i].type = "receipt" /\ a[1] = Queue[i].item BY <2>2 DEF ReceiptsIn
    <3> QED BY <1>3, <3>1
  <2> QED BY <2>1, <2>2 DEF Arrivals
<1> QED BY <1>1, <1>2, <1>4

LEMMA AddEventStep ==
    ASSUME NEW B, Inv(B), pc = "notes", notes # <<>>, role = "event", NEW b \in B, b.hash # 0, AddEvent(b), Noted
    PROVE  Inv(B)' /\ NewlyLinked
<1>0. /\ ChainOK /\ Tree(B) /\ Held(B) /\ Shape /\ QueryOK /\ ArrivalsOK /\ ItemsOK /\ LoopOK
      /\ setup \in Setups BY DEF Inv, Shape
<1>1. PICK o : (\E k \in 1..MaxAdds : o = <<b.hash, k>>) /\ ~Checked(o)
        /\ items' = [items EXCEPT ![o] = NewItem(b)] /\ pending' = Added(o) /\ cur' = o
  BY DEF AddEvent
<1>2. items' = [items EXCEPT ![o] = NewItem(b)] /\ pending' = Added(o) /\ cur' = o /\ UNCHANGED <<notes, told, entries>>
  BY <1>1 DEF AddEvent
<1>3. UNCHANGED <<chain, final, mined, setup, worker, adds, nq, out, pc>> BY NotedSame
<1>4. o \in Ids
  <2>1. b.hash \in 0..mined /\ mined \in Nat /\ mined <= MaxBlocks BY <1>0 DEF Tree, ChainOK
  <2>2. b.hash \in Hashes BY <2>1, BoundsAssumption DEF Hashes
  <2> QED BY <1>1, <2>2 DEF Ids
<1>5. items \in [Ids -> Items(B)] /\ told \in [Ids -> Tellings(B)] BY <1>0, TypedNow
<1>6. PICK it \in Items(B) :
        /\ it = NewItem(b) /\ it.blk = b /\ it.confs = <<>> /\ it.notified = <<>> /\ it.confirmed = FALSE
        /\ it.queued = FALSE /\ it.gen = 0 /\ it.applied = 0
  BY NewItemOK
<1>7. items' \in [Ids -> Items(B)] /\ items'[o] = it /\ \A p \in Ids : p # o => items'[p] = items[p] BY <1>2, <1>4, <1>5, <1>6
<1>8. role # "tx" OBVIOUS
<1>9. /\ pending' \subseteq Ids /\ IsFiniteSet(pending') /\ (role = "tx" => pending' \subseteq TxIds)
      /\ \A p, q \in pending' : Key(p) = Key(q) => p = q
  BY <1>0, <1>2, <1>4, <1>8, AddedOK
<1>10. Typed(B) BY <1>0, <1>2, <1>3, <1>7, <1>9, TypedNow DEF Typed
<1>11. cur' \in Ids \cup {NoId} BY <1>2, <1>4
<1>12. Loops(B) BY <1>0, <1>2, <1>11, Now DEF Loops, Noted, chainVars, runVars, queueVars, viewVars
<1>13. /\ \A i \in 1..Len(entries) : entries[i] # o
       /\ \A w \in Workers : worker[w].at # "idle" => worker[w].item # o
       /\ \A a \in Arrivals : a[1] # o
  BY <1>0, <1>1, Unchecked
<1>14. FreshOK'
  <2>1. role' # "tx" BY <1>3, <1>8 DEF role
  <2> QED BY <2>1 DEF FreshOK
<1>15. ArrivalsOK'
  <2>1. Arrivals' = Arrivals
    <3>1. Queue' = Queue BY <1>2, <1>3 DEF Queue
    <3>2. Arrivals' = Fetched' \cup ReceiptsIn(Queue') BY DEF Arrivals, ReceiptsIn
    <3>3. Fetched' = Fetched BY <1>3 DEF Fetched
    <3> QED BY <3>1, <3>2, <3>3 DEF Arrivals
  <2>2. mode' = mode /\ role' = role /\ \A c : Canonical(c)' = Canonical(c) BY <1>3 DEF mode, role, Canonical
  <2>3. ASSUME NEW a \in Arrivals PROVE ArrivalOK(a)'
    <3>1. a[1] \in Ids /\ ArrivalOK(a) BY <1>0, ArrivalFields DEF ArrivalsOK
    <3>2. items'[a[1]] = items[a[1]] BY <1>7, <1>13, <3>1
    <3>3. Canonical(items[a[1]].blk)' = Canonical(items[a[1]].blk) BY <1>3, <3>2 DEF Canonical
    <3> QED BY <2>2, <3>1, <3>2, <3>3 DEF ArrivalOK
  <2>4. ASSUME NEW a \in Arrivals, NEW d \in Arrivals, mode' = "full", a[1] = d[1], a[2] <= d[2], Canonical(a[3])'
        PROVE  d[3] = a[3]
    BY <1>0, <2>2, <2>4 DEF ArrivalsOK
  <2> QED BY <2>1, <2>3, <2>4 DEF ArrivalsOK
<1>16. QueryOK'
  <2>1. \A i \in 1..Len(entries) : entries[i] \in Ids /\ items[entries[i]].queued
    <3>1. \A x \in CheckIds : x \in Ids BY CheckIdsOK
    <3> QED BY <1>0, <3>1, TypedNow DEF QueryOK
  <2>2. ASSUME NEW w \in Workers, worker[w].at = "query"
        PROVE  /\ items'[worker[w].item].queued /\ worker[w].gen = items'[worker[w].item].gen
               /\ \A i \in 1..Len(entries) : entries[i] # worker[w].item
               /\ \A v \in Workers : worker[v].at = "query" /\ worker[v].item = worker[w].item => v = w
    <3>1. worker[w].item \in Ids
      <4>1. worker[w] \in WorkerStates(B) BY <1>0 DEF Held
      <4> QED BY <2>2, <4>1, WorkerFields, CheckIdsOK
    <3>2. items'[worker[w].item] = items[worker[w].item] BY <1>7, <1>13, <2>2, <3>1
    <3> QED BY <1>0, <2>2, <3>2 DEF QueryOK
  <2>3. \A p \in Ids : items'[p].applied <= items'[p].gen /\ (items'[p].queued => items'[p].applied < items'[p].gen)
    BY <1>0, <1>6, <1>7 DEF QueryOK
  <2>4. \A i, j \in 1..Len(entries) : entries[i] = entries[j] => i = j BY <1>0 DEF QueryOK
  <2>5. \A i \in 1..Len(entries) : items'[entries[i]].queued BY <1>7, <1>13, <2>1
  <2> QED BY <1>2, <1>3, <2>2, <2>3, <2>4, <2>5 DEF QueryOK
<1>17. \A p \in Ids : GoodItem(p, items'[p], told'[p])
  <2> SUFFICES ASSUME NEW p \in Ids PROVE GoodItem(p, items'[p], told'[p]) OBVIOUS
  <2>1. GoodItem(p, items[p], told[p]) BY <1>0 DEF ItemsOK
  <2>2. CASE p # o BY <1>2, <1>7, <2>1, <2>2
  <2>3. CASE p = o
    <3>1. ChainOn(b, <<>>) /\ Linked(<<>>) BY DEF ChainOn, Linked
    <3> QED BY <1>2, <1>6, <1>7, <1>8, <2>1, <2>3, <3>1 DEF GoodItem
  <2> QED BY <2>2, <2>3
<1>18. LoopOK'
  <2>1. b # NoBlock BY <1>0, NoBlockOut
  <2> QED BY <1>2, <1>3, <1>6, <1>7, <2>1 DEF LoopOK
<1>19. Inv(B)' BY <1>3, <1>10, <1>12, <1>14, <1>15, <1>16, <1>17, <1>18, InvParts
<1>20. NewlyLinked
  <2>1. \A p \in Ids : items'[p].confirmed => items[p].confirmed BY <1>6, <1>7
  <2> QED BY <2>1 DEF NewlyLinked
<1> QED BY <1>19, <1>20

\* Each transaction to be added is named by one notification: the others stay untouched.
LEMMA FreshAdd ==
    ASSUME NEW B, Held(B), setup \in Setups, FreshOK, UNCHANGED <<setup, adds>>, role = "tx", Queue # <<>>,
           Queue[1].type = "newTx", Queue' = Tail(Queue), Untouched \ {Queue[1].item} \subseteq Untouched',
           adds \in [Txs -> 0..MaxAdds]
    PROVE  FreshOK'
<1>0. Queue \in Seq(QueueNotes(B)) /\ Len(Queue) \in Nat BY QueueType
<1>1. Len(Queue') = Len(Queue) - 1 /\ \A i \in 1..Len(Queue') : i + 1 \in 1..Len(Queue) /\ i + 1 # 1 /\ Queue'[i] = Queue[i + 1]
  BY <1>0
<1>2. /\ \A i \in 1..Len(Queue) : Queue[i].type = "newTx" =>
           Queue[i].item \in Untouched /\ Queue[i].item[2] <= adds[Queue[i].item[1]]
      /\ \A i, j \in 1..Len(Queue) :
           Queue[i].type = "newTx" /\ Queue[j].type = "newTx" /\ Queue[i].item = Queue[j].item => i = j
      /\ \A o \in TxIds : o[2] > adds[o[1]] => o \in Untouched
  BY DEF FreshOK
<1>3. 1 \in 1..Len(Queue) BY <1>0
<1>4. \A i \in 1..Len(Queue') : Queue'[i].type = "newTx" =>
        Queue'[i].item \in Untouched' /\ Queue'[i].item[2] <= adds[Queue'[i].item[1]]
  <2> SUFFICES ASSUME NEW i \in 1..Len(Queue'), Queue'[i].type = "newTx"
               PROVE  Queue'[i].item \in Untouched' /\ Queue'[i].item[2] <= adds[Queue'[i].item[1]] OBVIOUS
  <2>1. i + 1 \in 1..Len(Queue) /\ i + 1 # 1 /\ Queue'[i] = Queue[i + 1] BY <1>1
  <2>2. Queue'[i].item # Queue[1].item BY <1>2, <1>3, <2>1
  <2>3. Queue'[i].item \in Untouched /\ Queue'[i].item[2] <= adds[Queue'[i].item[1]] BY <1>2, <2>1
  <2> QED BY <2>2, <2>3
<1>5. \A i, j \in 1..Len(Queue') :
        Queue'[i].type = "newTx" /\ Queue'[j].type = "newTx" /\ Queue'[i].item = Queue'[j].item => i = j
  <2> SUFFICES ASSUME NEW i \in 1..Len(Queue'), NEW j \in 1..Len(Queue'), Queue'[i].type = "newTx", Queue'[j].type = "newTx",
                      Queue'[i].item = Queue'[j].item
               PROVE  i = j OBVIOUS
  <2>1. i + 1 = j + 1 BY <1>1, <1>2
  <2> QED BY <2>1
<1>6. \A o \in TxIds : o[2] > adds[o[1]] => o \in Untouched'
  <2> SUFFICES ASSUME NEW o \in TxIds, o[2] > adds[o[1]] PROVE o \in Untouched' OBVIOUS
  <2>1. o \in Untouched BY <1>2
  <2>2. o[1] \in Txs /\ o[2] \in Int BY BoundsAssumption DEF TxIds
  <2>3. adds[o[1]] \in Int BY <2>2, BoundsAssumption
  <2>4. ~(o[2] <= adds[o[1]]) BY <2>2, <2>3
  <2>5. Queue[1].item[2] <= adds[Queue[1].item[1]] BY <1>2, <1>3
  <2>6. o # Queue[1].item BY <2>4, <2>5
  <2> QED BY <2>1, <2>6
<1>7. role' = role BY DEF role
<1> QED BY <1>4, <1>5, <1>6, <1>7 DEF FreshOK

LEMMA AddTransactionStep ==
    ASSUME NEW B, Inv(B), pc = "notes", cur = NoId, notes # <<>>, role = "tx", NEW o \in TxIds,
           Head(notes).type = "newTx", o = Head(notes).item, AddTransaction(o), Noted
    PROVE  Inv(B)' /\ NewlyLinked
<1>0. Held(B) /\ Shape /\ QueryOK /\ ArrivalsOK /\ FreshOK /\ ItemsOK /\ LoopOK /\ setup \in Setups BY DEF Inv, Shape
<1>1. UNCHANGED <<chain, final, mined, setup, worker, adds, nq, out, pc>> BY NotedSame
<1>2. PICK S : S = {p \in {o} : UponEntry} OBVIOUS
<1>3. S \subseteq {o} /\ o \in Ids BY <1>2, IdsOK
<1>4. pending' = Added(o) /\ notes' = Tail(notes) /\ UNCHANGED <<cur, told>> BY DEF AddTransaction
<1>5. /\ notes' \in Seq(QueueNotes(B)) /\ Shrinks
      /\ Queue # <<>> /\ Queue' = Tail(Queue) /\ Head(notes) = Queue[1] BY <1>0, <1>1, <1>4, NoteDone
<1>6. o \in Untouched
  <2>1. Queue \in Seq(QueueNotes(B)) BY <1>0, QueueType
  <2>2. 1 \in 1..Len(Queue) BY <1>5, <2>1
  <2>3. Queue[1].type = "newTx" /\ Queue[1].item = o BY <1>5
  <2> QED BY <1>0, <2>2, <2>3 DEF FreshOK
<1>7. items \in [Ids -> Items(B)] /\ told \in [Ids -> Tellings(B)] BY <1>0, TypedNow
<1>8. items' = ScheduledItems(items, S) /\ entries' = ScheduledEntries(items, S)
  <2>1. items[o] = NewItem(NoBlock) BY <1>6 DEF Untouched
  <2>2. PICK its : its = [items EXCEPT ![o] = NewItem(NoBlock)] OBVIOUS
  <2>3. its = items BY <1>3, <1>7, <2>1, <2>2
  <2>4. items' = ScheduledItems(its, S) /\ entries' = ScheduledEntries(its, S) BY <1>2, <2>2 DEF AddTransaction
  <2> QED BY <2>3, <2>4
<1>9. S \in SUBSET Ids /\ S \in SUBSET CheckIds /\ IsFiniteSet(S)
  <2>1. S \subseteq TxIds BY <1>3
  <2> QED BY <1>3, <2>1, FS_Subset, FS_Singleton DEF CheckIds
<1>10. /\ items' \in [Ids -> Items(B)]
       /\ \A p \in Ids :
            /\ Rescheduled(items[p], items'[p])
            /\ p \in S /\ ~items[p].queued => items'[p].queued /\ items'[p].gen = items[p].gen + 1
            /\ p \notin S \/ items[p].queued => items'[p] = items[p]
  <2>1. PICK jts : jts = ScheduledItems(items, S) OBVIOUS
  <2>2. /\ jts \in [Ids -> Items(B)]
        /\ \A p \in Ids :
             /\ Rescheduled(items[p], jts[p])
             /\ p \in S /\ ~items[p].queued => jts[p].queued /\ jts[p].gen = items[p].gen + 1
             /\ p \notin S \/ items[p].queued => jts[p] = items[p]
    BY <1>7, <2>1, ScheduledOK
  <2>3. items' = jts BY <1>8, <2>1
  <2> QED BY <2>2, <2>3
<1>11. \A p \in Ids : (Kept(p) \/ Begun(p)) /\ (p \in S /\ ~items[p].queued => Begun(p)) BY <1>10 DEF Kept, Begun, Rescheduled
<1>12. \A p \in Ids : items'[p].blk = items[p].blk /\ items'[p].confirmed = items[p].confirmed BY <1>10 DEF Rescheduled
<1>13. entries' \in Seq(CheckIds) /\ Requeued
  <2>1. PICK es : es = ScheduledEntries(items, S) OBVIOUS
  <2>2. /\ es \in Seq(CheckIds)
        /\ \A i, j \in 1..Len(es) : es[i] = es[j] => i = j
        /\ \A i \in 1..Len(es) : (es[i] \in S /\ ~items[es[i]].queued) \/ \E j \in 1..Len(entries) : es[i] = entries[j]
    BY <1>0, <1>9, <2>1, ScheduledEntriesOK
  <2>3. \A i \in 1..Len(es) : Begun(es[i]) \/ \E j \in 1..Len(entries) : es[i] = entries[j] BY <1>9, <1>11, <2>2
  <2>4. entries' = es BY <1>8, <2>1
  <2>5. PICK T : T = CheckIds OBVIOUS
  <2>6. es \in Seq(T) BY <2>2, <2>5
  <2>7. entries' \in Seq(T) /\ Requeued BY <2>2, <2>3, <2>4, <2>6, Zenon DEF Requeued
  <2> QED BY <2>5, <2>7
<1>14. /\ pending' \subseteq Ids /\ IsFiniteSet(pending') /\ (role = "tx" => pending' \subseteq TxIds)
       /\ \A p, q \in pending' : Key(p) = Key(q) => p = q
  BY <1>0, <1>3, <1>4, AddedOK
<1>15. Typed(B) BY <1>0, <1>1, <1>4, <1>10, <1>13, <1>14, TypedNow DEF Typed
<1>16. Loops(B) BY <1>0, <1>4, <1>5, Now DEF Loops, Noted, chainVars, runVars, queueVars, viewVars
<1>17. LoopOK' BY <1>4 DEF LoopOK
<1>18. QueryOK'
  <2> QED BY <1>0, <1>1, <1>10, <1>11, <1>13, QueryFrame DEF Requeued
<1>19. Arrivals' \subseteq Arrivals BY <1>0, <1>1, <1>5, ArrivalsShrink
<1>20. ArrivalsOK' BY <1>0, <1>1, <1>10, <1>11, <1>12, <1>19, ArrivalsFrame
<1>21. FreshOK'
  <2>1. Queue[1].type = "newTx" /\ Queue[1].item = o BY <1>5
  <2>2. Untouched \ {o} \subseteq Untouched'
    <3> SUFFICES ASSUME NEW p \in Untouched, p # o PROVE p \in Untouched' OBVIOUS
    <3>1. p \in TxIds /\ items[p] = NewItem(NoBlock) /\ p \notin pending /\ p \in Ids BY IdsOK DEF Untouched
    <3>2. items'[p] = items[p] /\ p \notin pending' BY <1>3, <1>4, <1>10, <3>1 DEF Added
    <3> QED BY <3>1, <3>2 DEF Untouched
  <2>3. adds \in [Txs -> 0..MaxAdds] BY <1>0, TypedNow
  <2> QED BY <1>0, <1>1, <1>5, <2>1, <2>2, <2>3, FreshAdd
<1>22. \A p \in Ids : GoodItem(p, items'[p], told'[p])
  <2> SUFFICES ASSUME NEW p \in Ids PROVE GoodItem(p, items'[p], told'[p]) OBVIOUS
  <2>1. GoodItem(p, items[p], told[p]) BY <1>0 DEF ItemsOK
  <2> QED BY <1>4, <1>10, <2>1 DEF GoodItem, Rescheduled
<1>23. Inv(B)' BY <1>1, <1>15, <1>16, <1>17, <1>18, <1>20, <1>21, <1>22, InvParts
<1>24. NewlyLinked BY <1>12 DEF NewlyLinked
<1> QED BY <1>23, <1>24

WithReceipt(o, g, c) == [items EXCEPT ![o].applied = g, ![o].blk = c, ![o].confs = IF mode = "full" THEN <<>> ELSE @]

\* A receipt is applied: what was fetched later names the same block while it is on the chain.
LEMMA ApplyReceiptStep ==
    ASSUME NEW B, Inv(B), pc = "notes", notes # <<>>, NEW o \in CheckIds, NEW c \in B, NEW g \in Nat,
           <<o, g, c>> \in Arrivals, g > items[o].applied,
           items' = WithReceipt(o, g, c),
           told' = IF role = "tx" THEN [told EXCEPT ![o].receipt = c] ELSE told, cur' = o, UNCHANGED <<notes, pending, entries>>, Noted
    PROVE  Inv(B)' /\ NewlyLinked
<1>0. /\ ChainOK /\ Tree(B) /\ Held(B) /\ Shape /\ QueryOK /\ ArrivalsOK /\ FreshOK /\ ItemsOK /\ LoopOK
      /\ setup \in Setups BY DEF Inv, Shape
<1>1. UNCHANGED <<chain, final, mined, setup, worker, adds, nq, out, pc>> BY NotedSame
<1>2. /\ o \in Ids /\ items \in [Ids -> Items(B)] /\ told \in [Ids -> Tellings(B)]
      /\ (role = "tx" => o \in TxIds) /\ (role = "tx" \/ mode = "light")
  BY <1>0, TypedNow, CheckIdsOK
<1>3. PICK it \in Items(B) : it = items[o] BY <1>2
<1>4. PICK cs \in Seq(B) : cs = IF mode = "full" THEN <<>> ELSE it.confs
  <2>1. it.confs \in Seq(B) /\ <<>> \in Seq(B) BY ItemFields
  <2> QED BY <2>1
<1>5. PICK jt : jt = [it EXCEPT !.applied = g, !.blk = c, !.confs = cs] OBVIOUS
<1>6. /\ jt \in Items(B) /\ jt.applied = g /\ jt.blk = c /\ jt.confs = cs /\ jt.queued = it.queued /\ jt.gen = it.gen
      /\ jt.notified = it.notified /\ jt.confirmed = it.confirmed BY <1>5 DEF Items
<1>7. items' = [items EXCEPT ![o] = jt] BY <1>2, <1>3, <1>4, <1>5 DEF WithReceipt
<1>8. items' \in [Ids -> Items(B)] /\ items'[o] = jt /\ \A p \in Ids : p # o => items'[p] = items[p] BY <1>2, <1>6, <1>7
<1>9. PICK tl \in Tellings(B) : tl = told[o] BY <1>2
<1>10. PICK tm : tm = IF role = "tx" THEN [tl EXCEPT !.receipt = c] ELSE tl OBVIOUS
<1>11. /\ tm \in Tellings(B) /\ tm.list = tl.list /\ tm.confirmed = tl.confirmed
       /\ role = "tx" => tm.receipt = c
  <2>1. CASE role = "tx" BY <1>10, <2>1 DEF Tellings
  <2>2. CASE role # "tx" BY <1>10, <2>2
  <2> QED BY <2>1, <2>2
<1>12. told' = [told EXCEPT ![o] = tm]
  <2>1. CASE role = "tx" BY <1>2, <1>9, <1>10, <2>1
  <2>2. CASE role # "tx" BY <1>2, <1>9, <1>10, <2>2
  <2> QED BY <2>1, <2>2
<1>13. told' \in [Ids -> Tellings(B)] /\ told'[o] = tm /\ \A p \in Ids : p # o => told'[p] = told[p] BY <1>2, <1>11, <1>12
<1>14. PICK new : new = <<o, g, c>> /\ new \in Arrivals /\ new[1] = o /\ new[2] = g /\ new[3] = c OBVIOUS
<1>15. /\ 1 <= g /\ g <= it.gen /\ (it.queued => g < it.gen) /\ (role = "tx" => Key(o) \in c.txs)
       /\ mode = "full" /\ Canonical(it.blk) => c = it.blk
  <2>1. ArrivalOK(new) BY <1>0, <1>14 DEF ArrivalsOK
  <2>2. it.applied \in Nat /\ it.applied < g BY <1>3, ItemFields
  <2> QED BY <1>3, <1>14, <2>1, <2>2 DEF ArrivalOK
<1>16. Typed(B) BY <1>0, <1>1, <1>8, <1>13, TypedNow DEF Typed
<1>17. cur' \in Ids \cup {NoId} BY <1>2
<1>18. Loops(B) BY <1>0, <1>17, Now DEF Loops, Noted, chainVars, runVars, queueVars, viewVars
<1>19. LoopOK'
  <2>1. c # NoBlock BY <1>0, NoBlockOut
  <2> QED BY <1>1, <1>6, <1>8, <2>1 DEF LoopOK
<1>20. \A p \in Ids : /\ items'[p].queued = items[p].queued /\ items'[p].gen = items[p].gen
                      /\ items'[p].confirmed = items[p].confirmed BY <1>3, <1>6, <1>8
<1>21. QueryOK'
  <2>1. \A i \in 1..Len(entries) : entries[i] \in Ids /\ items[entries[i]].queued
    <3>1. \A x \in CheckIds : x \in Ids BY CheckIdsOK
    <3> QED BY <1>0, <3>1, TypedNow DEF QueryOK
  <2>2. ASSUME NEW w \in Workers, worker[w].at = "query"
        PROVE  /\ items'[worker[w].item].queued /\ worker[w].gen = items'[worker[w].item].gen
               /\ \A i \in 1..Len(entries) : entries[i] # worker[w].item
               /\ \A v \in Workers : worker[v].at = "query" /\ worker[v].item = worker[w].item => v = w
    <3>1. worker[w].item \in Ids
      <4>1. worker[w] \in WorkerStates(B) BY <1>0 DEF Held
      <4> QED BY <2>2, <4>1, WorkerFields, CheckIdsOK
    <3> QED BY <1>0, <1>20, <2>2, <3>1 DEF QueryOK
  <2>3. \A p \in Ids : items'[p].applied <= items'[p].gen /\ (items'[p].queued => items'[p].applied < items'[p].gen)
    BY <1>0, <1>6, <1>8, <1>15 DEF QueryOK
  <2>4. \A i, j \in 1..Len(entries) : entries[i] = entries[j] => i = j BY <1>0 DEF QueryOK
  <2>5. \A i \in 1..Len(entries) : items'[entries[i]].queued BY <1>20, <2>1
  <2> QED BY <1>1, <2>2, <2>3, <2>4, <2>5 DEF QueryOK
<1>22. Queue' = Queue /\ Arrivals' = Arrivals
  <2>1. Queue' = Queue BY <1>1 DEF Queue
  <2>2. Arrivals' = Fetched' \cup ReceiptsIn(Queue') BY DEF Arrivals, ReceiptsIn
  <2>3. Fetched' = Fetched BY <1>1 DEF Fetched
  <2> QED BY <2>1, <2>2, <2>3 DEF Arrivals
<1>23. ArrivalsOK'
  <2>0. mode' = mode /\ role' = role BY <1>1 DEF mode, role
  <2>1. ASSUME NEW a \in Arrivals PROVE ArrivalOK(a)'
    <3>0. a[1] \in Ids /\ a[2] \in Nat /\ ArrivalOK(a) BY <1>0, ArrivalFields DEF ArrivalsOK
    <3>1. CASE a[1] # o
      <4>1. items'[a[1]] = items[a[1]] BY <1>8, <3>0, <3>1
      <4>2. Canonical(items[a[1]].blk)' = Canonical(items[a[1]].blk) BY <1>1, <4>1 DEF Canonical
      <4> QED BY <2>0, <3>0, <4>1, <4>2 DEF ArrivalOK
    <3>2. CASE a[1] = o
      <4>1. items'[a[1]] = jt BY <1>8, <3>2
      <4>2. 1 <= a[2] /\ a[2] <= jt.gen /\ (jt.queued => a[2] < jt.gen) /\ (role = "tx" => Key(a[1]) \in a[3].txs)
        BY <1>3, <1>6, <3>0, <3>2 DEF ArrivalOK
      <4>3. mode = "full" /\ jt.applied < a[2] /\ Canonical(jt.blk) => a[3] = jt.blk
        <5> SUFFICES ASSUME mode = "full", g < a[2], Canonical(c) PROVE a[3] = c BY <1>6
        <5>1. new[2] <= a[2] /\ new[1] = a[1] /\ Canonical(new[3]) BY <1>14, <3>0, <3>2
        <5>2. a[3] = new[3] BY <1>0, <1>14, <5>1 DEF ArrivalsOK
        <5> QED BY <1>14, <5>2
      <4>4. Canonical(items[a[1]].blk)' => Canonical(jt.blk) BY <1>1, <4>1 DEF Canonical
      <4> QED BY <2>0, <4>1, <4>2, <4>3, <4>4 DEF ArrivalOK
    <3> QED BY <3>1, <3>2
  <2>2. \A b : Canonical(b)' = Canonical(b) BY <1>1 DEF Canonical
  <2>3. ASSUME NEW a \in Arrivals, NEW d \in Arrivals, mode' = "full", a[1] = d[1], a[2] <= d[2], Canonical(a[3])'
        PROVE  d[3] = a[3]
    BY <1>0, <2>0, <2>2, <2>3 DEF ArrivalsOK
  <2> QED BY <1>22, <2>1, <2>3 DEF ArrivalsOK
<1>24. FreshOK'
  <2>1. o \notin Untouched
    <3>1. NewItem(NoBlock).gen = 0 BY DEF NewItem
    <3>2. it.gen \in Nat /\ it.gen # 0 BY <1>15, ItemFields
    <3> QED BY <1>3, <3>1, <3>2 DEF Untouched
  <2>2. Untouched \subseteq Untouched' BY <1>8, <2>1, IdsOK DEF Untouched
  <2> QED BY <1>0, <1>1, <1>22, <2>2, FreshFrame DEF Shrinks
<1>25. \A p \in Ids : GoodItem(p, items'[p], told'[p])
  <2> SUFFICES ASSUME NEW p \in Ids PROVE GoodItem(p, items'[p], told'[p]) OBVIOUS
  <2>1. GoodItem(p, items[p], told[p]) BY <1>0 DEF ItemsOK
  <2>2. CASE p # o BY <1>8, <1>13, <2>1, <2>2
  <2>3. CASE p = o
    <3>1. jt.confirmed => Final(jt.blk)
      <4> SUFFICES ASSUME jt.confirmed PROVE Final(jt.blk) OBVIOUS
      <4>1. it.confirmed /\ Final(it.blk) /\ mode # "light" BY <1>3, <1>6, <2>1, <2>3 DEF GoodItem
      <4>2. mode = "full" /\ Canonical(it.blk) BY <1>0, <4>1, SetupOK DEF Final
      <4> QED BY <1>6, <1>15, <4>1, <4>2
    <3>2. mode = "full" => ChainOn(c, cs) BY <1>4 DEF ChainOn
    <3>3. mode = "full" => cs = <<>> BY <1>4
    <3>4. mode = "light" => cs = it.confs BY <1>4
    <3>5. GoodItem(o, it, tl) BY <1>3, <1>9, <2>1, <2>3
    <3>6. role = "tx" => o \in TxIds /\ Key(o) \in c.txs /\ tm.receipt = c BY <1>2, <1>11, <1>15
    <3>7. tm.list = tl.list /\ tm.confirmed = tl.confirmed BY <1>11
    <3>8. jt.confirmed = it.confirmed /\ jt.notified = it.notified /\ jt.blk = c /\ jt.confs = cs BY <1>6
    <3>9. c # NoBlock BY <1>0, NoBlockOut
    <3>10. GoodItem(o, jt, tm) BY <3>1, <3>2, <3>3, <3>4, <3>5, <3>6, <3>7, <3>8, <3>9 DEF GoodItem
    <3> QED BY <1>8, <1>13, <2>3, <3>10
  <2> QED BY <2>2, <2>3
<1>26. Inv(B)' BY <1>1, <1>16, <1>18, <1>19, <1>21, <1>23, <1>24, <1>25, InvParts
<1>27. NewlyLinked BY <1>20 DEF NewlyLinked
<1> QED BY <1>26, <1>27

LEMMA ProcessNotificationStep == ASSUME NEW B, Inv(B), ProcessNotification PROVE Inv(B)' /\ NewlyLinked
<1>0. Held(B) /\ Shape /\ LoopOK /\ setup \in Setups BY DEF Inv, Shape
<1>1. pc = "notes" /\ cur = NoId /\ notes # <<>> BY DEF ProcessNotification
<1>2. Noted BY DEF ProcessNotification, Noted
<1>3. PICK n : n = Head(notes) OBVIOUS
<1>4. notes \in Seq(QueueNotes(B)) /\ nq \in Seq(QueueNotes(B)) BY <1>0, Now
<1>5. n \in QueueNotes(B) BY <1>1, <1>3, <1>4
<1>6. \/ n.type = "newEvent" /\ AddEvent(n.blk)
      \/ n.type = "newTx" /\ AddTransaction(n.item)
      \/ n.type = "removedEvent" /\ RemoveKey(n.blk.hash)
      \/ n.type = "removedTx" /\ RemoveKey(n.tx)
      \/ n.type = "receipt" /\ DispatchReceipt(n)
  BY <1>3 DEF ProcessNotification
<1>7. /\ n.type = "newEvent" => role = "event" /\ n.blk \in B /\ n.blk.hash # 0
      /\ n.type = "newTx" => role = "tx" /\ n.item \in TxIds
      /\ n.type = "receipt" => n.item \in CheckIds /\ n.blk \in B /\ n.gen \in Nat
  BY <1>0, <1>5, NoteFields
<1>8. CASE n.type = "newEvent" /\ AddEvent(n.blk) BY <1>1, <1>2, <1>7, <1>8, AddEventStep
<1>9. CASE n.type = "newTx" /\ AddTransaction(n.item) BY <1>1, <1>2, <1>3, <1>7, <1>9, AddTransactionStep
<1>10. CASE n.type = "removedEvent" /\ RemoveKey(n.blk.hash) BY <1>1, <1>2, <1>10, RemoveKeyStep
<1>11. CASE n.type = "removedTx" /\ RemoveKey(n.tx) BY <1>1, <1>2, <1>11, RemoveKeyStep
<1>12. CASE n.type = "receipt" /\ DispatchReceipt(n)
  <2>0. PICK o \in CheckIds, c \in B, g \in Nat : o = n.item /\ c = n.blk /\ g = n.gen BY <1>7, <1>12
  <2>1. CASE notes' = Tail(notes) /\ UNCHANGED <<items, pending, cur, told, entries>>
    <3>1. UNCHANGED <<chain, final, mined, setup, worker, adds, nq, out, pc>> BY <1>2, NotedSame
    <3>2. notes' \in Seq(QueueNotes(B)) /\ Shrinks BY <1>0, <1>1, <2>1, <3>1, NoteDone
    <3>3. Loops(B) BY <1>0, <1>2, <2>1, <3>2, Now DEF Loops, Noted, chainVars, runVars, queueVars, viewVars
    <3>4. LoopOK' BY <1>1, <2>1 DEF LoopOK
    <3>5. StillItems /\ pending' \subseteq pending BY <2>1, <3>1 DEF StillItems
    <3>6. Inv(B)' BY <3>1, <3>2, <3>3, <3>4, <3>5, QuietItems DEF Fewer
    <3>7. NewlyLinked BY <2>1 DEF NewlyLinked
    <3> QED BY <3>6, <3>7
  <2>2. CASE /\ n.gen > items[n.item].applied
             /\ items' = [items EXCEPT ![n.item].applied = n.gen, ![n.item].blk = n.blk,
                                       ![n.item].confs = IF mode = "full" THEN <<>> ELSE @]
             /\ told' = ToldReceipt(n)
             /\ cur' = n.item
             /\ UNCHANGED <<notes, pending, entries>>
    <3>1. Queue \in Seq(QueueNotes(B)) /\ 1 \in 1..Len(Queue) /\ Queue[1] = n BY <1>1, <1>3, <1>4 DEF Queue
    <3>2. <<o, g, c>> \in Arrivals BY <1>12, <2>0, <3>1 DEF Arrivals, ReceiptsIn
    <3>3. g > items[o].applied BY <2>0, <2>2
    <3>4. items' = WithReceipt(o, g, c) BY <2>0, <2>2 DEF WithReceipt
    <3>5. /\ told' = IF role = "tx" THEN [told EXCEPT ![o].receipt = c] ELSE told
          /\ cur' = o /\ UNCHANGED <<notes, pending, entries>> BY <2>0, <2>2 DEF ToldReceipt
    <3> QED BY <1>1, <1>2, <3>2, <3>3, <3>4, <3>5, ApplyReceiptStep, Zenon
  <2> QED BY <1>12, <2>1, <2>2 DEF DispatchReceipt
<1> QED BY <1>6, <1>8, <1>9, <1>10, <1>11, <1>12

(***************************************************************************)
(* The invariant holds                                                     *)
(***************************************************************************)

IInv == \E B : Inv(B)

LEMMA InitInv == Init => IInv
<1> SUFFICES ASSUME Init PROVE IInv OBVIOUS
<1>1. PICK g : g = [number |-> 0, hash |-> 0, parent |-> -1, txs |-> {}] OBVIOUS
<1>2. g \in Blocks /\ g.number = 0 /\ g.hash = 0 /\ g.parent = -1 /\ g.txs = {} BY <1>1 DEF Blocks
<1>3. chain = <<g>> /\ final = 0 /\ mined = 0 /\ setup \in Setups BY <1>1 DEF Init
<1>4. PICK B : B = {g} OBVIOUS
<1>5. Len(chain) = 1 /\ chain[1] = g /\ chain \in Seq(Blocks) /\ chain # <<>> BY <1>2, <1>3
<1>6. ChainOK BY <1>2, <1>3, <1>5, BoundsAssumption DEF ChainOK
<1>7. Tree(B) BY <1>2, <1>3, <1>4, <1>5, RAssumption DEF Tree
<1>8. Settled(B)
  <2> SUFFICES ASSUME NEW p, Path(B, p) PROVE Final(p[0]) BY DEF Settled
  <2>1. p \in [0..R -> B] /\ 0 \in 0..R BY RAssumption DEF Path
  <2>2. p[0] = g BY <1>4, <2>1
  <2>3. Final(g) BY <1>2, <1>3, <1>5 DEF Final, Canonical
  <2> QED BY <2>2, <2>3
<1>9. /\ NewItem(NoBlock) \in Items(B)
      /\ NewItem(NoBlock).blk = NoBlock /\ NewItem(NoBlock).confs = <<>> /\ NewItem(NoBlock).notified = <<>>
      /\ NewItem(NoBlock).confirmed = FALSE
      /\ NewItem(NoBlock).queued = FALSE /\ NewItem(NoBlock).gen = 0 /\ NewItem(NoBlock).applied = 0
  BY NewItemOK
<1>10. NotTold \in Tellings(B) /\ NotTold.confirmed = NoBlock
  <2>1. <<>> \in Seq(B) OBVIOUS
  <2> QED BY <2>1 DEF NotTold, Tellings
<1>11. Idle \in WorkerStates(B) /\ Idle.at = "idle" BY IdleOK
<1>12. \A o \in Ids : items[o] = NewItem(NoBlock) /\ told[o] = NotTold BY DEF Init
<1>13. notes = <<>> /\ nq = <<>> /\ entries = <<>> /\ \A w \in Workers : worker[w] = Idle BY DEF Init
<1>14. Held(B)
  <2>1. items \in [Ids -> Items(B)] /\ told \in [Ids -> Tellings(B)] /\ worker \in [Workers -> WorkerStates(B)]
    BY <1>9, <1>10, <1>11 DEF Init
  <2>2. /\ bq \in Seq(BlockEvents(B)) /\ blocked \in Seq(BlockEvents(B)) /\ missed \in BOOLEAN
        /\ logs \in Seq(EventNotes(B)) /\ nq \in Seq(QueueNotes(B)) /\ notes \in Seq(QueueNotes(B))
        /\ hashes \in Seq(B) /\ cache \subseteq B
    <3>1. /\ bq = <<>> /\ blocked = <<>> /\ missed = FALSE /\ logs = <<>> /\ nq = <<>> /\ notes = <<>>
          /\ hashes = <<>> /\ cache = {} BY DEF Init
    <3>2. missed \in BOOLEAN /\ cache \subseteq B BY <3>1
    <3>3. \A S : <<>> \in Seq(S) OBVIOUS
    <3> QED BY <3>1, <3>2, <3>3, Zenon
  <2> QED BY <2>1, <2>2 DEF Held
<1>15. Shape
  <2>1. /\ setup \in Setups /\ up = "up" /\ sessions = 1 /\ MaxSessions \in Nat /\ MaxSessions # 0
        /\ bq = <<>> /\ nq = <<>> /\ blocked = <<>> /\ pending = {} /\ todo = {} /\ cur = NoId /\ pc = "idle"
        /\ entries = <<>> /\ out = <<>> /\ logs = <<>> /\ head = 0 BY BoundsAssumption DEF Init
  <2>2. IsFiniteSet(pending) BY <2>1, FS_EmptySet
  <2>3. adds \in [Txs -> 0..MaxAdds] BY BoundsAssumption DEF Init
  <2>4. Len(bq) <= BlockCap /\ Len(nq) <= NoteCap /\ Len(blocked) <= 1 BY <2>1, CapsAssumption
  <2>5. head \in Int /\ head <= final + R BY <1>3, <2>1, RAssumption
  <2>6. entries \in Seq(CheckIds) /\ out \in Seq(Ids) BY <2>1
  <2> QED BY <1>13, <2>1, <2>2, <2>3, <2>4, <2>5, <2>6 DEF Shape
<1>16. QueryOK
  <2>1. Len(entries) = 0 BY <1>13
  <2> QED BY <1>9, <1>11, <1>12, <1>13, <2>1 DEF QueryOK
<1>17. Queue = <<>> /\ Len(Queue) = 0 BY <1>13 DEF Queue
<1>18. ArrivalsOK
  <2>1. Fetched = {} BY <1>11, <1>13 DEF Fetched
  <2>2. ReceiptsIn(Queue) = {} BY <1>17 DEF ReceiptsIn
  <2>3. Arrivals = {} BY <2>1, <2>2 DEF Arrivals
  <2> QED BY <2>3 DEF ArrivalsOK
<1>19. FreshOK
  <2>1. pending = {} BY DEF Init
  <2>2. \A o \in TxIds : o \in Untouched BY <1>12, <2>1, IdsOK DEF Untouched
  <2> QED BY <1>17, <2>2 DEF FreshOK
<1>20. ItemsOK
  <2> SUFFICES ASSUME NEW o \in Ids PROVE GoodItem(o, NewItem(NoBlock), NotTold) BY <1>12 DEF ItemsOK
  <2>1. ChainOn(NoBlock, <<>>) /\ Linked(<<>>) BY DEF ChainOn, Linked
  <2> QED BY <1>9, <1>10, <2>1 DEF GoodItem
<1>21. LoopOK BY DEF LoopOK, Init
<1>22. Inv(B) BY <1>6, <1>7, <1>8, <1>14, <1>15, <1>16, <1>18, <1>19, <1>20, <1>21 DEF Inv
<1> QED BY <1>22 DEF IInv

\* An item becomes confirmed by a walk or by a block, and by nothing else.
LEMMA StillConfirmed ==
    ASSUME \A o \in Ids : items'[o].confirmed = items[o].confirmed PROVE NewlyLinked
BY DEF NewlyLinked

LEMMA CheckConfirms ==
    ASSUME NEW B, Inv(B), TakeItem \/ \E w \in Workers : CheckReceipt(w) \/ CheckFails(w)
    PROVE  NewlyLinked
<1>0. items \in [Ids -> Items(B)] /\ todo \subseteq Ids /\ Held(B) /\ Shape BY TypedNow DEF Inv, Shape, Held
<1>1. ASSUME NEW o \in Ids, NEW jt, items' = [items EXCEPT ![o] = jt], jt.confirmed = items[o].confirmed PROVE NewlyLinked
  <2>1. \A p \in Ids : items'[p].confirmed = items[p].confirmed BY <1>0, <1>1
  <2> QED BY <2>1, StillConfirmed
<1>2. CASE TakeItem
  <2>1. PICK o \in todo : items' = items \/ items' = [items EXCEPT ![o].confs = <<>>] BY <1>2 DEF TakeItem
  <2>2. CASE items' = items BY <2>2, StillConfirmed
  <2>3. CASE items' = [items EXCEPT ![o].confs = <<>>]
    <3>1. PICK it \in Items(B) : it = items[o] BY <1>0
    <3>2. PICK jt : jt = [it EXCEPT !.confs = <<>>] OBVIOUS
    <3>3. jt.confirmed = it.confirmed BY <3>2 DEF Items
    <3>4. items' = [items EXCEPT ![o] = jt] BY <2>3, <3>1, <3>2
    <3> QED BY <1>0, <1>1, <3>1, <3>3, <3>4
  <2> QED BY <2>1, <2>2, <2>3
<1>3. ASSUME NEW w \in Workers, CheckReceipt(w) \/ CheckFails(w) PROVE NewlyLinked
  <2>1. worker[w].at = "query" BY <1>3 DEF CheckReceipt, CheckFails
  <2>2. PICK o \in Ids : o = worker[w].item BY <1>0, <2>1, WorkerTx
  <2>3. PICK y \in BOOLEAN : items' = [items EXCEPT ![o].queued = y] BY <1>3, <2>2 DEF CheckReceipt, CheckFails
  <2>4. PICK it \in Items(B) : it = items[o] BY <1>0
  <2>5. PICK jt : jt = [it EXCEPT !.queued = y] OBVIOUS
  <2>6. jt.confirmed = it.confirmed BY <2>5 DEF Items
  <2>7. items' = [items EXCEPT ![o] = jt] BY <2>3, <2>4, <2>5
  <2> QED BY <1>1, <2>4, <2>6, <2>7
<1> QED BY <1>2, <1>3

LEMMA NextInv == ASSUME NEW B, Inv(B), Next PROVE IInv' /\ NewlyLinked
<1>i. ASSUME Inv(B)' PROVE IInv' BY <1>i DEF IInv
<1>s. ASSUME items' = items PROVE NewlyLinked BY <1>s, StillConfirmed
<1>1. CASE Node
  <2>1. PICK n \in 0..MaxBlocks, txs \in NewTxs : Mine(n, txs) BY <1>1 DEF Node
  <2>2. n \in Nat BY BoundsAssumption
  <2>3. txs \in SUBSET (Txs \cup Hashes) /\ (role = "event" /\ mode = "full" => txs = {})
    <3>1. CASE role = "tx" BY <3>1 DEF NewTxs
    <3>2. CASE role # "tx" /\ mode = "light"
      <4>1. PICK t \in 1..(mined + 1) : txs = {t} BY <3>2 DEF NewTxs
      <4>2. mined \in Nat /\ mined < MaxBlocks BY <2>1 DEF Mine, Inv, ChainOK
      <4>3. t \in Hashes BY <4>1, <4>2, BoundsAssumption DEF Hashes
      <4> QED BY <3>2, <4>1, <4>3
    <3>3. CASE role # "tx" /\ mode # "light" BY <3>3 DEF NewTxs
    <3> QED BY <3>1, <3>2, <3>3
  <2>4. \E C : Inv(C)' BY <2>1, <2>2, <2>3, MineStep
  <2>5. items' = items BY <2>1 DEF Mine, itemVars
  <2> QED BY <1>s, <2>4, <2>5 DEF IInv
<1>2. CASE Unblock \/ EventLog \/ RemoveListener
  <2>1. items' = items BY <1>2 DEF Unblock, EventLog, RemoveListener, itemVars
  <2> QED BY <1>2, <1>i, <1>s, <2>1, UnblockStep, EventLogStep, RemoveListenerStep
<1>3. CASE Client
  <2>1. PICK t \in Txs : Track(t) \/ Untrack(t) BY <1>3 DEF Client
  <2>2. items' = items BY <2>1 DEF Track, Untrack, itemVars
  <2> QED BY <1>i, <1>s, <2>1, <2>2, ClientStep
<1>4. CASE Listener
  <2>1. CASE ReceiveBlock \/ ReceiveNotification
    <3>1. items' = items BY <2>1 DEF ReceiveBlock, ReceiveNotification, itemVars
    <3> QED BY <1>i, <1>s, <2>1, <3>1, ReceiveBlockStep, ReceiveNotificationStep
  <2>2. CASE TakeItem BY <1>i, <2>2, TakeItemStep, CheckConfirms
  <2>3. CASE WalkChainForItem BY <1>i, <2>3, WalkStep
  <2>4. CASE WalkDone \/ BlocksDone
    <3>1. items' = items BY <2>4 DEF WalkDone, BlocksDone, itemVars
    <3> QED BY <1>i, <1>s, <2>4, <3>1, GoOnStep
  <2>5. CASE ProcessBlock BY <1>i, <2>5, ProcessBlockStep
  <2>6. CASE BlockHeightConfirmations
    <3>1. mode # "full" BY <2>6 DEF BlockHeightConfirmations
    <3>2. NewlyLinked BY <3>1 DEF NewlyLinked
    <3> QED BY <1>i, <2>6, <3>2, BlockHeightStep
  <2>7. CASE ProcessNotification BY <1>i, <2>7, ProcessNotificationStep
  <2>8. CASE ScheduleReceiptChecks BY <1>i, <2>8, ScheduleStep
  <2> QED BY <1>4, <2>1, <2>2, <2>3, <2>4, <2>5, <2>6, <2>7, <2>8 DEF Listener
<1>5. CASE WalkFails \/ BlockLost
  <2>1. items' = items BY <1>5 DEF WalkFails, BlockLost, itemVars
  <2> QED BY <1>5, <1>i, <1>s, <2>1, WalkFailsStep, GoOnStep
<1>6. ASSUME NEW w \in Workers, CheckReceipt(w) \/ CheckFails(w) PROVE IInv' /\ NewlyLinked
  BY <1>6, <1>i, CheckReceiptStep, CheckFailsStep, CheckConfirms
<1>7. ASSUME NEW w \in Workers, WaitNext(w) \/ NotifyReceipt(w) PROVE IInv' /\ NewlyLinked
  <2>1. items' = items BY <1>7 DEF WaitNext, NotifyReceipt, itemVars
  <2> QED BY <1>7, <1>i, <1>s, <2>1, WaitNextStep, NotifyReceiptStep
<1>8. CASE RequestStop \/ Stopped \/ Start
  <2>1. items' = items BY <1>8 DEF RequestStop, Stopped, Start, itemVars
  <2> QED BY <1>8, <1>i, <1>s, <2>1, RequestStopStep, StoppedStep, StartStep
<1> QED BY <1>1, <1>2, <1>3, <1>4, <1>5, <1>6, <1>7, <1>8 DEF Next, Fails, Checker

(***************************************************************************)
(* The theorems                                                            *)
(***************************************************************************)

\* In a state of the invariant every variable has its type, and what is confirmed is final.
LEMMA InvTypeOK == IInv => TypeOK
<1> SUFFICES ASSUME NEW B, Inv(B) PROVE TypeOK BY DEF IInv
<1>0. ChainOK /\ Tree(B) /\ Held(B) /\ Shape /\ QueryOK BY DEF Inv
<1>1. chain \in Seq(Blocks) /\ final \in Nat /\ mined \in Nat BY <1>0 DEF ChainOK
<1>2. ASSUME NEW o \in Ids PROVE items[o].blk \in Blocks /\ items[o].applied <= items[o].gen
  <2>1. items[o] \in Items(B) BY <1>0 DEF Held
  <2>2. items[o].blk \in B \cup {NoBlock} BY <2>1, ItemFields
  <2>3. NoBlock \in Blocks BY DEF NoBlock, Blocks
  <2> QED BY <1>0, <2>2, <2>3 DEF Tree, QueryOK
<1> QED BY <1>0, <1>1, <1>2 DEF TypeOK, Shape, QueryOK

LEMMA InvConfirmedFinal == IInv => ConfirmedFinal
<1> SUFFICES ASSUME NEW B, Inv(B), NEW o \in Ids, told[o].confirmed # NoBlock
             PROVE  Canonical(told[o].confirmed) /\ told[o].confirmed.number <= final
  BY DEF IInv, ConfirmedFinal
<1>1. Final(told[o].confirmed) BY DEF Inv, ItemsOK, GoodItem
<1> QED BY <1>1 DEF Final

LEMMA Inductive == IInv /\ [Next]_vars => IInv' /\ NewlyLinked
<1> SUFFICES ASSUME NEW B, Inv(B), [Next]_vars PROVE IInv' /\ NewlyLinked BY DEF IInv
<1>1. CASE Next BY <1>1, NextInv
<1>2. CASE UNCHANGED vars
  <2>u. UNCHANGED <<chainVars, runVars, queueVars, viewVars, itemVars, loopVars, checkVars, clientVars>> BY <1>2 DEF vars
  <2>0. Held(B) /\ Shape /\ LoopOK BY DEF Inv
  <2>1. StillItems /\ adds' = adds /\ pending' \subseteq pending
    BY <2>u DEF StillItems, chainVars, runVars, itemVars, checkVars, clientVars
  <2>2. Loops(B) BY <2>0, <2>u, Now DEF Loops, chainVars, runVars, queueVars, viewVars, loopVars
  <2>3. Shrinks BY <2>u DEF Shrinks, Queue, queueVars, loopVars
  <2>4. LoopOK' BY <2>0, <2>u DEF LoopOK, itemVars, loopVars
  <2>5. Inv(B)' BY <2>1, <2>2, <2>3, <2>4, QuietItems DEF Fewer
  <2>6. items' = items BY <2>u DEF itemVars
  <2> QED BY <2>5, <2>6, StillConfirmed DEF IInv
<1> QED BY <1>1, <1>2

\* The manager keeps its types: pending items one per key, queues within their capacities,
\* and a receipt check that waits is of an item marked for it.
THEOREM TypeCorrect == Spec => []TypeOK
<1>1. Spec => []IInv
  <2>1. IInv /\ [Next]_vars => IInv' BY Inductive
  <2> QED BY InitInv, <2>1, PTL DEF Spec
<1> QED BY <1>1, InvTypeOK, PTL

\* Whatever is lost, late or repeated, in both modes and both roles, an item is confirmed
\* only in a block of the chain that can no longer be reorganised (dispatchConfirmations,
\* dispatchBlockHeightConfirmations).
THEOREM FinalCorrect == Spec => []ConfirmedFinal
<1>1. Spec => []IInv
  <2>1. IInv /\ [Next]_vars => IInv' BY Inductive
  <2> QED BY InitInv, <2>1, PTL DEF Spec
<1> QED BY <1>1, InvConfirmedFinal, PTL

\* With block details, what the callbacks of an item add up to when it becomes confirmed is
\* a chain of at least the required confirmations on the block of its last receipt.
THEOREM LinkedCorrect == Spec => ConfirmationsLinked
<1>1. Spec => []IInv
  <2>1. IInv /\ [Next]_vars => IInv' BY Inductive
  <2> QED BY InitInv, <2>1, PTL DEF Spec
<1>2. IInv /\ [Next]_vars => [NewlyLinked]_vars BY Inductive
<1>3. Spec => [][NewlyLinked]_vars BY <1>1, <1>2, PTL DEF Spec
<1> QED BY <1>3, PTL DEF ConfirmationsLinked, NewlyLinked

=============================================================================
