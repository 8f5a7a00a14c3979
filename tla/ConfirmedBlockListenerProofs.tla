-------------------- MODULE ConfirmedBlockListenerProofs --------------------
(***************************************************************************)
(* Theorems about ConfirmedBlockListener, for every number of required     *)
(* confirmations, every capacity, every setting and every bound.           *)
(***************************************************************************)
EXTENDS ConfirmedBlockListener, SequenceTheorems, WellFoundedInduction, TLAPS

(***************************************************************************)
(* Sequences of linked blocks                                              *)
(***************************************************************************)

\* A block that is the child of the last one, or the first, may be added.
LEMMA LinkedAppend ==
    ASSUME NEW s \in Seq(Block), NEW b \in Block, Linked(s),
           s # <<>> => b.number = Last(s).number + 1 /\ b.parent = Last(s).hash
    PROVE  /\ Append(s, b) \in Seq(Block)
           /\ Linked(Append(s, b))
           /\ Append(s, b) # <<>>
           /\ s # <<>> => Append(s, b)[1] = s[1]
           /\ s = <<>> => Append(s, b)[1] = b
<1> DEFINE t == Append(s, b)
<1>1. t \in Seq(Block) /\ Len(t) = Len(s) + 1 /\ t # <<>> OBVIOUS
<1>2. \A i \in 1..Len(s) : t[i] = s[i] OBVIOUS
<1>3. t[Len(s) + 1] = b OBVIOUS
<1>4. s # <<>> <=> Len(s) > 0 OBVIOUS
<1>5. Linked(t)
  <2> HIDE DEF t
  <2> SUFFICES ASSUME NEW i \in 1..(Len(t) - 1)
               PROVE  t[i + 1].number = t[i].number + 1 /\ t[i + 1].parent = t[i].hash
    BY DEF Linked
  <2>1. CASE i < Len(s) BY <1>1, <1>2, <2>1, SMTT(30) DEF Linked
  <2>2. CASE i = Len(s) BY <1>1, <1>2, <1>3, <1>4, <2>2 DEF Last
  <2> QED BY <1>1, <2>1, <2>2
<1> QED BY <1>1, <1>2, <1>3, <1>4, <1>5

\* What is left after cutting off the end is linked.
LEMMA LinkedPrefix ==
    ASSUME NEW s \in Seq(Block), Linked(s), NEW k \in 0..Len(s)
    PROVE  /\ SubSeq(s, 1, k) \in Seq(Block)
           /\ Linked(SubSeq(s, 1, k))
           /\ Len(SubSeq(s, 1, k)) = k
           /\ k > 0 => SubSeq(s, 1, k)[1] = s[1] /\ SubSeq(s, 1, k)[k] = s[k]
<1> DEFINE t == SubSeq(s, 1, k)
<1>1. t \in Seq(Block) /\ Len(t) = k OBVIOUS
<1>2. \A i \in 1..k : t[i] = s[i] OBVIOUS
<1>3. Linked(t)
  <2> HIDE DEF t
  <2> QED BY <1>1, <1>2 DEF Linked
<1> QED BY <1>1, <1>2, <1>3

\* So is what is left without the first block.
LEMMA LinkedTail ==
    ASSUME NEW s \in Seq(Block), Linked(s), s # <<>>
    PROVE  /\ Tail(s) \in Seq(Block)
           /\ Linked(Tail(s))
           /\ Tail(s) # <<>> => Tail(s)[1] = s[2] /\ s[2].number = s[1].number + 1
BY SMTT(30) DEF Linked, Block

\* Moving a block from one part of the view to the other leaves the view alone.
LEMMA ConcatMove ==
    ASSUME NEW s \in Seq(Block), NEW t \in Seq(Block), t # <<>>
    PROVE  Append(s, Head(t)) \o Tail(t) = s \o t
OBVIOUS

LEMMA ConcatAppend ==
    ASSUME NEW s \in Seq(Block), NEW t \in Seq(Block), NEW b \in Block
    PROVE  s \o Append(t, b) = Append(s \o t, b)
OBVIOUS

LEMMA ConcatTail ==
    ASSUME NEW s \in Seq(Block), NEW t \in Seq(Block), s # <<>>
    PROVE  Tail(s) \o t = Tail(s \o t) /\ (s \o t)[1] = s[1] /\ s \o t # <<>>
OBVIOUS

\* A part of a linked view is linked.
LEMMA ConcatLinked ==
    ASSUME NEW s \in Seq(Block), NEW t \in Seq(Block), Linked(s \o t)
    PROVE  Linked(s) /\ s \o t \in Seq(Block) /\ (s # <<>> => (s \o t)[1] = s[1])
<1> DEFINE u == s \o t
<1>1. u \in Seq(Block) /\ Len(u) = Len(s) + Len(t) OBVIOUS
<1>2. \A i \in 1..Len(s) : u[i] = s[i] OBVIOUS
<1>3. Linked(u) OBVIOUS
<1>4. Linked(s)
  <2> HIDE DEF u
  <2>1. Len(t) \in Nat /\ Len(s) \in Nat OBVIOUS
  <2> QED BY <1>1, <1>2, <1>3, <2>1 DEF Linked
<1>5. s # <<>> => Len(s) > 0 OBVIOUS
<1> QED BY <1>1, <1>2, <1>4, <1>5
(***************************************************************************)
(* Type correctness                                                        *)
(***************************************************************************)

\* The fields of a block, and the ends of a sequence of blocks.
LEMMA BlockFields ==
    ASSUME NEW b \in Block PROVE b.number \in Nat /\ b.hash \in Nat /\ b.parent \in Int
BY DEF Block

LEMMA SeqEnds ==
    ASSUME NEW s \in Seq(Block), s # <<>>
    PROVE  /\ Head(s) \in Block /\ Last(s) \in Block /\ Len(s) \in Nat /\ Len(s) > 0
           /\ Head(s) = s[1]
           /\ Tail(s) \in Seq(Block) /\ Len(Tail(s)) = Len(s) - 1
           /\ \A i \in 1..(Len(s) - 1) : Tail(s)[i] = s[i + 1]
           /\ Front(s) \in Seq(Block)
BY DEF Last, Front

\* A sequence grows by a block.
LEMMA SeqGrows ==
    ASSUME NEW s \in Seq(Block), NEW b \in Block
    PROVE  Append(s, b) \in Seq(Block) /\ Append(s, b) # <<>> /\ Len(Append(s, b)) = Len(s) + 1
<1>1. Append(s, b) \in Seq(Block) /\ Len(Append(s, b)) = Len(s) + 1 OBVIOUS
<1>2. Len(s) \in Nat OBVIOUS
<1>3. Append(s, b) # <<>> BY <1>1, <1>2
<1> QED BY <1>1, <1>3

\* A view cut and repaired is a sequence of blocks.
LEMMA ReplaceType ==
    ASSUME since \in Seq(Block), NEW i \in 1..Len(since), NEW b \in Block
    PROVE  ReplaceFrom(i, b) \in Seq(Block)
BY DEF ReplaceFrom

\* The number to fetch is a block number.
LEMMA FetchType == TypeOK => BlockNumberToFetch \in Nat
<1> SUFFICES ASSUME TypeOK PROVE BlockNumberToFetch \in Nat OBVIOUS
<1>1. since # <<>> => Last(since).number \in Nat BY SeqEnds, BlockFields DEF TypeOK
<1> QED BY <1>1 DEF TypeOK, BlockNumberToFetch

\* Taking a notified block into the view keeps the types.
LEMMA PopType ==
    ASSUME TypeOK, PopDispatched
    PROVE  /\ since' \in Seq(Block) /\ newHead' \in Seq(Block) /\ Len(newHead') <= HeadCap
           /\ last' \in BOOLEAN /\ pc' = "dispatch"
<1>1. newHead \in Seq(Block) /\ newHead # <<>> /\ since \in Seq(Block) /\ Len(newHead) <= HeadCap
  BY DEF TypeOK, PopDispatched
<1>2. Len(Tail(newHead)) <= HeadCap BY <1>1, SeqEnds, CapsAssumption
<1> QED BY <1>1, <1>2, SeqEnds, SeqGrows DEF PopDispatched

\* Every step keeps the types.
LEMMA TypeStep == TypeOK /\ [Next]_vars => TypeOK'
<1> SUFFICES ASSUME TypeOK, [Next]_vars PROVE TypeOK' OBVIOUS
<1> USE CapsAssumption, RAssumption
<1>1. ASSUME NEW n \in 0..(Len(chain) - 1), Mine(n) PROVE TypeOK'
  <2> DEFINE b == [number |-> n + 1, hash |-> mined + 1, parent |-> chain[n + 1].hash]
  <2>1. b \in Block
    <3>1. chain[n + 1] \in Block BY DEF TypeOK
    <3>2. chain[n + 1].hash \in Nat BY <3>1, BlockFields
    <3>3. n + 1 \in Nat /\ mined + 1 \in Nat BY DEF TypeOK
    <3> QED BY <3>2, <3>3 DEF Block
  <2>2. SubSeq(chain, 1, n + 1) \in Seq(Block) BY <1>1 DEF TypeOK
  <2> HIDE DEF b
  <2>3. chain' \in Seq(Block) /\ chain' # <<>> /\ notes' \in Seq(Block)
    <3>1. chain' = Append(SubSeq(chain, 1, n + 1), b) BY <1>1 DEF Mine, b
    <3>2. notes' = notes \/ notes' = Append(notes, b) BY <1>1 DEF Mine, b
    <3> QED BY <2>1, <2>2, <3>1, <3>2, SeqGrows DEF TypeOK
  <2>4. final' \in Int /\ mined' \in Nat BY <1>1 DEF Mine, TypeOK
  <2> QED BY <1>1, <2>3, <2>4, ZenonT(60) DEF Mine, TypeOK, runVars, viewVars, dispVars, outVars, histVars
<1>2. CASE Renotify
  <2>1. Top \in Block BY DEF TypeOK, Top
  <2>2. <<Top>> \in Seq(Block) BY <2>1
  <2>3. notes' \in Seq(Block) BY <1>2, <2>2 DEF Renotify
  <2> QED BY <1>2, <2>3 DEF Renotify, TypeOK, chainVars, runVars, viewVars, dispVars, outVars, histVars
<1>3. CASE ProcessBlock
  <2> DEFINE b == Head(notes)
  <2>1. b \in Block /\ b.number \in Nat /\ notes' \in Seq(Block)
    BY <1>3, SeqEnds, BlockFields DEF ProcessBlock, TypeOK
  <2>2. since' \in Seq(Block) /\ newHead' \in Seq(Block) /\ Len(newHead') <= HeadCap
        /\ tap' \in BOOLEAN
    <3>1. CASE UNCHANGED <<since, newHead, tap>> BY <3>1 DEF TypeOK
    <3>2. CASE ~Ignored(b) /\ newHead' = Append(newHead, b) /\ tap' = TRUE /\ UNCHANGED since
      BY <2>1, <3>2 DEF TypeOK, Ignored
    <3>3. ASSUME NEW i \in 1..Len(since), since' = ReplaceFrom(i, b), newHead' = <<>>, tap' = TRUE
          PROVE  since' \in Seq(Block) /\ newHead' \in Seq(Block) /\ Len(newHead') <= HeadCap
                 /\ tap' \in BOOLEAN
      <4>1. since' \in Seq(Block) BY <2>1, <3>3, ReplaceType DEF TypeOK
      <4> QED BY <3>3, <4>1
    <3>4. CASE UNCHANGED <<since, newHead>> /\ tap' = TRUE BY <3>4 DEF TypeOK
    <3> QED BY <1>3, <3>1, <3>2, <3>3, <3>4 DEF ProcessBlock
  <2>3. fromBlock' \in Nat /\ waiting' \in BOOLEAN BY <1>3, <2>1 DEF ProcessBlock, TypeOK
  <2> QED BY <1>3, <2>1, <2>2, <2>3 DEF ProcessBlock, TypeOK, chainVars, runVars, dispVars, outVars, histVars
<1>4. CASE NotificationLost
  BY <1>4 DEF NotificationLost, TypeOK, chainVars, runVars, viewVars, dispVars, outVars, histVars
<1>5. CASE DispatchBegin
  BY <1>5 DEF DispatchBegin, TypeOK, chainVars, runVars, viewVars, outVars, histVars
<1>6. CASE WaitForTap
  BY <1>6 DEF WaitForTap, TypeOK, chainVars, runVars, outVars, histVars
<1>7. CASE ReadNextBlock
  <2>1. CASE PopDispatched /\ UNCHANGED fetch
    BY <1>7, <2>1, PopType DEF ReadNextBlock, TypeOK, chainVars, runVars, outVars, histVars
  <2>2. CASE ~PopDispatched /\ newHead = <<>>
    BY <1>7, <2>2, FetchType DEF ReadNextBlock, TypeOK, chainVars, runVars, outVars, histVars
  <2> QED BY <1>7, <2>1, <2>2 DEF ReadNextBlock, PopDispatched
<1>8. CASE QueryBlock
  BY <1>8 DEF QueryBlock, TypeOK, chainVars, runVars, viewVars, outVars, histVars
<1>9. CASE QueryFail
  BY <1>9 DEF QueryFail, TypeOK, chainVars, runVars, viewVars, outVars, histVars
<1>10. CASE AttachBlock
  <2>1. CASE PopDispatched
    BY <1>10, <2>1, PopType DEF AttachBlock, TypeOK, chainVars, runVars, outVars, histVars
  <2>2. CASE ~PopDispatched
    <3>1. since' \in Seq(Block)
      BY <1>10, <2>2, SeqEnds, SeqGrows DEF AttachBlock, TypeOK
    <3> QED BY <1>10, <2>2, <3>1 DEF AttachBlock, TypeOK, chainVars, runVars, outVars, histVars
  <2> QED BY <2>1, <2>2
<1>11. CASE DispatchConfirmed
  <2>1. CASE Enough
    <3>1. since # <<>> /\ Head(since) \in Block /\ Head(since).number \in Nat
      <4>1. since \in Seq(Block) /\ since # <<>> BY <2>1 DEF Enough, TypeOK
      <4> QED BY <4>1, SeqEnds, BlockFields
    <3>2. begins' \subseteq Nat BY <1>11, <2>1, <3>1 DEF DispatchConfirmed, TypeOK
    <3>3. since' \in Seq(Block) /\ got' \in Block /\ checkpoint' \in Nat /\ pc' = "send"
      BY <1>11, <2>1, <3>1, SeqEnds DEF DispatchConfirmed, TypeOK
    <3> QED BY <1>11, <3>2, <3>3 DEF DispatchConfirmed, TypeOK, chainVars, runVars, outVars
  <2>2. CASE ~Enough
    BY <1>11, <2>2 DEF DispatchConfirmed, TypeOK, chainVars, runVars, outVars
  <2> QED BY <2>1, <2>2
<1>12. CASE SendBlock
  BY <1>12 DEF SendBlock, TypeOK, chainVars, runVars, viewVars, outVars, histVars
<1>13. CASE SendCancelled
  BY <1>13 DEF SendCancelled, TypeOK, Block, chainVars, runVars, viewVars, outVars
<1>14. CASE Start
  <2>1. fromBlock' \in Nat BY <1>14, FromBlocksAssumption DEF Start, TypeOK
  <2>2. waiting' \in BOOLEAN BY <1>14 DEF Start
  <2>3. /\ since' \in Seq(Block) /\ newHead' \in Seq(Block) /\ notes' \in Seq(Block)
        /\ Len(newHead') <= HeadCap /\ tap' \in BOOLEAN
    <3>1. since' = <<>> /\ newHead' = <<>> /\ notes' = <<>> /\ tap' = FALSE
      BY <1>14 DEF Start
    <3>2. <<>> \in Seq(Block) /\ Len(<<>>) = 0 OBVIOUS
    <3>3. Len(newHead') <= HeadCap BY <3>1, <3>2, CapsAssumption
    <3>4. tap' \in BOOLEAN BY <3>1
    <3> QED BY <3>1, <3>2, <3>3, <3>4
  <2>4. /\ mode' \in {"off", "running", "stopping", "draining"} /\ sessions' \in Nat
        /\ pc' = "begin" /\ checkpoint' \in Nat \cup {None}
    BY <1>14 DEF Start, TypeOK
  <2> QED BY <1>14, <2>1, <2>2, <2>3, <2>4 DEF Start, TypeOK, chainVars, outVars, histVars
<1>15. CASE StopRequest
  BY <1>15 DEF StopRequest, TypeOK, chainVars, viewVars, dispVars, outVars, histVars
<1>16. CASE Stopped
  BY <1>16 DEF Stopped, TypeOK, chainVars, viewVars, outVars, histVars
<1>17. CASE Crash
  BY <1>17 DEF Crash, TypeOK, chainVars, viewVars, histVars
<1>18. CASE Consume
  <2>1. Head(channel) \in Block /\ Head(channel).number \in Nat /\ channel' \in Seq(Block)
        /\ Len(channel') <= ChannelCap
    BY <1>18, SeqEnds, BlockFields DEF Consume, TypeOK
  <2> QED BY <1>18, <2>1 DEF Consume, TypeOK, chainVars, runVars, viewVars, dispVars, histVars
<1>19. CASE BatchCancelled
  <2>1. Head(channel).number \in Nat /\ channel' \in Seq(Block) /\ Len(channel') <= ChannelCap
    BY <1>19, SeqEnds, BlockFields DEF BatchCancelled, TypeOK
  <2> QED BY <1>19, <2>1 DEF BatchCancelled, TypeOK, chainVars, runVars, viewVars, dispVars, outVars
<1>20. CASE WriteCheckpoint
  BY <1>20 DEF WriteCheckpoint, TypeOK, chainVars, runVars, viewVars, dispVars, histVars
<1>21. CASE UNCHANGED vars
  BY <1>21 DEF vars, TypeOK
<1> QED
  BY <1>1, <1>2, <1>3, <1>4, <1>5, <1>6, <1>7, <1>8, <1>9, <1>10, <1>11, <1>12, <1>13, <1>14,
     <1>15, <1>16, <1>17, <1>18, <1>19, <1>20, <1>21 DEF Next, Dispatch

\* The initial state is well typed.
LEMMA InitType == Init => TypeOK
<1> SUFFICES ASSUME Init PROVE TypeOK OBVIOUS
<1>1. NoBlock \in Block BY DEF NoBlock, Block
<1>2. chain \in Seq(Block) /\ chain # <<>> /\ got \in Block BY <1>1 DEF Init
<1>3. final \in Int BY RAssumption DEF Init
<1>4. /\ notes \in Seq(Block) /\ since \in Seq(Block) /\ newHead \in Seq(Block)
      /\ channel \in Seq(Block) /\ Len(newHead) <= HeadCap /\ Len(channel) <= ChannelCap
  BY CapsAssumption DEF Init
<1> QED BY <1>2, <1>3, <1>4 DEF Init, TypeOK

\* Every variable keeps its type, and neither the notified blocks nor the batch
\* channel outgrow their capacity.
THEOREM TypeCorrect == Spec => []TypeOK
BY InitType, TypeStep, PTL DEF Spec

(***************************************************************************)
(* Hashes identify blocks                                                  *)
(***************************************************************************)

Blocks(s) == {s[i] : i \in 1..Len(s)}

\* The blocks the node, the notifications, the view and the dispatcher hold.
Known == Blocks(chain) \cup Blocks(notes) \cup Blocks(since) \cup Blocks(newHead) \cup {got}

\* Two known blocks with the same hash have the same number, and the child of a
\* known block has the next number, although reorganised blocks are still about.
Consistent(B) ==
    \A b, c \in B : /\ b.hash = c.hash => b.number = c.number
                    /\ c.parent = b.hash => c.number = b.number + 1

HashInv ==
    /\ \A b \in Known : b.hash <= mined /\ b.parent <= mined
    /\ Consistent(Known)
    /\ \A i \in 1..Len(chain) : chain[i].number = i - 1

\* The blocks of the sequences that the steps make.
LEMMA BlocksOf ==
    ASSUME NEW s \in Seq(Block)
    PROVE  /\ Blocks(s) \subseteq Block
           /\ Blocks(<<>>) = {}
           /\ s # <<>> => Head(s) \in Blocks(s) /\ Blocks(Tail(s)) \subseteq Blocks(s)
           /\ \A b : Blocks(Append(s, b)) = Blocks(s) \cup {b}
           /\ \A k \in 0..Len(s) : Blocks(SubSeq(s, 1, k)) \subseteq Blocks(s)
<1>1. Blocks(s) \subseteq Block /\ Blocks(<<>>) = {} BY DEF Blocks
<1>2. s # <<>> => Head(s) \in Blocks(s) /\ Blocks(Tail(s)) \subseteq Blocks(s)
  BY SeqEnds DEF Blocks
<1>3. ASSUME NEW b PROVE Blocks(Append(s, b)) = Blocks(s) \cup {b}
  <2> DEFINE t == Append(s, b)
  <2>1. Len(t) = Len(s) + 1 /\ t[Len(s) + 1] = b /\ Len(s) \in Nat OBVIOUS
  <2>2. \A i \in 1..Len(s) : t[i] = s[i] OBVIOUS
  <2> HIDE DEF t
  <2>3. Blocks(t) = Blocks(s) \cup {b} BY <2>1, <2>2 DEF Blocks
  <2> QED BY <2>3 DEF t
<1>4. ASSUME NEW k \in 0..Len(s) PROVE Blocks(SubSeq(s, 1, k)) \subseteq Blocks(s)
  BY DEF Blocks
<1> QED BY <1>1, <1>2, <1>3, <1>4

LEMMA BlocksAppend ==
    ASSUME NEW s \in Seq(Block), NEW b
    PROVE  Blocks(Append(s, b)) = Blocks(s) \cup {b}
BY BlocksOf

\* A step that mines nothing brings no new block in.
LEMMA KnownShrinks ==
    ASSUME HashInv, Known' \subseteq Known, UNCHANGED chainVars
    PROVE  HashInv'
BY DEF HashInv, Consistent, chainVars

\* Only mining brings a new block in.
LEMMA KnownStep ==
    ASSUME TypeOK, [Next]_vars, ~ \E n \in 0..(Len(chain) - 1) : Mine(n)
    PROVE  Known' \subseteq Known /\ UNCHANGED chainVars
<1>0. /\ chain \in Seq(Block) /\ notes \in Seq(Block) /\ since \in Seq(Block)
      /\ newHead \in Seq(Block) /\ got \in Block /\ mined \in Nat /\ chain # <<>>
  BY DEF TypeOK
<1> DEFINE Same == Known' \subseteq Known /\ UNCHANGED chainVars
<1>2. CASE Renotify
  <2>1. Blocks(notes') \subseteq Blocks(chain)
    <3>1. notes' = <<chain[Len(chain)]>> BY <1>2 DEF Renotify, Top
    <3> QED BY <1>0, <3>1 DEF Blocks
  <2> QED BY <1>2, <2>1 DEF Renotify, Known, viewVars, dispVars, chainVars
<1>3. CASE ProcessBlock
  <2> DEFINE b == Head(notes)
  <2>1. b \in Blocks(notes) /\ b \in Block /\ Blocks(notes') \subseteq Blocks(notes)
    BY <1>0, <1>3, BlocksOf, SeqEnds DEF ProcessBlock
  <2>2. /\ Blocks(since') \subseteq Blocks(since) \cup {b}
        /\ Blocks(newHead') \subseteq Blocks(newHead) \cup {b}
    <3>1. CASE UNCHANGED <<since, newHead>> BY <3>1
    <3>2. CASE newHead' = Append(newHead, b) /\ UNCHANGED since BY <1>0, <3>2, BlocksOf
    <3>3. ASSUME NEW i \in 1..Len(since), since' = ReplaceFrom(i, b), newHead' = <<>>
          PROVE  /\ Blocks(since') \subseteq Blocks(since) \cup {b}
                 /\ Blocks(newHead') \subseteq Blocks(newHead) \cup {b}
      <4>1. SubSeq(since, 1, i - 1) \in Seq(Block) /\ Blocks(SubSeq(since, 1, i - 1)) \subseteq Blocks(since)
        BY <1>0, BlocksOf
      <4>2. since' = SubSeq(since, 1, i - 1) \/ since' = Append(SubSeq(since, 1, i - 1), b)
        BY <3>3 DEF ReplaceFrom
      <4>3. Blocks(Append(SubSeq(since, 1, i - 1), b)) = Blocks(SubSeq(since, 1, i - 1)) \cup {b}
        BY <4>1, BlocksAppend
      <4>4. Blocks(newHead') = {} BY <1>0, <3>3, BlocksOf
      <4> QED BY <4>1, <4>2, <4>3, <4>4
    <3> QED BY <1>3, <3>1, <3>2, <3>3 DEF ProcessBlock
  <2>3. Known' \subseteq Known
    <3>1. UNCHANGED <<chain, got>> BY <1>3 DEF ProcessBlock, chainVars, dispVars
    <3> QED BY <2>1, <2>2, <3>1 DEF Known
  <2> QED BY <1>3, <2>3 DEF ProcessBlock
<1>4. CASE NotificationLost
  <2>1. Blocks(notes') \subseteq Blocks(notes) BY <1>0, <1>4, BlocksOf DEF NotificationLost
  <2> QED BY <1>4, <2>1 DEF NotificationLost, Known, chainVars, viewVars, dispVars
<1>5. ASSUME UNCHANGED <<chainVars, notes, since, newHead, got>> PROVE Same
  BY <1>5 DEF Known, chainVars
<1>6. ASSUME PopDispatched PROVE Blocks(since') \cup Blocks(newHead') \subseteq Blocks(since) \cup Blocks(newHead)
  BY <1>0, <1>6, BlocksOf DEF PopDispatched
<1>7. CASE ReadNextBlock
  <2>1. CASE PopDispatched
    <3>1. UNCHANGED <<chainVars, notes, got>> BY <1>7 DEF ReadNextBlock
    <3> QED BY <1>6, <2>1, <3>1 DEF Known, chainVars
  <2>2. CASE ~PopDispatched BY <1>5, <1>7, <2>2 DEF ReadNextBlock
  <2> QED BY <2>1, <2>2
<1>8. CASE QueryBlock
  <2>1. got' \in Blocks(chain) \cup {got} BY <1>0, <1>8 DEF QueryBlock, Blocks, TypeOK
  <2> QED BY <1>8, <2>1 DEF QueryBlock, Known, chainVars, viewVars
<1>10. CASE AttachBlock
  <2>1. UNCHANGED <<chainVars, notes, got>> BY <1>10 DEF AttachBlock
  <2>2. CASE PopDispatched BY <1>6, <2>1, <2>2 DEF Known, chainVars
  <2>3. CASE ~PopDispatched
    <3>1. UNCHANGED newHead /\ (since' = Append(since, got) \/ (since # <<>> /\ since' = Front(since)))
      BY <1>10, <2>3 DEF AttachBlock
    <3>2. since # <<>> => Blocks(Front(since)) \subseteq Blocks(since)
      BY <1>0, SeqEnds, BlocksOf, SMTT(30) DEF Front
    <3>3. Blocks(Append(since, got)) = Blocks(since) \cup {got} BY <1>0, BlocksAppend
    <3>4. Blocks(since') \subseteq Blocks(since) \cup {got} BY <3>1, <3>2, <3>3
    <3> QED BY <2>1, <3>1, <3>4 DEF Known, chainVars
  <2> QED BY <2>2, <2>3
<1>11. CASE DispatchConfirmed
  <2>1. UNCHANGED <<chainVars, notes, newHead>> BY <1>11 DEF DispatchConfirmed
  <2>2. CASE Enough
    <3>1. since # <<>> BY <2>2, RAssumption DEF Enough
    <3>2. got' \in Blocks(since) /\ Blocks(since') \subseteq Blocks(since)
      <4>1. got' = Head(since) /\ since' = Tail(since) BY <1>11, <2>2 DEF DispatchConfirmed
      <4> QED BY <1>0, <3>1, <4>1, BlocksOf
    <3> QED BY <2>1, <3>2 DEF Known, chainVars
  <2>3. CASE ~Enough BY <1>5, <1>11, <2>1, <2>3 DEF DispatchConfirmed
  <2> QED BY <2>2, <2>3
<1>12. CASE Start \/ Stopped \/ Crash
  <2>1. /\ UNCHANGED <<chainVars, got>>
        /\ Blocks(notes') = {} /\ Blocks(since') \subseteq Blocks(since)
        /\ Blocks(newHead') \subseteq Blocks(newHead)
    BY <1>0, <1>12, BlocksOf DEF Start, Stopped, Crash, viewVars
  <2> QED BY <2>1 DEF Known, chainVars
<1>13. CASE \/ DispatchBegin \/ WaitForTap \/ QueryFail \/ SendBlock \/ SendCancelled
            \/ StopRequest \/ Consume \/ BatchCancelled \/ WriteCheckpoint \/ UNCHANGED vars
  BY <1>5, <1>13 DEF DispatchBegin, WaitForTap, QueryFail, SendBlock, SendCancelled, StopRequest,
     Consume, BatchCancelled, WriteCheckpoint, vars, chainVars, viewVars, dispVars
<1> QED
  BY <1>2, <1>3, <1>4, <1>7, <1>8, <1>10, <1>11, <1>12, <1>13 DEF Next, Dispatch

\* The block that is mined, and the chain it ends.
LEMMA MineKnown ==
    ASSUME TypeOK, HashInv, NEW n \in 0..(Len(chain) - 1), Mine(n)
    PROVE  \E b \in Block :
             /\ b.number = n + 1 /\ b.hash = mined + 1 /\ b.parent = chain[n + 1].hash
             /\ Known' \subseteq Known \cup {b} /\ mined' = mined + 1
             /\ Len(chain') = n + 2 /\ chain'[n + 2] = b /\ \A i \in 1..(n + 1) : chain'[i] = chain[i]
<1>0. /\ chain \in Seq(Block) /\ notes \in Seq(Block) /\ since \in Seq(Block)
      /\ newHead \in Seq(Block) /\ got \in Block /\ mined \in Nat /\ chain # <<>>
  BY DEF TypeOK
<1> DEFINE b == [number |-> n + 1, hash |-> mined + 1, parent |-> chain[n + 1].hash]
<1>1. chain[n + 1] \in Block /\ chain[n + 1].hash \in Nat /\ b \in Block
  <2>1. n + 1 \in 1..Len(chain) BY <1>0
  <2>2. chain[n + 1] \in Block BY <1>0, <2>1
  <2>3. chain[n + 1].hash \in Nat BY <2>2, BlockFields
  <2> QED BY <1>0, <2>2, <2>3, SMTT(30) DEF Block
<1>3. b.number = n + 1 /\ b.hash = mined + 1 /\ b.parent = chain[n + 1].hash
  OBVIOUS
<1>4. chain' = Append(SubSeq(chain, 1, n + 1), b) /\ mined' = mined + 1
  BY DEF Mine
<1>5. notes' = notes \/ notes' = Append(notes, b) BY DEF Mine
<1>6. UNCHANGED <<since, newHead, got>> BY DEF Mine, viewVars, dispVars
<1> HIDE DEF b
<1>7. Known' \subseteq Known \cup {b}
  <2>1. SubSeq(chain, 1, n + 1) \in Seq(Block) /\ Blocks(SubSeq(chain, 1, n + 1)) \subseteq Blocks(chain)
    BY <1>0, BlocksOf
  <2>2. Blocks(chain') \subseteq Blocks(chain) \cup {b}
    <3>1. Blocks(chain') = Blocks(SubSeq(chain, 1, n + 1)) \cup {b} BY <1>4, <2>1, BlocksAppend
    <3> QED BY <2>1, <3>1
  <2>3. Blocks(notes') \subseteq Blocks(notes) \cup {b}
    <3>1. Blocks(Append(notes, b)) = Blocks(notes) \cup {b} BY <1>0, BlocksAppend
    <3> QED BY <1>5, <3>1
  <2>4. Blocks(since') = Blocks(since) /\ Blocks(newHead') = Blocks(newHead) /\ got' = got
    BY <1>6
  <2> QED BY <2>2, <2>3, <2>4 DEF Known
<1>8. Len(chain') = n + 2 /\ chain'[n + 2] = b /\ \A i \in 1..(n + 1) : chain'[i] = chain[i]
  <2> DEFINE p == SubSeq(chain, 1, n + 1)
  <2>1. p \in Seq(Block) /\ Len(p) = n + 1 /\ \A i \in 1..(n + 1) : p[i] = chain[i]
    BY <1>0
  <2> HIDE DEF p
  <2>2. chain' = Append(p, b) BY <1>4 DEF p
  <2> QED BY <2>1, <2>2
<1> QED BY <1>1, <1>3, <1>4, <1>7, <1>8

\* Every step keeps the hashes consistent.
LEMMA HashStep == TypeOK /\ HashInv /\ [Next]_vars => HashInv'
<1> SUFFICES ASSUME TypeOK, HashInv, [Next]_vars PROVE HashInv' OBVIOUS
<1>0. /\ chain \in Seq(Block) /\ notes \in Seq(Block) /\ since \in Seq(Block)
      /\ newHead \in Seq(Block) /\ got \in Block /\ mined \in Nat /\ chain # <<>>
  BY DEF TypeOK
<1>1. ASSUME NEW n \in 0..(Len(chain) - 1), Mine(n) PROVE HashInv'
  <2>1. chain[n + 1] \in Known /\ chain[n + 1].number = n /\ chain[n + 1] \in Block
    <3>1. n + 1 \in 1..Len(chain) BY <1>0
    <3>2. chain[n + 1] \in Block /\ chain[n + 1] \in Known BY <1>0, <3>1 DEF Known, Blocks
    <3> QED BY <3>1, <3>2 DEF HashInv
  <2>2. \A c \in Known : c \in Block /\ c.hash \in Nat /\ c.parent \in Int /\ c.number \in Nat
    BY <1>0, BlocksOf, BlockFields DEF Known
  <2>3. PICK b \in Block :
          /\ b.number = n + 1 /\ b.hash = mined + 1 /\ b.parent = chain[n + 1].hash
          /\ Known' \subseteq Known \cup {b} /\ mined' = mined + 1
          /\ Len(chain') = n + 2 /\ chain'[n + 2] = b /\ \A i \in 1..(n + 1) : chain'[i] = chain[i]
    BY <1>1, MineKnown
  <2>8. \A c \in Known : c.hash <= mined /\ c.parent <= mined BY DEF HashInv
  <2>9. \A c \in Known \cup {b} : c.hash <= mined' /\ c.parent <= mined'
    BY <1>0, <2>1, <2>2, <2>3, <2>8
  <2>10. Consistent(Known \cup {b})
    <3> SUFFICES ASSUME NEW c \in Known \cup {b}, NEW d \in Known \cup {b}
                 PROVE  /\ c.hash = d.hash => c.number = d.number
                        /\ d.parent = c.hash => d.number = c.number + 1
      BY DEF Consistent
    <3>1. CASE c \in Known /\ d \in Known BY <3>1 DEF HashInv, Consistent
    <3>2. CASE c \in Known /\ d = b
      <4>1. d.parent = c.hash => c.number = n BY <2>1, <2>3, <3>2 DEF HashInv, Consistent
      <4> QED BY <1>0, <2>2, <2>3, <2>8, <3>2, <4>1
    <3>3. CASE c = b /\ d \in Known BY <1>0, <2>2, <2>3, <2>8, <3>3
    <3>4. CASE c = b /\ d = b BY <1>0, <2>1, <2>2, <2>3, <2>8, <3>4
    <3> QED BY <3>1, <3>2, <3>3, <3>4
  <2>11. \A i \in 1..Len(chain') : chain'[i].number = i - 1
    <3>1. ASSUME NEW i \in 1..(n + 1) PROVE chain'[i].number = i - 1
      <4>1. i \in 1..Len(chain) BY <1>0
      <4> QED BY <2>3, <4>1 DEF HashInv
    <3> QED BY <2>3, <3>1
  <2> QED BY <2>3, <2>9, <2>10, <2>11 DEF HashInv, Consistent
<1>2. CASE ~ \E n \in 0..(Len(chain) - 1) : Mine(n) BY <1>2, KnownStep, KnownShrinks
<1> QED BY <1>1, <1>2

(***************************************************************************)
(* The view is linked                                                      *)
(***************************************************************************)

\* The number of the first block the view needs.
Needed == IF checkpoint # None THEN checkpoint + 1 ELSE fromBlock

\* How the dispatcher's position, the bounds of the session and the empty view
\* hang together.
LoopInv ==
    /\ mode = "off" <=> pc = "done"
    /\ pc # "done" => fromBlock >= setting
    /\ waiting => View = <<>> /\ checkpoint = None /\ pc \in {"done", "begin", "wait"}
    /\ pc # "done" /\ waiting => setting = Latest
    /\ pc # "done" /\ checkpoint # None => checkpoint >= fromBlock
    /\ View # <<>> => View[1].number >= fromBlock
    /\ pc = "query" /\ View = <<>> => fetch = Needed
    /\ pc = "attach" /\ View = <<>> => got.number = Needed

\* Nothing before the setting is handed on, so no checkpoint is before it.
OutInv ==
    /\ pc = "send" => got.number >= setting
    /\ \A i \in 1..Len(channel) : channel[i].number >= setting
    /\ acked # None => acked >= setting
    /\ saved # None => saved >= setting

Inv == TypeOK /\ HashInv /\ ViewLinked /\ LoopInv /\ OutInv

\* The facts about types the steps below rest on.
LEMMA ViewType ==
    ASSUME TypeOK
    PROVE  /\ since \in Seq(Block) /\ newHead \in Seq(Block) /\ View \in Seq(Block)
           /\ newHead = <<>> => View = since
           /\ since # <<>> => View # <<>> /\ View[1] = since[1]
BY DEF TypeOK, View

\* The parts of the view are linked when the view is.
LEMMA SinceLinked == TypeOK /\ ViewLinked => Linked(since)
BY ConcatLinked DEF TypeOK, ViewLinked, View

\* The first block of the view is a block.
LEMMA FirstType == TypeOK /\ View # <<>> => View[1] \in Block /\ View[1].number \in Nat
<1> SUFFICES ASSUME TypeOK, View # <<>> PROVE View[1] \in Block /\ View[1].number \in Nat OBVIOUS
<1>1. View \in Seq(Block) BY ViewType
<1>2. View[1] \in Block BY <1>1
<1> QED BY <1>2, BlockFields

\* A step that leaves the view alone and neither starts nor ends a query.
LEMMA Frame ==
    ASSUME Inv, pc # "done", pc' \in {"begin", "wait", "read", "dispatch", "send"},
           waiting => pc' \in {"begin", "wait"}, View' = View, mode' = mode,
           UNCHANGED <<setting, fromBlock, waiting, checkpoint>>
    PROVE  ViewLinked' /\ LoopInv'
<1>1. ViewLinked' BY DEF Inv, ViewLinked, Linked
<1>2. LoopInv' BY DEF Inv, LoopInv
<1> QED BY <1>1, <1>2

\* The notification processor keeps the view linked.
LEMMA ProcessBlockView ==
    ASSUME Inv, ProcessBlock
    PROVE  ViewLinked' /\ LoopInv'
<1> DEFINE b == Head(notes)
<1>0. /\ TypeOK /\ ViewLinked /\ LoopInv /\ View \in Seq(Block) /\ Linked(View)
      /\ b \in Block /\ b.number \in Nat /\ fromBlock \in Nat /\ checkpoint \in Nat \cup {None}
  <2>1. notes \in Seq(Block) /\ notes # <<>> BY DEF Inv, TypeOK, ProcessBlock
  <2>2. b \in Block /\ b.number \in Nat BY <2>1, SeqEnds, BlockFields
  <2> QED BY <2>2, ViewType DEF Inv, TypeOK, ViewLinked
<1>1. /\ UNCHANGED <<mode, setting, pc, checkpoint, fetch, got>> /\ mode # "off"
      /\ waiting' = FALSE /\ fromBlock' = IF waiting THEN b.number ELSE fromBlock
  BY DEF ProcessBlock, runVars, dispVars
<1>2. pc # "done" BY <1>0, <1>1 DEF LoopInv
<1> HIDE DEF b
<1>3. CASE View' = View
  <2>1. ViewLinked' BY <1>0, <1>1, <1>3 DEF ViewLinked, Linked
  <2>2. CASE waiting
    BY <1>0, <1>1, <1>2, <1>3, <2>1, <2>2 DEF LoopInv, Latest
  <2>3. CASE ~waiting
    BY <1>0, <1>1, <1>2, <1>3, <2>1, <2>3 DEF LoopInv, Needed
  <2> QED BY <2>1, <2>2, <2>3
<1>4. CASE ~Ignored(b) /\ AddsDirectly(b) /\ View' = Append(View, b)
  <2>1. View # <<>> => b.number = Last(View).number + 1 /\ b.parent = Last(View).hash
    BY <1>4 DEF AddsDirectly
  <2>2. /\ Linked(View') /\ View' # <<>>
        /\ View # <<>> => View'[1] = View[1]
        /\ View = <<>> => View'[1] = b
    BY <1>0, <1>4, <2>1, LinkedAppend
  <2>3. View = <<>> => checkpoint = None \/ b.number = checkpoint + 1
    BY <1>4 DEF AddsDirectly
  <2>4. Linked(View)' BY <2>2 DEF Linked
  <2>5. ViewLinked' BY <1>0, <1>1, <2>2, <2>3, <2>4 DEF ViewLinked
  <2>6. ~waiting => b.number >= fromBlock BY <1>0, <1>4 DEF Ignored
  <2>7. View'[1].number >= fromBlock'
    BY <1>0, <1>1, <2>2, <2>6 DEF LoopInv
  <2>8. fromBlock' >= setting BY <1>0, <1>1, <1>2 DEF LoopInv, Latest
  <2>9. pc # "done" /\ checkpoint' # None => checkpoint' >= fromBlock'
    BY <1>0, <1>1, <1>2 DEF LoopInv
  <2>10. LoopInv'
    BY <1>0, <1>1, <1>2, <2>2, <2>7, <2>8, <2>9 DEF LoopInv
  <2> QED BY <2>5, <2>10
<1>5. ASSUME NEW i \in 1..Len(since), since[i].number = b.number,
             since' = ReplaceFrom(i, b), View' = since'
      PROVE  ViewLinked' /\ LoopInv'
  <2> DEFINE s == SubSeq(since, 1, i - 1)
  <2>1. since \in Seq(Block) /\ since # <<>> /\ Linked(since)
        /\ View # <<>> /\ View[1] = since[1]
    BY <1>0, ViewType, SinceLinked
  <2>2. /\ s \in Seq(Block) /\ Linked(s) /\ Len(s) = i - 1
        /\ i > 1 => s[1] = since[1] /\ s[i - 1] = since[i - 1]
    <3>1. i - 1 \in 0..Len(since) BY <2>1
    <3> QED BY <2>1, <3>1, LinkedPrefix
  <2>3. i > 1 => since[i].number = since[i - 1].number + 1
    <3>1. i > 1 => i - 1 \in 1..(Len(since) - 1) /\ (i - 1) + 1 = i BY <2>1
    <3> QED BY <2>1, <3>1 DEF Linked
  <2> HIDE DEF s
  <2>4. View' = s \/ View' = Append(s, b) BY <1>5 DEF ReplaceFrom, s
  <2>5. View' = s => i > 1 BY <1>5, <2>2, SeqGrows, <1>0 DEF ReplaceFrom, s
  <2>6. View' = Append(s, b) /\ View' # s => (i = 1 \/ b.parent = since[i - 1].hash)
    BY <1>5 DEF ReplaceFrom, s
  <2>7. Linked(View') /\ View' # <<>> /\ View'[1].number = View[1].number
    <3>1. CASE View' = s
      <4>1. i > 1 BY <2>5, <3>1
      <4>2. s # <<>> BY <2>2, <4>1
      <4> QED BY <2>1, <2>2, <3>1, <4>1, <4>2
    <3>2. CASE View' = Append(s, b) /\ View' # s
      <4>1. s # <<>> <=> i > 1 BY <2>2
      <4>2. s # <<>> => b.number = Last(s).number + 1 /\ b.parent = Last(s).hash
        BY <1>5, <2>2, <2>3, <2>6, <3>2, <4>1 DEF Last
      <4>3. /\ Linked(View') /\ View' # <<>>
            /\ s # <<>> => View'[1] = s[1] /\ (s = <<>> => View'[1] = b)
            /\ s = <<>> => View'[1] = b
        BY <1>0, <2>2, <3>2, <4>2, LinkedAppend
      <4> QED BY <1>5, <2>1, <2>2, <4>1, <4>3
    <3> QED BY <2>4, <3>1, <3>2
  <2>8. ~waiting BY <1>0, <2>1 DEF LoopInv
  <2>9. Linked(View)' BY <2>7 DEF Linked
  <2>10. ViewLinked' BY <1>0, <1>1, <2>1, <2>7, <2>9 DEF ViewLinked
  <2>11. LoopInv' BY <1>0, <1>1, <1>2, <2>1, <2>7, <2>8 DEF LoopInv
  <2> QED BY <2>10, <2>11
<1>6. CASE Ignored(b) /\ UNCHANGED <<since, newHead, tap>>
  BY <1>3, <1>6 DEF View
<1>7. CASE ~Ignored(b) /\ AddsDirectly(b) /\ newHead' = Append(newHead, b) /\ UNCHANGED since
  <2>1. View' = Append(View, b) BY <1>0, <1>7, ConcatAppend, ViewType DEF View
  <2> QED BY <1>4, <1>7, <2>1
<1>8. ASSUME NEW i \in 1..Len(since), since[i].number = b.number,
             since' = ReplaceFrom(i, b), newHead' = <<>>
      PROVE  ViewLinked' /\ LoopInv'
  <2>1. since' \in Seq(Block) BY <1>0, <1>8, ReplaceType, ViewType
  <2>2. View' = since' BY <1>8, <2>1 DEF View
  <2> QED BY <1>5, <1>8, <2>2
<1>9. CASE UNCHANGED <<since, newHead>>
  BY <1>3, <1>9 DEF View
<1> QED BY <1>6, <1>7, <1>8, <1>9 DEF ProcessBlock, b

\* The dispatcher keeps the view linked, also when it appends a block it asked
\* for before the view was cut.
LEMMA AttachView ==
    ASSUME Inv, AttachBlock
    PROVE  ViewLinked' /\ LoopInv'
<1>0. /\ TypeOK /\ HashInv /\ ViewLinked /\ LoopInv /\ pc = "attach"
      /\ since \in Seq(Block) /\ newHead \in Seq(Block) /\ Linked(since)
      /\ got \in Block /\ got.number \in Nat /\ fromBlock \in Nat
      /\ checkpoint \in Nat \cup {None}
  BY SinceLinked, BlockFields DEF Inv, TypeOK, AttachBlock
<1>1. /\ UNCHANGED <<mode, setting, fromBlock, waiting, checkpoint>> /\ pc' = "dispatch"
      /\ ~waiting
  BY <1>0 DEF AttachBlock, PopDispatched, LoopInv, runVars
<1>2. CASE PopDispatched
  <2>1. View' = View BY <1>0, <1>2, ConcatMove DEF PopDispatched, View
  <2> QED BY <1>0, <1>1, <2>1, Frame
<1>3. CASE ~PopDispatched
  <2>1. newHead = <<>> /\ UNCHANGED newHead
        /\ since' = IF since # <<>> /\ Last(since).hash # got.parent
                    THEN Front(since) ELSE Append(since, got)
    BY <1>3 DEF AttachBlock
  <2>2. View = since /\ View' = since'
    <3>1. since' \in Seq(Block) BY <1>0, <2>1, SeqEnds, SeqGrows
    <3> QED BY <1>0, <2>1, <3>1 DEF View
  <2>3. /\ Linked(View')
        /\ View' # <<>> /\ checkpoint # None => View'[1].number = checkpoint + 1
        /\ View' # <<>> => View'[1].number >= fromBlock
    <3>1. CASE since # <<>> /\ Last(since).hash # got.parent
      <4>1. Len(since) - 1 \in 0..Len(since) /\ View' = SubSeq(since, 1, Len(since) - 1)
        BY <1>0, <2>1, <2>2, <3>1, SeqEnds DEF Front
      <4>2. Linked(View') /\ Len(View') = Len(since) - 1
            /\ (Len(since) - 1 > 0 => View'[1] = since[1])
        BY <1>0, <4>1, LinkedPrefix
      <4>3. View' # <<>> => Len(since) - 1 > 0
        BY <1>0, <4>1, <4>2, LinkedPrefix
      <4> QED BY <1>0, <2>2, <3>1, <4>2, <4>3 DEF ViewLinked, LoopInv
    <3>2. CASE since # <<>> /\ Last(since).hash = got.parent
      <4>1. Last(since) \in Known /\ got \in Known
        BY <1>0, <3>2, SeqEnds DEF Known, Blocks, Last
      <4>2. got.number = Last(since).number + 1
        BY <3>2, <4>1, <1>0 DEF HashInv, Consistent
      <4>3. View' = Append(since, got) BY <2>1, <2>2, <3>2
      <4>4. Linked(View') /\ View'[1] = since[1] BY <1>0, <3>2, <4>2, <4>3, LinkedAppend
      <4> QED BY <1>0, <2>2, <3>2, <4>4 DEF ViewLinked, LoopInv
    <3>3. CASE since = <<>>
      <4>1. View' = Append(since, got) BY <2>1, <2>2, <3>3
      <4>2. Linked(since) /\ Linked(View') /\ View'[1] = got BY <1>0, <3>3, <4>1, LinkedAppend
      <4>3. got.number = Needed BY <1>0, <2>2, <3>3 DEF LoopInv
      <4> QED BY <1>0, <4>2, <4>3 DEF LoopInv, Needed
    <3> QED BY <3>1, <3>2, <3>3
  <2>4. Linked(View)' BY <2>3 DEF Linked
  <2>5. ViewLinked' BY <1>1, <2>3, <2>4 DEF ViewLinked
  <2>6. LoopInv' BY <1>0, <1>1, <2>3 DEF LoopInv
  <2> QED BY <2>5, <2>6
<1> QED BY <1>2, <1>3

LEMMA ReadView ==
    ASSUME Inv, ReadNextBlock
    PROVE  ViewLinked' /\ LoopInv'
<1>0. /\ TypeOK /\ ViewLinked /\ LoopInv /\ pc = "read"
      /\ since \in Seq(Block) /\ newHead \in Seq(Block)
      /\ fromBlock \in Nat /\ checkpoint \in Nat \cup {None}
  BY DEF Inv, TypeOK, ReadNextBlock
<1>1. UNCHANGED <<mode, setting, fromBlock, waiting, checkpoint>> /\ ~waiting
  BY <1>0 DEF ReadNextBlock, LoopInv, runVars
<1>2. CASE PopDispatched
  <2>1. View' = View BY <1>0, <1>2, ConcatMove DEF PopDispatched, View
  <2>2. pc' = "dispatch" BY <1>2 DEF PopDispatched
  <2> QED BY <1>0, <1>1, <2>1, <2>2, Frame
<1>3. CASE ~PopDispatched
  <2>1. /\ newHead = <<>> /\ UNCHANGED <<since, newHead>>
        /\ pc' \in {"wait", "query"} /\ fetch' = BlockNumberToFetch
    BY <1>3 DEF ReadNextBlock
  <2>2. View' = View /\ View = since BY <1>0, <2>1, ViewType DEF View
  <2>3. since = <<>> => fetch' = Needed
    BY <1>0, <2>1 DEF BlockNumberToFetch, Needed, LoopInv
  <2>4. ViewLinked' BY <1>0, <1>1, <2>2 DEF ViewLinked, Linked
  <2>5. Needed' = Needed BY <1>1 DEF Needed
  <2>6. LoopInv' BY <1>0, <1>1, <2>1, <2>2, <2>3, <2>5 DEF LoopInv
  <2> QED BY <2>4, <2>6
<1> QED BY <1>2, <1>3

LEMMA QueryView ==
    ASSUME Inv, QueryBlock
    PROVE  ViewLinked' /\ LoopInv'
<1>0. /\ TypeOK /\ HashInv /\ ViewLinked /\ LoopInv /\ pc = "query" /\ fetch \in Nat
      /\ chain \in Seq(Block)
  BY DEF Inv, TypeOK, QueryBlock
<1>1. /\ UNCHANGED <<mode, setting, fromBlock, waiting, checkpoint>> /\ ~waiting
      /\ View' = View /\ pc' \in {"attach", "wait"}
  BY <1>0 DEF QueryBlock, LoopInv, runVars, viewVars, View
<1>2. ViewLinked' BY <1>0, <1>1 DEF ViewLinked, Linked
<1>3. pc' = "attach" => got'.number = fetch
  <2>1. pc' = "attach" => fetch < Len(chain) /\ got' = chain[fetch + 1] BY DEF QueryBlock
  <2>2. pc' = "attach" => fetch + 1 \in 1..Len(chain) BY <1>0, <2>1
  <2> QED BY <1>0, <2>1, <2>2 DEF HashInv
<1>4. Needed' = Needed BY <1>1 DEF Needed
<1>5. LoopInv' BY <1>0, <1>1, <1>3, <1>4 DEF LoopInv
<1> QED BY <1>2, <1>5

LEMMA DispatchView ==
    ASSUME Inv, DispatchConfirmed
    PROVE  ViewLinked' /\ LoopInv'
<1>0. /\ TypeOK /\ ViewLinked /\ LoopInv /\ pc = "dispatch" /\ View \in Seq(Block)
      /\ since \in Seq(Block) /\ newHead \in Seq(Block) /\ fromBlock \in Nat
  BY ViewType DEF Inv, TypeOK, DispatchConfirmed
<1>1. UNCHANGED <<mode, setting, fromBlock, waiting, newHead>> /\ ~waiting
  BY <1>0 DEF DispatchConfirmed, LoopInv, runVars
<1>2. CASE ~Enough
  <2>1. pc' = "read" /\ UNCHANGED <<since, checkpoint>> BY <1>2 DEF DispatchConfirmed
  <2>2. View' = View BY <1>1, <2>1 DEF View
  <2> QED BY <1>0, <1>1, <2>1, <2>2, Frame
<1>3. CASE Enough
  <2>1. pc' = "send" /\ since' = Tail(since) /\ checkpoint' = Head(since).number
    BY <1>3 DEF DispatchConfirmed
  <2>2. since # <<>> BY <1>3, RAssumption DEF Enough
  <2>3. View' = Tail(View) /\ View # <<>> /\ Head(since) = View[1]
    BY <1>0, <1>1, <2>1, <2>2, ConcatTail, SeqEnds DEF View
  <2>4. /\ Linked(View')
        /\ View' # <<>> => View'[1].number = View[1].number + 1
    BY <1>0, <2>3, LinkedTail DEF ViewLinked
  <2>5. Linked(View)' BY <2>4 DEF Linked
  <2>6. ViewLinked' BY <2>1, <2>3, <2>4, <2>5 DEF ViewLinked
  <2>7. View[1].number \in Nat BY <1>0, <2>3, FirstType
  <2>8. View[1].number >= fromBlock BY <1>0, <2>3 DEF LoopInv
  <2>9. checkpoint' >= fromBlock' BY <1>1, <2>1, <2>3, <2>8
  <2>10. View' # <<>> => View'[1].number >= fromBlock'
    BY <1>0, <1>1, <2>4, <2>7, <2>8
  <2>11. LoopInv' BY <1>0, <1>1, <2>1, <2>9, <2>10 DEF LoopInv
  <2> QED BY <2>6, <2>11
<1> QED BY <1>2, <1>3

LEMMA StartView ==
    ASSUME Inv, Start
    PROVE  ViewLinked' /\ LoopInv'
<1>0. /\ OutInv /\ saved \in Nat \cup {None} /\ setting \in Nat \cup {Latest}
  BY FromBlocksAssumption DEF Inv, TypeOK
<1>1. View' = <<>>
  <2>1. since' = <<>> /\ newHead' = <<>> BY DEF Start
  <2> QED BY <2>1 DEF View
<1>2. ViewLinked' BY <1>1 DEF ViewLinked, Linked
<1>3. /\ pc' = "begin" /\ mode' = "running" /\ setting' = setting /\ checkpoint' = saved
      /\ fromBlock' = IF setting # Latest THEN setting ELSE IF saved # None THEN saved ELSE 0
      /\ waiting' = (setting = Latest /\ saved = None)
  BY DEF Start
<1>4. fromBlock' >= setting' BY <1>0, <1>3 DEF Latest
<1>5. checkpoint' # None => checkpoint' >= fromBlock' BY <1>0, <1>3 DEF OutInv
<1>6. LoopInv' BY <1>1, <1>3, <1>4, <1>5 DEF LoopInv
<1> QED BY <1>2, <1>6

\* Every step keeps the view linked.
LEMMA ViewStep == Inv /\ [Next]_vars => ViewLinked' /\ LoopInv'
<1> SUFFICES ASSUME Inv, [Next]_vars PROVE ViewLinked' /\ LoopInv' OBVIOUS
<1>1. ASSUME UNCHANGED <<setting, mode, viewVars, dispVars>> PROVE ViewLinked' /\ LoopInv'
  <2>1. View' = View BY <1>1 DEF viewVars, View
  <2>2. ViewLinked' BY <1>1, <2>1 DEF Inv, ViewLinked, Linked, viewVars
  <2>3. Needed' = Needed BY <1>1 DEF Needed, viewVars
  <2>4. LoopInv' BY <1>1, <2>1, <2>3 DEF Inv, LoopInv, viewVars, dispVars
  <2> QED BY <2>2, <2>4
<1>2. ASSUME NEW n \in 0..(Len(chain) - 1), Mine(n) PROVE ViewLinked' /\ LoopInv'
  BY <1>1, <1>2 DEF Mine, runVars
<1>3. CASE Renotify \/ NotificationLost \/ Consume \/ WriteCheckpoint
  BY <1>1, <1>3 DEF Renotify, NotificationLost, Consume, WriteCheckpoint, runVars
<1>4. CASE UNCHANGED vars
  BY <1>1, <1>4 DEF vars, viewVars, dispVars
<1>5. CASE DispatchBegin \/ WaitForTap \/ QueryFail \/ SendBlock \/ SendCancelled
  <2>1. /\ pc # "done" /\ pc' \in {"begin", "wait", "read", "dispatch", "send"}
        /\ mode' = mode /\ UNCHANGED <<setting, fromBlock, waiting, checkpoint, since, newHead>>
    BY <1>5 DEF DispatchBegin, WaitForTap, QueryFail, SendBlock, SendCancelled, runVars, viewVars
  <2>2. waiting => pc' \in {"begin", "wait"}
    BY <1>5 DEF DispatchBegin, WaitForTap, QueryFail, SendBlock, SendCancelled, Inv, LoopInv
  <2>3. View' = View BY <2>1 DEF View
  <2> QED BY <2>1, <2>2, <2>3, Frame
<1>6. CASE StopRequest \/ Stopped \/ Crash \/ BatchCancelled
  <2>1. UNCHANGED <<setting, viewVars, fetch, got>>
    BY <1>6 DEF StopRequest, Stopped, Crash, BatchCancelled, dispVars
  <2>2. View' = View BY <2>1 DEF viewVars, View
  <2>3. ViewLinked' BY <2>1, <2>2 DEF Inv, ViewLinked, Linked, viewVars
  <2>4. \/ mode # "off" /\ mode' # "off" /\ pc' = pc
        \/ mode' = "off" /\ pc' = "done"
    BY <1>6 DEF StopRequest, Stopped, Crash, BatchCancelled, dispVars
  <2>5. Needed' = Needed BY <2>1 DEF Needed, viewVars
  <2>6. LoopInv' BY <2>1, <2>2, <2>4, <2>5 DEF Inv, LoopInv, viewVars
  <2> QED BY <2>3, <2>6
<1> QED
  BY <1>2, <1>3, <1>4, <1>5, <1>6, ProcessBlockView, AttachView, ReadView, QueryView,
     DispatchView, StartView DEF Next, Dispatch

\* Every step keeps what is handed on at or above the setting.
LEMMA OutStep == Inv /\ [Next]_vars => OutInv'
<1> SUFFICES ASSUME Inv, [Next]_vars PROVE OutInv' OBVIOUS
<1>0. /\ TypeOK /\ OutInv /\ LoopInv /\ channel \in Seq(Block) /\ got \in Block
      /\ got.number \in Nat /\ setting \in Int /\ fromBlock \in Nat
  <2>1. setting \in Int BY FromBlocksAssumption DEF Inv, TypeOK, Latest
  <2> QED BY <2>1, BlockFields DEF Inv, TypeOK
<1>1. ASSUME UNCHANGED <<setting, channel, outVars>>, pc' = "send" => pc = "send" /\ got' = got
      PROVE  OutInv'
  BY <1>0, <1>1 DEF OutInv, outVars
<1>2. ASSUME NEW n \in 0..(Len(chain) - 1), Mine(n) PROVE OutInv'
  BY <1>1, <1>2 DEF Mine, runVars, dispVars
<1>3. CASE Renotify \/ ProcessBlock \/ NotificationLost \/ DispatchBegin \/ WaitForTap
  BY <1>1, <1>3 DEF Renotify, ProcessBlock, NotificationLost, DispatchBegin, WaitForTap, runVars, dispVars
<1>4. CASE ReadNextBlock \/ QueryBlock \/ QueryFail \/ AttachBlock \/ SendCancelled
  BY <1>1, <1>4 DEF ReadNextBlock, QueryBlock, QueryFail, AttachBlock, PopDispatched, SendCancelled, runVars
<1>5. CASE Start \/ StopRequest \/ Stopped \/ UNCHANGED vars
  BY <1>1, <1>5 DEF Start, StopRequest, Stopped, vars, dispVars, outVars
<1>6. CASE DispatchConfirmed
  <2>1. CASE ~Enough BY <1>1, <1>6, <2>1 DEF DispatchConfirmed, runVars
  <2>2. CASE Enough
    <3>1. since \in Seq(Block) /\ since # <<>> BY <1>0, <2>2, RAssumption DEF Enough, TypeOK
    <3>2. Head(since) = View[1] /\ View # <<>> BY <1>0, <3>1, ViewType, SeqEnds
    <3>3. View[1].number \in Nat BY <1>0, <3>2, FirstType
    <3>4. View[1].number >= setting BY <1>0, <1>6, <3>2, <3>3 DEF LoopInv, DispatchConfirmed
    <3>5. got'.number >= setting BY <1>6, <2>2, <3>2, <3>4 DEF DispatchConfirmed
    <3> QED BY <1>0, <1>6, <3>5 DEF DispatchConfirmed, OutInv, outVars, runVars
  <2> QED BY <2>1, <2>2
<1>7. CASE SendBlock
  <2>1. channel' = Append(channel, got) /\ got.number >= setting BY <1>0, <1>7 DEF SendBlock, OutInv
  <2>2. /\ Len(channel') = Len(channel) + 1 /\ channel'[Len(channel) + 1] = got
        /\ \A i \in 1..Len(channel) : channel'[i] = channel[i]
    BY <1>0, <2>1
  <2>3. \A i \in 1..Len(channel') : channel'[i].number >= setting
    BY <1>0, <2>1, <2>2 DEF OutInv
  <2> QED BY <1>0, <1>7, <2>3 DEF SendBlock, OutInv, outVars, runVars
<1>8. CASE Consume \/ BatchCancelled
  <2>1. channel # <<>> /\ channel' = Tail(channel) /\ UNCHANGED <<setting, pc, got, saved>>
    BY <1>8 DEF Consume, BatchCancelled, runVars, dispVars, outVars
  <2>2. \A i \in 1..Len(channel') : channel'[i].number >= setting
    BY <1>0, <2>1, SeqEnds DEF OutInv
  <2>3. Head(channel).number >= setting BY <1>0, <2>1, SeqEnds DEF OutInv
  <2>4. acked' = acked \/ acked' = Head(channel).number
    BY <1>8 DEF Consume, BatchCancelled, outVars
  <2> QED BY <1>0, <2>1, <2>2, <2>3, <2>4 DEF OutInv
<1>9. CASE WriteCheckpoint
  BY <1>0, <1>9 DEF WriteCheckpoint, OutInv, runVars, dispVars
<1>10. CASE Crash
  <2>1. channel' = <<>> /\ acked' = None /\ pc' = "done" /\ UNCHANGED <<setting, saved>>
    BY <1>10 DEF Crash
  <2> QED BY <1>0, <2>1 DEF OutInv
<1> QED
  BY <1>2, <1>3, <1>4, <1>5, <1>6, <1>7, <1>8, <1>9, <1>10 DEF Next, Dispatch

LEMMA InvInit == Init => Inv
<1> SUFFICES ASSUME Init PROVE Inv OBVIOUS
<1>1. TypeOK BY InitType
<1>2. View = <<>>
  <2>1. since = <<>> /\ newHead = <<>> BY DEF Init
  <2> QED BY <2>1 DEF View
<1>3. HashInv
  <2>1. chain = <<NoBlock>> /\ notes = <<>> /\ since = <<>> /\ newHead = <<>> /\ got = NoBlock
        /\ mined = 0
    BY DEF Init
  <2>2. Blocks(<<NoBlock>>) = {NoBlock} /\ Blocks(<<>>) = {} BY DEF Blocks
  <2>3. Known = {NoBlock} BY <2>1, <2>2 DEF Known
  <2>4. NoBlock.number = 0 /\ NoBlock.hash = 0 /\ NoBlock.parent = -1 BY DEF NoBlock
  <2> QED BY <2>1, <2>3, <2>4 DEF HashInv, Consistent
<1>4. ViewLinked BY <1>2 DEF ViewLinked, Linked
<1>5. LoopInv BY <1>2 DEF Init, LoopInv
<1>6. OutInv
  <2>1. channel = <<>> /\ acked = None /\ saved = None /\ pc = "done" BY DEF Init
  <2> QED BY <2>1 DEF OutInv
<1> QED BY <1>1, <1>3, <1>4, <1>5, <1>6 DEF Inv

LEMMA InvStep == Inv /\ [Next]_vars => Inv'
BY TypeStep, HashStep, ViewStep, OutStep DEF Inv

\* The view of the chain stays one linked chain right after the checkpoint,
\* for every number of confirmations and every interleaving of the notification
\* processor with the dispatcher.
THEOREM ViewCorrect == Spec => []ViewLinked
<1>1. Inv => ViewLinked BY DEF Inv
<1> QED BY <1>1, InvInit, InvStep, PTL DEF Spec

(***************************************************************************)
(* Only final blocks are delivered                                         *)
(***************************************************************************)

\* The blocks mined so far, by hash: a tree, of which every known block is part.
Tree(T) ==
    /\ T \in [0..mined -> Block]
    /\ \A h \in 0..mined : T[h].hash = h /\ T[h].parent <= mined
    /\ \A b \in Known : b.hash \in 0..mined /\ b = T[b.hash]

\* A block with R blocks on top of it, each the child of the one before.
Path(T, p) ==
    /\ p \in [0..R -> 0..mined]
    /\ \A i \in 1..R : T[p[i]].parent = p[i - 1]

\* A block of the chain that can no longer be reorganised.
Final(b) == b.number <= final /\ chain[b.number + 1] = b

\* Whatever branch it is on, a block that ever had R blocks on top of it is final.
Buried(T) == \A p : Path(T, p) => Final(T[p[0]])

ChainOK ==
    /\ chain[1] = NoBlock /\ final < Len(chain)
    /\ \A i \in 2..Len(chain) : chain[i].parent = chain[i - 1].hash

\* What is on its way to the application, or has got there.
SentFinal ==
    /\ pc = "send" => Final(got)
    /\ \A b \in Blocks(channel) \cup consumed : Final(b)

FinalInv == ChainOK /\ SentFinal /\ \E T : Tree(T) /\ Buried(T)

LEMMA Smallest == ASSUME NEW S \in SUBSET Nat, S # {} PROVE \E m \in S : \A n \in S : m <= n
<1>1. PICK x \in S : \A y \in S : ~(<<y, x>> \in OpToRel(<, Nat))
  BY WFMin, NatLessThanWellFounded, Zenon
<1>2. \A y \in S : ~(y < x) BY <1>1 DEF OpToRel
<1> QED BY <1>2

\* A path that ends in a block of the chain is the chain.
LEMMA PathOnChain ==
    ASSUME TypeOK, ChainOK, NEW T, Tree(T), NEW n \in 0..(Len(chain) - 1), NEW k \in Nat,
           NEW p \in [0..k -> 0..mined], \A i \in 1..k : T[p[i]].parent = p[i - 1], p[k] = chain[n + 1].hash
    PROVE  \A j \in 0..k : j <= n /\ p[k - j] = chain[n + 1 - j].hash
<1>0. chain \in Seq(Block) /\ mined \in Nat /\ Len(chain) \in Nat BY DEF TypeOK
<1> DEFINE Off(j) == ~(j <= n /\ p[k - j] = chain[n + 1 - j].hash)
           S == {j \in 0..k : Off(j)}
<1>1. ASSUME S # {} PROVE FALSE
  <2>0. S \in SUBSET Nat OBVIOUS
  <2>1. PICK m \in S : \A j \in S : m <= j
    <3> HIDE DEF S
    <3> QED BY <1>1, <2>0, Smallest
  <2>2. m \in 0..k /\ Off(m) OBVIOUS
  <2>3. m # 0 BY <2>2
  <2>4. m - 1 \in 0..k /\ m - 1 \notin S
    <3>1. m - 1 \in 0..k /\ ~(m <= m - 1) BY <2>2, <2>3
    <3> HIDE DEF S
    <3> QED BY <2>1, <3>1
  <2>5. m - 1 <= n /\ p[k - (m - 1)] = chain[n + 1 - (m - 1)].hash BY <2>4
  <2> DEFINE c == n + 2 - m
             i == k + 1 - m
  <2>6. c \in 1..Len(chain) /\ i \in 1..k /\ i - 1 = k - m /\ n + 1 - (m - 1) = c /\ k - (m - 1) = i BY <1>0, <2>2, <2>3, <2>5
  <2>7. p[i] = chain[c].hash /\ p[i - 1] \in 0..mined BY <2>5, <2>6
  <2>8. chain[c] \in Known BY <1>0, <2>6 DEF Known, Blocks
  <2>9. T[chain[c].hash] = chain[c] BY <2>8 DEF Tree
  <2>10. chain[c].parent = p[i - 1] BY <2>6, <2>7, <2>9
  <2>11. c # 1
    <3>1. NoBlock.parent = -1 BY DEF NoBlock
    <3>2. chain[1] = NoBlock BY DEF ChainOK
    <3>3. PICK h \in Nat : h = p[i - 1] BY <1>0, <2>7
    <3>4. h # -1 BY <3>3
    <3> HIDE DEF c, i
    <3> QED BY <2>10, <3>1, <3>2, <3>3, <3>4
  <2>12. chain[c].parent = chain[c - 1].hash BY <2>6, <2>11 DEF ChainOK
  <2>13. m <= n /\ c - 1 = n + 1 - m BY <1>0, <2>2, <2>6, <2>11
  <2> QED BY <2>2, <2>6, <2>10, <2>12, <2>13
<1> QED BY <1>1

\* What is final stays so.
LEMMA FinalStays ==
    ASSUME TypeOK, HashInv, ChainOK, NEW n \in 0..(Len(chain) - 1), Mine(n), NEW c \in Block, Final(c) PROVE Final(c)'
<1>0. /\ c.number \in Nat /\ final \in Int /\ R \in Nat /\ n >= final
      /\ final' = IF n + 1 - R > final THEN n + 1 - R ELSE final
  BY RAssumption, BlockFields DEF TypeOK, Mine
<1>1. \A i \in 1..(n + 1) : chain'[i] = chain[i] BY MineKnown
<1>2. c.number <= final /\ chain[c.number + 1] = c BY DEF Final
<1>3. c.number + 1 \in 1..(n + 1) BY <1>0, <1>2
<1>4. chain'[c.number + 1] = c BY <1>1, <1>2, <1>3
<1>5. c.number <= final' BY <1>0, <1>2
<1> QED BY <1>4, <1>5 DEF Final

\* Mining adds a leaf to the tree: what it buries is on the chain.
LEMMA MineFinal ==
    ASSUME Inv, FinalInv, NEW n \in 0..(Len(chain) - 1), Mine(n)
    PROVE  ChainOK' /\ \E U : Tree(U)' /\ Buried(U)'
<1>0. /\ TypeOK /\ HashInv /\ ChainOK /\ chain \in Seq(Block) /\ Len(chain) \in Nat /\ mined \in Nat /\ R \in Nat
      /\ final \in Int /\ n >= final /\ final' = IF n + 1 - R > final THEN n + 1 - R ELSE final
  BY RAssumption DEF Inv, FinalInv, TypeOK, Mine
<1>1. PICK T : Tree(T) /\ Buried(T) BY DEF FinalInv
<1>2. PICK b \in Block :
        /\ b.number = n + 1 /\ b.hash = mined + 1 /\ b.parent = chain[n + 1].hash
        /\ Known' \subseteq Known \cup {b} /\ mined' = mined + 1
        /\ Len(chain') = n + 2 /\ chain'[n + 2] = b /\ \A i \in 1..(n + 1) : chain'[i] = chain[i]
  BY <1>0, MineKnown
<1>3. ChainOK'
  <2>1. chain'[1] = NoBlock /\ final' < Len(chain') BY <1>0, <1>2, SMTT(30) DEF ChainOK
  <2>2. ASSUME NEW i \in 2..Len(chain') PROVE chain'[i].parent = chain'[i - 1].hash
    <3>1. CASE i = n + 2 BY <1>2, <3>1
    <3>2. CASE i # n + 2
      <4>1. i \in 2..Len(chain) /\ i \in 1..(n + 1) /\ i - 1 \in 1..(n + 1) BY <1>0, <1>2, <3>2
      <4>2. chain[i].parent = chain[i - 1].hash BY <1>0, <4>1 DEF ChainOK
      <4> QED BY <1>2, <4>1, <4>2
    <3> QED BY <3>1, <3>2
  <2> QED BY <2>1, <2>2 DEF ChainOK
<1>4. PICK U : U \in [0..mined' -> Block] /\ U[mined + 1] = b /\ \A h \in 0..mined : U[h] = T[h]
  <2> DEFINE V == [h \in 0..(mined + 1) |-> IF h = mined + 1 THEN b ELSE T[h]]
  <2>1. V \in [0..mined' -> Block] /\ V[mined + 1] = b /\ \A h \in 0..mined : V[h] = T[h] BY <1>0, <1>1, <1>2 DEF Tree
  <2> QED BY <2>1
<1>a. chain[n + 1].hash \in 0..mined /\ \A h \in 0..mined : T[h].hash = h /\ T[h].parent <= mined /\ T[h].parent \in Int
  <2>1. n + 1 \in 1..Len(chain) BY <1>0
  <2>2. chain[n + 1] \in Known BY <1>0, <2>1 DEF Known, Blocks
  <2>3. \A h \in 0..mined : T[h] \in Block BY <1>1 DEF Tree
  <2> QED BY <1>1, <2>2, <2>3, BlockFields DEF Tree
<1>b. \A h \in 0..mined' : U[h].hash = h /\ U[h].parent <= mined /\ U[h].parent \in Int
  <2> SUFFICES ASSUME NEW h \in 0..mined' PROVE U[h].hash = h /\ U[h].parent <= mined /\ U[h].parent \in Int OBVIOUS
  <2>1. CASE h = mined + 1 BY <1>0, <1>2, <1>4, <1>a, <2>1
  <2>2. CASE h \in 0..mined BY <1>4, <1>a, <2>2
  <2> QED BY <1>0, <1>2, <2>1, <2>2
<1>5. Tree(U)'
  <2>1. \A h \in 0..mined' : U[h].hash = h /\ U[h].parent <= mined' BY <1>0, <1>2, <1>b
  <2>2. ASSUME NEW c \in Known' PROVE c.hash \in 0..mined' /\ c = U[c.hash]
    <3>1. CASE c = b BY <1>0, <1>2, <1>4, <3>1
    <3>2. CASE c \in Known
      <4>1. c.hash \in 0..mined /\ c = T[c.hash] BY <1>1, <3>2 DEF Tree
      <4> QED BY <1>0, <1>2, <1>4, <4>1
    <3> QED BY <1>2, <2>2, <3>1, <3>2
  <2> QED BY <1>4, <2>1, <2>2 DEF Tree
<1>6. ASSUME NEW p, Path(U, p)' PROVE Final(U[p[0]])'
  <2>1. p \in [0..R -> 0..mined'] /\ \A i \in 1..R : U[p[i]].parent = p[i - 1] BY <1>6 DEF Path
  <2>2. \A i \in 0..(R - 1) : p[i] \in 0..mined
    <3> SUFFICES ASSUME NEW i \in 0..(R - 1) PROVE p[i] \in 0..mined OBVIOUS
    <3>1. i + 1 \in 1..R /\ i + 1 \in 0..R /\ i \in 0..R BY <1>0
    <3>2. p[i] = U[p[i + 1]].parent /\ p[i + 1] \in 0..mined' /\ p[i] \in 0..mined' BY <1>0, <2>1, <3>1
    <3> QED BY <1>b, <3>2
  <2>3. CASE p[R] # mined + 1
    <3>1. p \in [0..R -> 0..mined]
      <4>1. \A i \in 0..R : p[i] \in 0..mined BY <1>0, <1>2, <2>1, <2>2, <2>3
      <4> QED BY <2>1, <4>1
    <3>2. Path(T, p) BY <1>0, <1>4, <2>1, <3>1 DEF Path
    <3>3. p[0] \in 0..mined
      <4>1. 0 \in 0..R BY <1>0
      <4> QED BY <3>1, <4>1
    <3>4. Final(T[p[0]])
      <4> HIDE DEF Path
      <4> QED BY <1>1, <3>2 DEF Buried
    <3>5. T[p[0]] = U[p[0]] BY <1>4, <3>3
    <3>6. T[p[0]] \in Block BY <1>1, <3>3 DEF Tree
    <3>7. Final(T[p[0]])' BY <1>0, <3>4, <3>6, FinalStays
    <3> QED BY <3>5, <3>7
  <2>4. CASE p[R] = mined + 1 /\ R = 0
    <3>1. U[p[0]] = b BY <1>4, <2>4
    <3> QED BY <1>0, <1>2, <2>4, <3>1 DEF Final
  <2>5. CASE p[R] = mined + 1 /\ R # 0
    <3> DEFINE k == R - 1
    <3>q. PICK q : q = [i \in 0..k |-> p[i]] OBVIOUS
    <3>1. k \in Nat /\ q \in [0..k -> 0..mined] /\ \A i \in 0..k : q[i] = p[i] BY <1>0, <2>2, <2>5, <3>q
    <3>2. q[k] = chain[n + 1].hash
      <4>1. p[R - 1] = U[p[R]].parent BY <1>0, <2>1, <2>5
      <4> QED BY <1>0, <1>2, <1>4, <2>5, <3>1, <4>1
    <3>3. \A i \in 1..k : T[q[i]].parent = q[i - 1]
      <4> SUFFICES ASSUME NEW i \in 1..k PROVE T[q[i]].parent = q[i - 1] OBVIOUS
      <4>1. i \in 0..k /\ i - 1 \in 0..k /\ i \in 1..R BY <1>0
      <4>2. q[i] = p[i] /\ q[i - 1] = p[i - 1] /\ p[i] \in 0..mined BY <2>2, <3>1, <4>1
      <4> QED BY <1>4, <2>1, <4>1, <4>2
    <3>4. \A j \in 0..k : j <= n /\ q[k - j] = chain[n + 1 - j].hash
      <4> HIDE DEF k
      <4>1. TypeOK /\ ChainOK /\ Tree(T) /\ k \in Nat /\ q \in [0..k -> 0..mined] BY <1>0, <1>1, <3>1
      <4> QED BY <4>1, <3>2, <3>3, PathOnChain, Zenon
    <3>5. k <= n /\ q[0] = chain[n + 1 - k].hash BY <3>1, <3>4
    <3>6. n + 1 - k \in 1..(n + 1) /\ n + 1 - k \in 1..Len(chain) BY <1>0, <3>1, <3>5
    <3>7. chain[n + 1 - k] \in Known BY <1>0, <3>6 DEF Known, Blocks
    <3>8. T[p[0]] = chain[n + 1 - k] /\ p[0] \in 0..mined BY <1>1, <3>1, <3>5, <3>7 DEF Tree
    <3>9. U[p[0]] = chain[n + 1 - k] BY <1>4, <3>8
    <3>10. chain[n + 1 - k].number = n - k BY <1>0, <3>6 DEF HashInv
    <3>11. chain'[n + 1 - k] = chain[n + 1 - k] BY <1>2, <3>6
    <3>12. n - k <= final' BY <1>0
    <3> QED BY <1>0, <3>1, <3>9, <3>10, <3>11, <3>12 DEF Final
  <2> QED BY <2>3, <2>4, <2>5
<1> QED BY <1>3, <1>5, <1>6 DEF Buried

\* A step that mines nothing leaves the tree, the chain and what is final alone.
LEMMA QuietFinal ==
    ASSUME Inv, FinalInv, [Next]_vars, ~ \E n \in 0..(Len(chain) - 1) : Mine(n)
    PROVE  /\ UNCHANGED <<chain, final>> /\ ChainOK'
           /\ \E T : Tree(T)' /\ Buried(T)'
<1>1. Known' \subseteq Known /\ UNCHANGED <<chain, final, mined>>
  <2>1. TypeOK BY DEF Inv
  <2>2. Known' \subseteq Known /\ UNCHANGED chainVars BY <2>1, KnownStep
  <2> QED BY <2>2 DEF chainVars
<1>2. PICK T : Tree(T) /\ Buried(T) BY DEF FinalInv
<1>3. Tree(T)' BY <1>1, <1>2 DEF Tree
<1>4. Buried(T)' BY <1>1, <1>2 DEF Buried, Path, Final
<1>5. ChainOK' BY <1>1 DEF FinalInv, ChainOK
<1> QED BY <1>1, <1>3, <1>4, <1>5

\* The oldest block of the view is final once there are more than R of them.
LEMMA EnoughFinal ==
    ASSUME Inv, FinalInv, Enough
    PROVE  Head(since) \in Block /\ Final(Head(since))
<1>0. since \in Seq(Block) /\ Len(since) \in Nat /\ Len(since) > R /\ R \in Nat /\ since # <<>> /\ mined \in Nat
  BY RAssumption DEF Inv, TypeOK, Enough
<1>1. PICK T : Tree(T) /\ Buried(T) BY DEF FinalInv
<1>2. \A i \in 1..Len(since) : since[i].hash \in 0..mined /\ T[since[i].hash] = since[i]
  <2> SUFFICES ASSUME NEW i \in 1..Len(since) PROVE since[i].hash \in 0..mined /\ T[since[i].hash] = since[i] OBVIOUS
  <2>1. since[i] \in Known BY DEF Known, Blocks
  <2> QED BY <1>1, <2>1 DEF Tree
<1>3. \A i \in 1..(Len(since) - 1) : since[i + 1].parent = since[i].hash
  <2>1. Linked(since) BY SinceLinked DEF Inv
  <2> QED BY <2>1 DEF Linked
<1>4. PICK p : p = [i \in 0..R |-> since[i + 1].hash] OBVIOUS
<1>5. p \in [0..R -> 0..mined]
  <2>1. \A i \in 0..R : i + 1 \in 1..Len(since) BY <1>0
  <2> QED BY <1>2, <1>4, <2>1
<1>6. ASSUME NEW i \in 1..R PROVE T[p[i]].parent = p[i - 1]
  <2>1. i \in 0..R /\ i - 1 \in 0..R /\ i + 1 \in 1..Len(since) /\ i \in 1..(Len(since) - 1) /\ (i - 1) + 1 = i BY <1>0
  <2>2. p[i] = since[i + 1].hash /\ p[i - 1] = since[i].hash BY <1>4, <2>1
  <2>3. T[p[i]] = since[i + 1] BY <1>2, <2>1, <2>2
  <2> QED BY <1>3, <2>1, <2>2, <2>3
<1>7. Path(T, p) BY <1>5, <1>6 DEF Path
<1>8. T[p[0]] = since[1]
  <2>1. 0 \in 0..R /\ 1 \in 1..Len(since) /\ 0 + 1 = 1 BY <1>0
  <2>2. p[0] = since[1].hash BY <1>4, <2>1
  <2> QED BY <1>2, <2>1, <2>2
<1>9. Final(T[p[0]]) BY <1>1, <1>7 DEF Buried
<1>10. Head(since) = since[1] /\ since[1] \in Block BY <1>0
<1> QED BY <1>8, <1>9, <1>10

\* What is handed on is final when it is taken from the view, and stays so.
LEMMA FinalStep == Inv /\ FinalInv /\ [Next]_vars => FinalInv'
<1> SUFFICES ASSUME Inv, FinalInv, [Next]_vars PROVE FinalInv' OBVIOUS
<1>0. TypeOK /\ HashInv /\ ChainOK /\ SentFinal /\ channel \in Seq(Block) /\ consumed \subseteq Block /\ got \in Block
  BY DEF Inv, FinalInv, TypeOK
<1>1. ASSUME NEW n \in 0..(Len(chain) - 1), Mine(n) PROVE FinalInv'
  <2>1. ChainOK' /\ \E U : Tree(U)' /\ Buried(U)' BY <1>1, MineFinal
  <2>2. UNCHANGED <<pc, got, channel, consumed>> BY <1>1 DEF Mine, dispVars, outVars
  <2>3. \A c \in Block : Final(c) => Final(c)' BY <1>0, <1>1, FinalStays
  <2>4. Blocks(channel) \subseteq Block BY <1>0, BlocksOf
  <2>5. (pc = "send")' => Final(got)'
    <3> SUFFICES ASSUME pc = "send" PROVE Final(got)' BY <2>2
    <3>1. Final(got) BY <1>0 DEF SentFinal
    <3>2. PICK c \in Block : c = got BY <1>0
    <3>3. Final(c)' BY <2>3, <3>1, <3>2
    <3> QED BY <2>2, <3>2, <3>3 DEF Final
  <2>6. \A b \in (Blocks(channel) \cup consumed)' : Final(b)'
    <3> SUFFICES ASSUME NEW b \in Blocks(channel) \cup consumed PROVE Final(b)' BY <2>2 DEF Blocks
    <3>1. b \in Block /\ Final(b) BY <1>0, <2>4 DEF SentFinal
    <3> QED BY <2>3, <3>1
  <2>7. SentFinal' BY <2>5, <2>6 DEF SentFinal
  <2> QED BY <2>1, <2>7 DEF FinalInv
<1>2. ASSUME ~ \E n \in 0..(Len(chain) - 1) : Mine(n) PROVE FinalInv'
  <2>1. /\ UNCHANGED <<chain, final>> /\ ChainOK'
        /\ \E T : Tree(T)' /\ Buried(T)'
    BY <1>2, QuietFinal
  <2>a. \A b : Final(b) => Final(b)' BY <2>1 DEF Final
  <2>2. ASSUME /\ pc' = "send" => (pc = "send" /\ got' = got) \/ Final(got')
               /\ Blocks(channel') \cup consumed' \subseteq Blocks(channel) \cup consumed \cup (IF pc = "send" THEN {got} ELSE {})
        PROVE  FinalInv'
    <3>1. (pc = "send")' => Final(got)' BY <1>0, <2>1, <2>2 DEF SentFinal, Final
    <3>2. \A b \in Blocks(channel)' \cup consumed' : Final(b)' BY <1>0, <2>a, <2>2 DEF SentFinal, Blocks
    <3>3. SentFinal' BY <3>1, <3>2 DEF SentFinal
    <3> QED BY <2>1, <3>3 DEF FinalInv
  <2>3. CASE DispatchConfirmed
    <3>1. UNCHANGED <<channel, consumed>> BY <2>3 DEF DispatchConfirmed, outVars
    <3>2. CASE Enough
      <4>1. got' = Head(since) BY <2>3, <3>2 DEF DispatchConfirmed
      <4>2. Final(got') BY <3>2, <4>1, EnoughFinal
      <4> QED BY <2>2, <3>1, <4>2
    <3>3. CASE ~Enough BY <2>2, <2>3, <3>1, <3>3 DEF DispatchConfirmed
    <3> QED BY <3>2, <3>3
  <2>4. CASE SendBlock
    <3>1. pc = "send" /\ pc' = "dispatch" /\ channel' = Append(channel, got) /\ UNCHANGED consumed
      BY <2>4 DEF SendBlock, outVars
    <3>2. Blocks(channel') = Blocks(channel) \cup {got} BY <1>0, <3>1, BlocksAppend
    <3> QED BY <2>2, <3>1, <3>2
  <2>5. CASE Consume \/ BatchCancelled
    <3>1. /\ UNCHANGED <<pc, got>> /\ channel # <<>> /\ channel' = Tail(channel)
          /\ consumed' \subseteq consumed \cup {Head(channel)}
      BY <2>5 DEF Consume, BatchCancelled, dispVars, outVars
    <3>2. Head(channel) \in Blocks(channel) /\ Blocks(channel') \subseteq Blocks(channel) BY <1>0, <3>1, BlocksOf
    <3> QED BY <2>2, <3>1, <3>2
  <2>6. CASE Crash
    <3>1. pc' = "done" /\ channel' = <<>> /\ consumed' = consumed BY <2>6 DEF Crash
    <3>2. Blocks(channel') = {} BY <1>0, <3>1, BlocksOf
    <3> QED BY <2>2, <3>1, <3>2
  <2>7. CASE Renotify \/ ProcessBlock \/ NotificationLost \/ StopRequest \/ WriteCheckpoint \/ UNCHANGED vars
    <3>1. UNCHANGED <<pc, got, channel, consumed>>
      BY <2>7 DEF Renotify, ProcessBlock, NotificationLost, StopRequest, WriteCheckpoint, dispVars, outVars, vars
    <3> QED BY <2>2, <3>1
  <2>8. CASE \/ DispatchBegin \/ WaitForTap \/ ReadNextBlock \/ QueryBlock \/ AttachBlock \/ QueryFail
             \/ SendCancelled \/ Start \/ Stopped
    <3>1. pc' # "send" /\ UNCHANGED <<channel, consumed>>
      BY <2>8 DEF DispatchBegin, WaitForTap, ReadNextBlock, QueryBlock, AttachBlock, PopDispatched, QueryFail,
         SendCancelled, Start, Stopped, outVars
    <3> QED BY <2>2, <3>1
  <2> QED BY <1>2, <2>3, <2>4, <2>5, <2>6, <2>7, <2>8 DEF Next, Dispatch
<1> QED BY <1>1, <1>2

LEMMA FinalInit == Init => FinalInv
<1> SUFFICES ASSUME Init PROVE FinalInv OBVIOUS
<1>1. /\ chain = <<NoBlock>> /\ mined = 0 /\ final = 0 - R /\ R \in Nat /\ channel = <<>> /\ consumed = {}
      /\ notes = <<>> /\ since = <<>> /\ newHead = <<>> /\ got = NoBlock /\ pc = "done"
  BY RAssumption DEF Init
<1>2. NoBlock \in Block /\ NoBlock.hash = 0 /\ NoBlock.number = 0 /\ NoBlock.parent = -1 BY DEF NoBlock, Block
<1>3. ChainOK
  <2>1. Len(chain) = 1 /\ chain[1] = NoBlock BY <1>1
  <2> QED BY <1>1, <2>1 DEF ChainOK
<1>4. Blocks(<<NoBlock>>) = {NoBlock} /\ Blocks(<<>>) = {} BY DEF Blocks
<1>5. SentFinal BY <1>1, <1>4 DEF SentFinal
<1>6. Known = {NoBlock} BY <1>1, <1>4 DEF Known
<1>7. PICK T : T = [h \in 0..0 |-> NoBlock] OBVIOUS
<1>8. T \in [0..mined -> Block] /\ \A h \in 0..mined : h = 0 /\ T[h] = NoBlock
  BY <1>1, <1>2, <1>7
<1>9. Tree(T)
  <2>1. 0 \in 0..mined BY <1>1
  <2> QED BY <1>1, <1>2, <1>6, <1>8, <2>1 DEF Tree
<1>10. ASSUME NEW p, Path(T, p) PROVE Final(T[p[0]])
  <2>1. p \in [0..R -> 0..mined] /\ \A i \in 1..R : T[p[i]].parent = p[i - 1] BY <1>10 DEF Path
  <2>2. CASE R = 0
    <3>1. T[p[0]] = NoBlock BY <1>8, <2>1, <2>2
    <3>2. final = 0 /\ chain[0 + 1] = NoBlock BY <1>1, <2>2
    <3> QED BY <1>2, <3>1, <3>2 DEF Final
  <2>3. CASE R # 0
    <3>1. 1 \in 1..R /\ 1 \in 0..R /\ 0 \in 0..R BY <1>1, <2>3
    <3>2. p[1] \in 0..mined /\ p[0] \in 0..mined BY <2>1, <3>1
    <3>3. T[p[1]].parent = p[1 - 1] BY <2>1, <3>1
    <3> QED BY <1>1, <1>2, <1>8, <3>2, <3>3
  <2> QED BY <2>2, <2>3
<1> QED BY <1>3, <1>5, <1>9, <1>10 DEF FinalInv, Buried

\* Only final blocks are delivered and they stay on the node's chain: whatever
\* fork the view followed through notifications, queries and reorganisations,
\* dispatchAllConfirmed takes a block from it only when it can no longer change.
THEOREM DeliveredCorrect == Spec => []DeliveredFinal
<1>1. Init => Inv /\ FinalInv BY InvInit, FinalInit
<1>2. Inv /\ FinalInv /\ [Next]_vars => Inv' /\ FinalInv' BY InvStep, FinalStep
<1>3. FinalInv => DeliveredFinal BY DEF FinalInv, SentFinal, Final, DeliveredFinal
<1> QED BY <1>1, <1>2, <1>3, PTL DEF Spec

(***************************************************************************)
(* No block is left out                                                    *)
(***************************************************************************)

\* The numbers that have left the channel, for the application or for nothing.
Out == Numbers(consumed) \cup dropped

\* The event stream delivers a block of this number, as no repetition.
Ahead(n) == acked = None \/ n > acked

\* One of the first k blocks of the channel has the number.
Sent(n, k) == \E j \in 1..k : channel[j].number = n

\* The block may be delivered after the first k blocks of the channel.
Served(n, k) == n \in begins \/ n - 1 \in Out \/ Sent(n - 1, k)

\* Whatever is behind the acknowledged checkpoint may repeat; ahead of it every
\* block follows its predecessor through the channel, and the dispatcher's own
\* checkpoint is a block that has been handed on.
FlowInv ==
    /\ NoGap
    /\ acked # None => acked \in Numbers(consumed)
    /\ saved # None => saved \in Numbers(consumed)
    /\ \A i \in 1..Len(channel) :
         Ahead(channel[i].number) => Served(channel[i].number, i - 1)
    /\ pc = "send" => /\ checkpoint = got.number
                      /\ Ahead(got.number) => Served(got.number, Len(channel))
    /\ mode # "off" /\ checkpoint # None /\ (acked = None \/ checkpoint >= acked) =>
         checkpoint \in Out \/ Sent(checkpoint, Len(channel)) \/ pc = "send"

\* A step that moves no block.
LEMMA FlowFrame ==
    ASSUME FlowInv, UNCHANGED <<channel, acked, saved, consumed, dropped, checkpoint>>, begins \subseteq begins',
           pc' = "send" => pc = "send" /\ got' = got,
           mode' # "off" => mode # "off" /\ (pc = "send" => pc' = "send")
    PROVE  FlowInv'
<1>1. \A n, k : /\ Served(n, k) => Served(n, k)'
                /\ Ahead(n)' <=> Ahead(n)
                /\ Sent(n, k)' <=> Sent(n, k)
  BY DEF Served, Ahead, Sent, Out
<1>2. Out' = Out BY DEF Out, Numbers
<1>3. NoGap' BY DEF FlowInv, NoGap, Numbers
<1> HIDE DEF Served, Ahead, Sent, Out, Numbers
<1> QED BY <1>1, <1>2, <1>3 DEF FlowInv

\* The dispatcher takes the block after its checkpoint, or one without a checkpoint.
LEMMA FlowDispatch ==
    ASSUME Inv, FlowInv, DispatchConfirmed PROVE FlowInv'
<1>0. /\ TypeOK /\ mode # "off" /\ pc = "dispatch" /\ UNCHANGED <<channel, acked, saved, consumed, dropped, mode>>
      /\ begins \subseteq begins' /\ checkpoint \in Nat \cup {None} /\ acked \in Nat \cup {None}
  BY DEF Inv, LoopInv, DispatchConfirmed, outVars, runVars, TypeOK
<1>1. CASE ~Enough BY <1>0, <1>1, FlowFrame DEF DispatchConfirmed
<1>2. CASE Enough
  <2>1. since \in Seq(Block) /\ since # <<>> BY <1>0, <1>2, RAssumption DEF Enough, TypeOK
  <2>2. Head(since) = View[1] /\ View # <<>> BY <1>0, <2>1, ViewType, SeqEnds
  <2>3. PICK h \in Nat : h = Head(since).number BY <1>0, <2>2, FirstType
  <2>4. /\ got'.number = h /\ checkpoint' = h /\ pc' = "send"
        /\ checkpoint = None => h \in begins'
    BY <1>2, <2>3 DEF DispatchConfirmed
  <2>5. checkpoint # None => h = checkpoint + 1 BY <2>2, <2>3 DEF Inv, ViewLinked
  <2>6. Ahead(h)' => Served(h, Len(channel))'
    <3> SUFFICES ASSUME acked = None \/ h > acked, checkpoint # None PROVE Served(h, Len(channel))'
      BY <1>0, <2>4 DEF Ahead, Served
    <3>1. h - 1 = checkpoint /\ (acked = None \/ checkpoint >= acked) BY <1>0, <2>5
    <3>2. checkpoint \in Out \/ Sent(checkpoint, Len(channel)) BY <1>0, <3>1 DEF FlowInv
    <3>3. Out' = Out /\ (Sent(checkpoint, Len(channel)) => \E j \in 1..Len(channel) : channel[j].number = checkpoint) BY <1>0 DEF Out, Numbers, Sent
    <3> QED BY <1>0, <3>1, <3>2, <3>3 DEF Served, Sent
  <2>7. \A n, k : /\ Served(n, k) => Served(n, k)'
                  /\ Ahead(n)' <=> Ahead(n)
    BY <1>0 DEF Served, Ahead, Sent, Out
  <2>8. NoGap' BY <1>0 DEF FlowInv, NoGap, Numbers
  <2> HIDE DEF Served, Ahead, Sent, Out, Numbers
  <2> QED BY <1>0, <2>4, <2>6, <2>7, <2>8 DEF FlowInv
<1> QED BY <1>1, <1>2

\* The block goes to the end of the channel, behind its predecessor.
LEMMA FlowSend ==
    ASSUME TypeOK, FlowInv, SendBlock PROVE FlowInv'
<1>0. /\ pc = "send" /\ pc' = "dispatch" /\ channel' = Append(channel, got) /\ channel \in Seq(Block)
      /\ UNCHANGED <<acked, saved, consumed, dropped, begins, mode, checkpoint>>
  BY DEF SendBlock, outVars, histVars, runVars, viewVars, TypeOK
<1>1. PICK m \in Nat : m = Len(channel) BY <1>0
<1>2. Len(channel') = m + 1 /\ channel'[m + 1] = got /\ \A i \in 1..m : channel'[i] = channel[i] BY <1>0, <1>1
<1>3. \A n : \A k \in 0..m : Sent(n, k) => Sent(n, k)' BY <1>1, <1>2 DEF Sent
<1>4. Out' = Out /\ \A n : Ahead(n)' <=> Ahead(n) BY <1>0 DEF Out, Numbers, Ahead
<1>5. \A n : \A k \in 0..m : Served(n, k) => Served(n, k)' BY <1>0, <1>3, <1>4 DEF Served
<1>6. ASSUME NEW i \in 1..Len(channel'), Ahead(channel[i].number)' PROVE Served(channel[i].number, i - 1)'
  <2>1. CASE i = m + 1
    <3>1. Ahead(got.number) BY <1>2, <1>4, <1>6, <2>1
    <3>2. Served(got.number, m) BY <1>0, <1>1, <3>1 DEF FlowInv
    <3>3. m \in 0..m /\ i - 1 = m BY <2>1
    <3>4. Served(got.number, m)
       /\ \A n : Served(n, m) => Served(n, m)' BY <1>5, <3>2, <3>3
    <3>5. PICK n : n = got.number OBVIOUS
    <3>6. Served(n, m)' BY <3>4, <3>5
    <3> QED BY <1>2, <2>1, <3>3, <3>5, <3>6
  <2>2. CASE i \in 1..m
    <3>1. PICK n : n = channel[i].number OBVIOUS
    <3>2. channel'[i].number = n /\ Ahead(n) BY <1>2, <1>4, <1>6, <2>2, <3>1
    <3>3. Served(n, i - 1) /\ i - 1 \in 0..m BY <1>1, <2>2, <3>1, <3>2 DEF FlowInv
    <3>4. Served(n, i - 1)' BY <1>5, <3>3
    <3> QED BY <3>2, <3>4
  <2> QED BY <1>1, <1>2, <2>1, <2>2
<1>7. Sent(checkpoint, Len(channel))'
  <2>1. checkpoint = got.number BY <1>0 DEF FlowInv
  <2>2. m + 1 \in 1..(m + 1) OBVIOUS
  <2> QED BY <1>0, <1>2, <2>1, <2>2 DEF Sent
<1>8. NoGap' BY <1>0 DEF FlowInv, NoGap, Numbers
<1>9. /\ acked' # None => acked' \in Numbers(consumed')
      /\ saved' # None => saved' \in Numbers(consumed')
  BY <1>0 DEF FlowInv
<1> QED BY <1>0, <1>6, <1>7, <1>8, <1>9 DEF FlowInv

\* The first block leaves the channel, delivered, thrown away or a repetition.
LEMMA FlowHead ==
    ASSUME TypeOK, FlowInv, channel # <<>>, channel' = Tail(channel), NoGap',
           UNCHANGED <<pc, got, checkpoint, begins, saved>>, mode # "off", consumed \subseteq consumed', dropped \subseteq dropped',
           \/ Head(channel).number \in Out'
           \/ acked # None /\ Head(channel).number <= acked,
           acked' = acked \/ (Ahead(Head(channel).number) /\ acked' = Head(channel).number /\ Head(channel) \in consumed')
    PROVE  FlowInv'
<1>0. /\ channel \in Seq(Block) /\ acked \in Nat \cup {None} /\ checkpoint \in Nat \cup {None} /\ got \in Block /\ got.number \in Nat
  BY BlockFields DEF TypeOK
<1>1. PICK m \in Nat : m = Len(channel) - 1
  <2>1. Len(channel) \in Nat /\ Len(channel) # 0 BY <1>0
  <2> QED BY <2>1
<1>2. Len(channel') = m /\ Head(channel) = channel[1] /\ \A i \in 1..m : channel'[i] = channel[i + 1]
  BY <1>0, <1>1, SeqEnds
<1>3. \A i \in 1..(m + 1) : channel[i] \in Block /\ channel[i].number \in Nat
  <2>1. \A i \in 1..(m + 1) : channel[i] \in Block BY <1>0, <1>1
  <2> QED BY <2>1, BlockFields
<1>4. PICK h \in Nat : h = Head(channel).number BY <1>1, <1>2, <1>3
<1>5. acked' \in Nat \cup {None} /\ Out \subseteq Out' /\ (acked' = acked \/ (acked' = h /\ (acked = None \/ h > acked)))
  BY <1>0, <1>4 DEF Out, Numbers, Ahead
<1>6. ASSUME NEW n \in Nat, NEW k \in 0..m, Sent(n, k + 1), acked' = None \/ n >= acked' PROVE n \in Out' \/ Sent(n, k)'
  <2>1. PICK j \in 1..(k + 1) : channel[j].number = n BY <1>6 DEF Sent
  <2>2. CASE j = 1
    <3>1. n = h BY <1>2, <1>4, <2>1, <2>2
    <3>2. CASE h \in Out' BY <3>1, <3>2
    <3>3. CASE h \notin Out'
      <4>1. acked # None /\ h <= acked BY <1>4, <3>3
      <4>2. acked' = acked BY <1>0, <1>4, <1>5, <4>1
      <4>3. n = acked BY <1>0, <1>6, <3>1, <4>1, <4>2
      <4>4. acked \in Out BY <4>1 DEF FlowInv, Out
      <4> QED BY <1>5, <4>3, <4>4
    <3> QED BY <3>2, <3>3
  <2>3. CASE j # 1
    <3>1. j - 1 \in 1..k /\ j - 1 \in 1..m /\ (j - 1) + 1 = j BY <1>1, <2>3
    <3>2. channel'[j - 1].number = n BY <1>2, <2>1, <3>1
    <3> QED BY <3>1, <3>2 DEF Sent
  <2> QED BY <2>2, <2>3
<1>7. ASSUME NEW n \in Nat, NEW k \in 0..m, Ahead(n)', Ahead(n) => Served(n, k + 1) PROVE Served(n, k)'
  <2>1. Ahead(n) BY <1>0, <1>5, <1>7 DEF Ahead, None
  <2>2. n \in begins \/ n - 1 \in Out \/ Sent(n - 1, k + 1) BY <1>7, <2>1 DEF Served
  <2>3. CASE n \in begins BY <2>3 DEF Served
  <2>4. CASE n - 1 \in Out BY <1>5, <2>4 DEF Served
  <2>5. CASE Sent(n - 1, k + 1)
    <3>1. PICK j \in 1..(k + 1) : channel[j].number = n - 1 BY <2>5 DEF Sent
    <3>2. n - 1 \in Nat BY <1>1, <1>3, <3>1
    <3>3. acked' = None \/ n - 1 >= acked' BY <1>5, <1>7 DEF Ahead
    <3>4. PICK l \in Nat : l = n - 1 BY <3>2
    <3>5. l \in Out' \/ Sent(l, k)' BY <1>6, <2>5, <3>3, <3>4
    <3> QED BY <3>4, <3>5 DEF Served
  <2> QED BY <2>2, <2>3, <2>4, <2>5
<1>8. ASSUME NEW i \in 1..Len(channel'), Ahead(channel[i].number)' PROVE Served(channel[i].number, i - 1)'
  <2>1. i \in 1..m /\ i + 1 \in 1..(m + 1) /\ i - 1 \in 0..m /\ (i + 1) - 1 = (i - 1) + 1 BY <1>1, <1>2
  <2>2. PICK n \in Nat : n = channel[i + 1].number BY <1>3, <2>1
  <2>3. channel'[i].number = n BY <1>2, <2>1, <2>2
  <2>4. Ahead(n)' BY <1>8, <2>3
  <2>5. Ahead(n) => Served(n, (i - 1) + 1) BY <1>1, <2>1, <2>2 DEF FlowInv
  <2>6. Served(n, i - 1)' BY <1>7, <2>1, <2>4, <2>5
  <2> QED BY <2>3, <2>6
<1>9. (pc = "send")' => /\ (checkpoint = got.number)'
                        /\ Ahead(got.number)' => Served(got.number, Len(channel))'
  <2> SUFFICES ASSUME (pc = "send")'
               PROVE  /\ (checkpoint = got.number)'
                      /\ Ahead(got.number)' => Served(got.number, Len(channel))'
    OBVIOUS
  <2>1. pc = "send" /\ got' = got /\ checkpoint = got.number BY DEF FlowInv
  <2>2. PICK n \in Nat : n = got.number BY <1>0
  <2>3. Ahead(n) => Served(n, m + 1) BY <1>1, <2>2 DEF FlowInv
  <2>4. m \in 0..m OBVIOUS
  <2>5. Ahead(n)' => Served(n, m)' BY <1>7, <2>3, <2>4
  <2> QED BY <1>2, <2>1, <2>2, <2>5
<1>10. ASSUME mode' # "off", checkpoint # None, acked' = None \/ checkpoint >= acked', pc # "send"
       PROVE  checkpoint \in Out' \/ Sent(checkpoint, Len(channel))'
  <2>1. acked = None \/ checkpoint >= acked BY <1>0, <1>5, <1>10 DEF None
  <2>2. checkpoint \in Out \/ Sent(checkpoint, m + 1) BY <1>1, <1>10, <2>1 DEF FlowInv
  <2>3. PICK n \in Nat : n = checkpoint BY <1>0, <1>10
  <2>4. m \in 0..m OBVIOUS
  <2>5. n \in Out' \/ Sent(n, m)' BY <1>5, <1>6, <1>10, <2>2, <2>3, <2>4
  <2> QED BY <1>2, <2>3, <2>5
<1>11. /\ acked' # None => acked' \in Numbers(consumed')
       /\ saved' # None => saved' \in Numbers(consumed')
  BY DEF FlowInv, Numbers
<1> QED BY <1>8, <1>9, <1>10, <1>11 DEF FlowInv

\* Every step keeps the blocks in order.
LEMMA FlowStep == Inv /\ FlowInv /\ [Next]_vars => FlowInv'
<1> SUFFICES ASSUME Inv, FlowInv, [Next]_vars PROVE FlowInv' OBVIOUS
<1>0. /\ TypeOK /\ LoopInv /\ channel \in Seq(Block) /\ acked \in Nat \cup {None} BY DEF Inv, TypeOK
<1>1. ASSUME NEW n \in 0..(Len(chain) - 1), Mine(n) PROVE FlowInv'
  BY <1>1, FlowFrame DEF Mine, runVars, viewVars, dispVars, outVars, histVars
<1>2. CASE Renotify \/ ProcessBlock \/ NotificationLost \/ StopRequest \/ UNCHANGED vars
  <2>1. UNCHANGED <<channel, acked, saved, consumed, dropped, begins, checkpoint, pc, got>> /\ (mode' # "off" => mode # "off")
    BY <1>2 DEF Renotify, ProcessBlock, NotificationLost, StopRequest, vars, runVars, viewVars, dispVars, outVars, histVars
  <2> QED BY <2>1, FlowFrame
<1>3. CASE \/ DispatchBegin \/ WaitForTap \/ ReadNextBlock \/ QueryBlock \/ AttachBlock \/ QueryFail \/ Stopped
  <2>1. /\ UNCHANGED <<channel, acked, saved, consumed, dropped, begins, checkpoint>>
        /\ pc # "send" /\ pc' # "send" /\ (mode' # "off" => mode # "off")
    BY <1>3 DEF DispatchBegin, WaitForTap, ReadNextBlock, QueryBlock, AttachBlock, PopDispatched, QueryFail, Stopped,
       runVars, viewVars, outVars, histVars
  <2> QED BY <2>1, FlowFrame
<1>4. CASE DispatchConfirmed BY <1>4, FlowDispatch
<1>5. CASE SendBlock BY <1>0, <1>5, FlowSend
<1>6. CASE SendCancelled
  <2>1. /\ pc = "send" /\ pc' = "dispatch" /\ dropped' = dropped \cup {got.number}
        /\ UNCHANGED <<channel, acked, saved, consumed, begins, checkpoint, mode>>
    BY <1>6 DEF SendCancelled, runVars, viewVars, outVars
  <2>2. checkpoint = got.number BY <2>1 DEF FlowInv
  <2>3. Out \subseteq Out' /\ checkpoint' \in Out' BY <2>1, <2>2 DEF Out, Numbers
  <2>4. \A n, k : (Ahead(n)' <=> Ahead(n)) /\ (Sent(n, k)' <=> Sent(n, k)) BY <2>1 DEF Ahead, Sent
  <2>5. \A n, k : Served(n, k) => Served(n, k)' BY <2>1, <2>3, <2>4 DEF Served
  <2>6. NoGap' BY <2>1, <2>3 DEF FlowInv, NoGap, Numbers, Out
  <2> HIDE DEF Served, Ahead, Sent, Out, Numbers
  <2> QED BY <2>1, <2>3, <2>4, <2>5, <2>6 DEF FlowInv
<1>7. CASE Start
  <2>1. /\ pc' = "begin" /\ checkpoint' = saved
        /\ UNCHANGED <<channel, acked, saved, consumed, dropped, begins>>
    BY <1>7 DEF Start, outVars, histVars
  <2>2. Out' = Out /\ (saved # None => saved \in Out) BY <2>1 DEF FlowInv, Out, Numbers
  <2>3. \A n, k : (Ahead(n)' <=> Ahead(n)) /\ (Served(n, k)' <=> Served(n, k)) BY <2>1, <2>2 DEF Ahead, Sent, Served
  <2>4. NoGap' BY <2>1 DEF FlowInv, NoGap, Numbers
  <2> HIDE DEF Served, Ahead, Sent, Out, Numbers
  <2> QED BY <2>1, <2>2, <2>3, <2>4 DEF FlowInv
<1>8. CASE Crash
  <2>1. /\ pc' = "done" /\ mode' = "off" /\ channel' = <<>> /\ acked' = None
        /\ UNCHANGED <<saved, consumed, dropped, begins>>
    BY <1>8 DEF Crash, histVars
  <2>2. 1..Len(channel') = {} BY <2>1
  <2>3. NoGap' BY <2>1 DEF FlowInv, NoGap, Numbers
  <2> HIDE DEF Served, Ahead, Sent, Out, Numbers
  <2> QED BY <2>1, <2>2, <2>3 DEF FlowInv
<1>9. CASE Consume
  <2>1. /\ channel # <<>> /\ channel' = Tail(channel) /\ mode # "off"
        /\ UNCHANGED <<pc, got, checkpoint, begins, saved, dropped>>
    BY <1>9 DEF Consume, dispVars, viewVars, histVars
  <2>2. PICK b \in Block : b = Head(channel) /\ b = channel[1] /\ b.number \in Nat
    BY <1>0, <2>1, SeqEnds, BlockFields
  <2>3. CASE acked # None /\ b.number <= acked
    <3>1. UNCHANGED <<acked, consumed>> BY <1>9, <2>2, <2>3 DEF Consume
    <3>2. NoGap' BY <2>1, <3>1 DEF FlowInv, NoGap, Numbers
    <3> QED BY <1>0, <2>1, <2>2, <2>3, <3>1, <3>2, FlowHead
  <2>4. CASE ~(acked # None /\ b.number <= acked)
    <3>1. acked' = b.number /\ consumed' = consumed \cup {b} BY <1>9, <2>2, <2>4 DEF Consume
    <3>2. Ahead(b.number) BY <1>0, <2>2, <2>4 DEF Ahead
    <3>3. Numbers(consumed') = Numbers(consumed) \cup {b.number} BY <3>1 DEF Numbers
    <3>4. Served(b.number, 1 - 1)
      <4>1. 1 \in 1..Len(channel) BY <1>0, <2>1
      <4> QED BY <2>2, <3>2, <4>1 DEF FlowInv
    <3>5. b.number \in begins \/ b.number - 1 \in Numbers(consumed) \cup dropped
      <4>1. ~Sent(b.number - 1, 1 - 1) BY DEF Sent
      <4> QED BY <3>4, <4>1 DEF Served, Out
    <3>6. NoGap' BY <2>1, <3>1, <3>3, <3>5 DEF FlowInv, NoGap
    <3>7. b.number \in Out' BY <3>3 DEF Out
    <3>8. consumed \subseteq consumed' /\ Head(channel) \in consumed' /\ dropped \subseteq dropped' BY <2>1, <2>2, <3>1
    <3> QED BY <1>0, <2>1, <2>2, <3>1, <3>2, <3>6, <3>7, <3>8, FlowHead
  <2> QED BY <2>3, <2>4
<1>10. CASE BatchCancelled
  <2>1. /\ channel # <<>> /\ channel' = Tail(channel) /\ mode # "off" /\ dropped' = dropped \cup {Head(channel).number}
        /\ UNCHANGED <<pc, got, checkpoint, begins, saved, acked, consumed>>
    BY <1>10 DEF BatchCancelled, dispVars, viewVars, outVars
  <2>2. NoGap' BY <2>1 DEF FlowInv, NoGap, Numbers
  <2>3. Head(channel).number \in Out' BY <2>1 DEF Out
  <2>4. consumed \subseteq consumed' /\ dropped \subseteq dropped' BY <2>1
  <2> QED BY <1>0, <2>1, <2>2, <2>3, <2>4, FlowHead
<1>11. CASE WriteCheckpoint
  <2>1. /\ saved' = acked
        /\ UNCHANGED <<channel, acked, consumed, dropped, begins, checkpoint, pc, got, mode>>
    BY <1>11 DEF WriteCheckpoint, runVars, viewVars, dispVars, histVars
  <2>2. Out' = Out BY <2>1 DEF Out, Numbers
  <2>3. \A n, k : /\ Ahead(n)' <=> Ahead(n)
                  /\ Served(n, k)' <=> Served(n, k)
                  /\ Sent(n, k)' <=> Sent(n, k)
    BY <2>1, <2>2 DEF Ahead, Sent, Served
  <2>4. NoGap' BY <2>1 DEF FlowInv, NoGap, Numbers
  <2>5. saved' # None => saved' \in Numbers(consumed') BY <2>1 DEF FlowInv
  <2> HIDE DEF Served, Ahead, Sent, Out, Numbers
  <2> QED BY <2>1, <2>2, <2>3, <2>4, <2>5 DEF FlowInv
<1> QED
  BY <1>1, <1>2, <1>3, <1>4, <1>5, <1>6, <1>7, <1>8, <1>9, <1>10, <1>11 DEF Next, Dispatch

LEMMA FlowInit == Init => FlowInv
<1> SUFFICES ASSUME Init PROVE FlowInv OBVIOUS
<1>1. /\ channel = <<>> /\ consumed = {} /\ acked = None /\ saved = None /\ pc = "done" /\ mode = "off"
  BY DEF Init
<1>2. 1..Len(channel) = {} BY <1>1
<1>3. NoGap BY <1>1 DEF NoGap
<1> HIDE DEF Served, Ahead, Sent, Out, Numbers
<1> QED BY <1>1, <1>2, <1>3 DEF FlowInv

\* Over lost notifications, reorganisations, repeated deliveries after a crash,
\* restarts from a stored checkpoint and checkpoints that were overwritten, every
\* block the event stream delivers has its predecessor delivered or dropped by a
\* stop, unless it is the first block of a session that found no checkpoint.
THEOREM GapsCorrect == Spec => []NoGap
<1>1. Init => Inv /\ FlowInv BY InvInit, FlowInit
<1>2. Inv /\ FlowInv /\ [Next]_vars => Inv' /\ FlowInv' BY InvStep, FlowStep
<1>3. FlowInv => NoGap BY DEF FlowInv
<1> QED BY <1>1, <1>2, <1>3, PTL DEF Spec

=============================================================================
