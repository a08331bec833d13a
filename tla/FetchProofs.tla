---------------------------- MODULE FetchProofs -----------------------------
(***************************************************************************)
(* Proofs about Fetch for every tree of blocks, every set of peers and     *)
(* every setting.                                                          *)
(***************************************************************************)
EXTENDS Fetch, BlockTreeProofs

LEMMA FetchTree == IsTree
BY FetchAssumption DEF IsTree

\* Blocks other than the genesis block are at heights from 1 on.
LEMMA FetchHeight ==
    ASSUME NEW b \in Block
    PROVE  /\ Height(b) \in Heights /\ Height(b) \in Nat
           /\ b # Root => Height(b) >= 1
<1>1. Root \in AncOf[b]
  BY FetchAssumption
<1>2. QED
  BY <1>1, FetchTree, HeightRange DEF Heights

\* The minimum of FiniteSetsExt.
LEMMA MinNat ==
    ASSUME NEW T \in SUBSET Nat, T # {}
    PROVE  Min(T) \in T /\ \A y \in T : Min(T) <= y
BY LeastNat, Zenon DEF Min

-----------------------------------------------------------------------------
(* The queue *)

\* The index lists the blocks of the queue by their height, and the lowest
\* index is the least height.
QueueOK(q) ==
    /\ q \in B2G
    /\ Root \notin q.get
    /\ \A h \in Heights : q.index[h] = {b \in q.get : Height(b) = h}
    /\ q.lowest = 0 <=> q.get = {}
    /\ \A b \in q.get : q.lowest <= Height(b)
    /\ q.get # {} => \E b \in q.get : q.lowest = Height(b)

\* AddB2G keeps the queue in order.
LEMMA AddKeepsQueue ==
    ASSUME NEW q, QueueOK(q), NEW S \in SUBSET (Block \ {Root})
    PROVE  QueueOK(AddB2G(q, S))
<1> DEFINE new == {Height(b) : b \in S}
           r   == AddB2G(q, S)
<1>1. \A b \in Block : Height(b) \in Heights /\ Height(b) \in Nat /\ (b # Root => Height(b) >= 1)
  BY FetchHeight
<1>2. new \in SUBSET Nat /\ new \in SUBSET Heights /\ (new = {} <=> S = {})
  BY <1>1
<1>3. new # {} => Min(new) \in new /\ \A y \in new : Min(new) <= y
  <2> HIDE DEF new
  <2>1. QED
    BY <1>2, MinNat
<1>4. /\ q.get \in SUBSET Block /\ q.inProgress \in [Block -> 0..UintMax]
      /\ q.txs \in SUBSET Block /\ q.index \in [Heights -> SUBSET Block] /\ q.lowest \in Heights
  BY DEF QueueOK, B2G
<1>5. /\ r.get = q.get \cup S
      /\ r.index = [h \in Heights |-> q.index[h] \cup {b \in S : Height(b) = h}]
      /\ r.lowest = IF new = {} \/ (q.lowest # 0 /\ q.lowest <= Min(new)) THEN q.lowest
                    ELSE Min(new)
  BY DEF AddB2G
<1>6. r.lowest \in Heights
  BY <1>2, <1>3, <1>4, <1>5
<1>7. r \in B2G
  <2>1. [b \in Block |-> IF b \in S THEN 0 ELSE q.inProgress[b]] \in [Block -> 0..UintMax]
    BY <1>4, FetchAssumption
  <2>2. [h \in Heights |-> q.index[h] \cup {b \in S : Height(b) = h}] \in [Heights -> SUBSET Block]
    BY <1>4
  <2>3. q.get \cup S \in SUBSET Block /\ q.txs \ S \in SUBSET Block
    BY <1>4
  <2> HIDE DEF new
  <2>4. QED
    BY <1>5, <1>6, <2>1, <2>2, <2>3 DEF B2G, AddB2G
<1>8. Root \notin r.get
  BY <1>5 DEF QueueOK
<1>9. \A h \in Heights : r.index[h] = {b \in r.get : Height(b) = h}
  BY <1>5 DEF QueueOK
<1>10. Heights \in SUBSET Nat
  BY DEF Heights
<1>11. /\ r.lowest = 0 <=> r.get = {}
       /\ \A b \in r.get : r.lowest <= Height(b)
       /\ r.get # {} => \E b \in r.get : r.lowest = Height(b)
  <2>1. \A b \in S : Height(b) \in new
    OBVIOUS
  <2>2. \A h \in new : \E b \in S : h = Height(b)
    OBVIOUS
  <2> HIDE DEF new, r
  <2>3. CASE new = {} 
    BY <2>3, <1>2, <1>5 DEF QueueOK
  <2>4. CASE new # {} /\ q.lowest # 0 /\ q.lowest <= Min(new)
    <3>1. r.lowest = q.lowest /\ q.get # {}
      BY <2>4, <1>5 DEF QueueOK
    <3>2. \A b \in S : q.lowest <= Height(b)
      <4>1. Min(new) \in Nat /\ q.lowest \in Nat
        BY <2>4, <1>2, <1>3, <1>4, <1>10
      <4>2. \A b \in S : Height(b) \in Nat /\ Min(new) <= Height(b)
        BY <2>1, <2>4, <1>1, <1>3
      <4>3. QED
        BY <4>1, <4>2, <2>4
    <3>3. QED
      BY <3>1, <3>2, <1>5, <2>4 DEF QueueOK
  <2>5. CASE new # {} /\ ~(q.lowest # 0 /\ q.lowest <= Min(new))
    <3>1. r.lowest = Min(new) /\ Min(new) \in Nat
      BY <2>5, <1>5, <1>2, <1>3
    <3>2. \A b \in S : Min(new) <= Height(b)
      BY <2>1, <2>5, <1>3
    <3>3. \A b \in q.get : Min(new) <= Height(b)
      BY <2>5, <3>1, <1>1, <1>4, <1>10 DEF QueueOK
    <3>4. \E b \in S : Min(new) = Height(b)
      BY <2>2, <2>5, <1>3
    <3>5. Min(new) # 0
      BY <3>4, <1>1
    <3>6. QED
      BY <3>1, <3>2, <3>3, <3>4, <3>5, <1>5
  <2>6. QED
    BY <2>3, <2>4, <2>5
<1>12. QED
  BY <1>7, <1>8, <1>9, <1>11 DEF QueueOK

\* DelB2G keeps the queue in order.
LEMMA DelKeepsQueue ==
    ASSUME NEW q, QueueOK(q), NEW S \in SUBSET Block
    PROVE  QueueOK(DelB2G(q, S))
<1> DEFINE index == [h \in Heights |-> q.index[h] \ (S \cap q.get)]
           used  == {h \in Heights : index[h] # {}}
           up    == {h \in used : h > q.lowest}
           r     == DelB2G(q, S)
<1>1. \A b \in Block : Height(b) \in Heights /\ Height(b) \in Nat /\ (b # Root => Height(b) >= 1)
  BY FetchHeight
<1>2. Heights \in SUBSET Nat /\ 0 \in Heights
  BY FetchTree, HeightRange DEF Heights, IsTree
<1>3. /\ q.get \in SUBSET Block /\ q.inProgress \in [Block -> 0..UintMax]
      /\ q.txs \in SUBSET Block /\ q.index \in [Heights -> SUBSET Block] /\ q.lowest \in Heights
  BY DEF QueueOK, B2G
<1>4. /\ r.get = q.get \ S /\ r.index = index
      /\ r.lowest = IF q.index[q.lowest] # {} /\ index[q.lowest] = {}
                    THEN NextLowest(index, q.lowest) ELSE q.lowest
  BY DEF DelB2G
<1>5. \A h \in Heights : index[h] = {b \in q.get \ S : Height(b) = h}
  BY DEF QueueOK
<1>6. NextLowest(index, q.lowest) = IF used = {} THEN 0 ELSE IF up # {} THEN Min(up) ELSE Min(used)
  BY DEF NextLowest
<1>7. used \in SUBSET Nat /\ up \in SUBSET Nat /\ up \in SUBSET used /\ used \in SUBSET Heights
  BY <1>2
<1>8. \A h \in used : \E b \in q.get \ S : Height(b) = h
  BY <1>5
<1>9. \A b \in q.get \ S : Height(b) \in used
  BY <1>1, <1>3, <1>5
<1>10. index \in [Heights -> SUBSET Block]
  BY <1>3
<1>11. /\ used # {} => Min(used) \in used /\ \A y \in used : Min(used) <= y
       /\ up # {} => Min(up) \in up /\ \A y \in up : Min(up) <= y
  <2> HIDE DEF used, up
  <2>1. QED
    BY <1>7, MinNat
<1>12. \A h \in used : h > q.lowest <=> h \in up
  OBVIOUS
<1>13. \A h \in Heights \ used : index[h] = {}
  OBVIOUS
<1> HIDE DEF used, up, index, r
<1>14. r.lowest \in Heights
  BY <1>2, <1>3, <1>4, <1>6, <1>7, <1>11
<1>15. r \in B2G
  <2>1. [b \in Block |-> IF b \in S THEN 0 ELSE q.inProgress[b]] \in [Block -> 0..UintMax]
    BY <1>3, FetchAssumption
  <2>2. q.get \ S \in SUBSET Block /\ q.txs \ S \in SUBSET Block
    BY <1>3
  <2>3. r = [get |-> q.get \ S,
             inProgress |-> [b \in Block |-> IF b \in S THEN 0 ELSE q.inProgress[b]],
             txs |-> q.txs \ S, index |-> index, lowest |-> r.lowest]
    BY DEF r, index, DelB2G
  <2>4. QED
    BY <1>10, <1>14, <2>1, <2>2, <2>3 DEF B2G
<1>16. /\ r.lowest = 0 <=> r.get = {}
       /\ \A b \in r.get : r.lowest <= Height(b)
       /\ r.get # {} => \E b \in r.get : r.lowest = Height(b)
  <2>1. CASE q.get = {}
    <3>1. q.lowest = 0 /\ index[q.lowest] = {} /\ q.index[q.lowest] = {}
      BY <2>1, <1>2, <1>5 DEF QueueOK
    <3>2. QED
      BY <2>1, <3>1, <1>4
  <2>2. CASE q.get # {} /\ index[q.lowest] # {}
    <3>1. r.lowest = q.lowest /\ r.lowest # 0
      BY <2>2, <1>4 DEF QueueOK
    <3>2. \E b \in r.get : r.lowest = Height(b)
      BY <2>2, <3>1, <1>3, <1>4, <1>5
    <3>3. QED
      BY <3>1, <3>2, <1>4 DEF QueueOK
  <2>3. CASE q.get # {} /\ index[q.lowest] = {}
    <3>1. q.index[q.lowest] # {}
      <4>1. PICK b \in q.get : q.lowest = Height(b)
        BY <2>3 DEF QueueOK
      <4>2. b \in q.index[q.lowest]
        BY <4>1, <1>3 DEF QueueOK
      <4>3. QED
        BY <4>2
    <3>2. r.lowest = NextLowest(index, q.lowest)
      BY <2>3, <3>1, <1>4
    <3>3. \A h \in used : h > q.lowest
      <4> SUFFICES ASSUME NEW h \in used PROVE h > q.lowest
        OBVIOUS
      <4>1. PICK b \in q.get \ S : Height(b) = h
        BY <1>8
      <4>2. q.lowest <= h
        BY <4>1 DEF QueueOK
      <4>3. h # q.lowest
        BY <2>3, <1>3, <4>1, <1>5
      <4>4. QED
        <5>1. h \in Nat /\ q.lowest \in Nat
          BY <1>2, <1>3, <1>7
        <5>2. QED
          BY <4>2, <4>3, <5>1
    <3>4. up = used
      BY <3>3, <1>7, <1>12
    <3>5. CASE used = {}
      BY <3>2, <3>5, <1>4, <1>6, <1>9
    <3>6. CASE used # {}
      <4>1. r.lowest = Min(used) /\ Min(used) \in used /\ \A y \in used : Min(used) <= y
        BY <3>2, <3>4, <3>6, <1>6, <1>11
      <4>2. \E b \in r.get : r.lowest = Height(b)
        BY <4>1, <1>4, <1>8
      <4>3. \A b \in r.get : r.lowest <= Height(b)
        BY <4>1, <1>4, <1>9
      <4>4. r.lowest # 0
        <5>1. PICK b \in r.get : r.lowest = Height(b)
          BY <4>2
        <5>2. b \in Block /\ b # Root
          BY <1>3, <1>4 DEF QueueOK
        <5>3. QED
          BY <5>1, <5>2, <1>1
      <4>5. QED
        BY <4>2, <4>3, <4>4
    <3>7. QED
      BY <3>5, <3>6
  <2>4. QED
    BY <2>1, <2>2, <2>3
<1>17. Root \notin r.get
  BY <1>4 DEF QueueOK
<1>18. QED
  <2>1. \A h \in Heights : r.index[h] = {b \in r.get : Height(b) = h}
    BY <1>4, <1>5
  <2>2. QueueOK(r)
    BY <2>1, <1>15, <1>16, <1>17 DEF QueueOK
  <2>3. QED
    BY <2>2 DEF r

\* A queue that differs in the counts and in the transactions left behind only
\* is in order, too.
LEMMA SameQueue ==
    ASSUME NEW q, QueueOK(q), NEW r, r \in B2G,
           r.get = q.get, r.index = q.index, r.lowest = q.lowest
    PROVE  QueueOK(r)
BY DEF QueueOK

LEMMA TakenKeepsQueue ==
    ASSUME NEW q, QueueOK(q), NEW S \in SUBSET Block, \A b \in S : q.inProgress[b] < MaxBlockAtOnce
    PROVE  QueueOK(Taken(q, S))
<1>1. q \in B2G
  BY DEF QueueOK
<1>2. \A b \in Block : q.inProgress[b] \in 0..UintMax
  BY <1>1 DEF B2G
<1>3. \A b \in S : q.inProgress[b] + 1 \in 0..UintMax
  BY <1>2, FetchAssumption
<1>4. Taken(q, S) \in B2G
  BY <1>1, <1>2, <1>3 DEF Taken, B2G
<1>5. /\ Taken(q, S).get = q.get /\ Taken(q, S).index = q.index
      /\ Taken(q, S).lowest = q.lowest
  BY <1>1 DEF Taken, B2G
<1>6. QED
  BY <1>4, <1>5, SameQueue

LEMMA GivenBackKeepsQueue ==
    ASSUME NEW q, QueueOK(q), NEW S \in SUBSET Block
    PROVE  QueueOK(GivenBack(q, S))
<1>1. q \in B2G
  BY DEF QueueOK
<1>2. \A b \in Block : q.inProgress[b] \in 0..UintMax
  BY <1>1 DEF B2G
<1>3. \A b \in Block : (IF q.inProgress[b] = 0 THEN UintMax ELSE q.inProgress[b] - 1) \in 0..UintMax
  BY <1>2, FetchAssumption
<1>4. GivenBack(q, S) \in B2G
  BY <1>1, <1>2, <1>3 DEF GivenBack, B2G
<1>5. /\ GivenBack(q, S).get = q.get /\ GivenBack(q, S).index = q.index
      /\ GivenBack(q, S).lowest = q.lowest
  BY <1>1 DEF GivenBack, B2G
<1>6. QED
  BY <1>4, <1>5, SameQueue

-----------------------------------------------------------------------------
(* The tree and the queue *)

\* The node's tree is closed under Parent, and its blocks have either come or
\* are waited for.  Received blocks may have left the tree with their branch.
TreeInv ==
    /\ BlockIndex \in SUBSET Block /\ LastCommitedHeader \in Block
    /\ ReceivedBlocks \in SUBSET Block
    /\ Root \in BlockIndex /\ Root \in ReceivedBlocks
    /\ ReceivedBlocks \cap b2g.get = {}
    /\ b2g.get \subseteq BlockIndex /\ BlockIndex \subseteq ReceivedBlocks \cup b2g.get
    /\ \A b \in BlockIndex \ {Root} : Parent[b] \in BlockIndex

CoreInv == QueueOK(b2g) /\ TreeInv

LEMMA LastHeaderType ==
    ASSUME NEW S \in SUBSET Block, LastCommitedHeader \in Block
    PROVE  LastHeader(S) \in Block
BY FetchTree, HighestIn DEF LastHeader

LEMMA AddFields ==
    ASSUME NEW q, NEW S
    PROVE  /\ AddB2G(q, S).get = q.get \cup S
           /\ AddB2G(q, S).inProgress = [b \in Block |-> IF b \in S THEN 0 ELSE q.inProgress[b]]
           /\ AddB2G(q, S).txs = q.txs \ S
BY DEF AddB2G

LEMMA DelFields ==
    ASSUME NEW q, NEW S
    PROVE  /\ DelB2G(q, S).get = q.get \ S
           /\ DelB2G(q, S).inProgress = [b \in Block |-> IF b \in S THEN 0 ELSE q.inProgress[b]]
           /\ DelB2G(q, S).txs = q.txs \ S
BY DEF DelB2G

\* New headers are neither received nor in the queue or the tree, and their
\* parents are in the tree or new.
LEMMA NewHeaderFacts ==
    ASSUME CoreInv, NEW hs \in SUBSET Block, NEW b \in NewHeaders(hs)
    PROVE  /\ b \in Block \ {Root} /\ b \notin ReceivedBlocks \cup b2g.get \cup BlockIndex
           /\ Parent[b] \in BlockIndex \cup NewHeaders(hs)
<1>1. /\ b \in hs /\ b \notin ReceivedBlocks \cup b2g.get \cup BlockIndex
      /\ \A a \in AncOf[b] \ BlockIndex : a \in hs \ ReceivedBlocks
  BY DEF NewHeaders
<1>2. b \in Block \ {Root}
  BY <1>1 DEF CoreInv, TreeInv
<1>3. Parent[b] \in AncOf[b] /\ Parent[b] \in Block
  BY <1>2, FetchTree, AncSelf, AncParent DEF IsTree
<1>4. ASSUME Parent[b] \notin BlockIndex
      PROVE  Parent[b] \in NewHeaders(hs)
  <2>1. Parent[b] \in hs \ ReceivedBlocks /\ Parent[b] \notin b2g.get
    BY <1>1, <1>3, <1>4 DEF CoreInv, TreeInv
  <2>2. AncOf[Parent[b]] \subseteq AncOf[b]
    BY <1>2, <1>3, FetchTree, AncTransitive
  <2>3. QED
    BY <1>1, <1>4, <2>1, <2>2 DEF NewHeaders
<1>5. QED
  BY <1>1, <1>2, <1>4

\* HandleHeaders.
LEMMA HeadersKeepCore ==
    ASSUME CoreInv, NEW hs \in SUBSET Block, AcceptHeaders(NewHeaders(hs)),
           b2g' = AddB2G(b2g, NewHeaders(hs)), ReceivedBlocks' = ReceivedBlocks
    PROVE  CoreInv'
<1> DEFINE N == NewHeaders(hs)
<1>1. \A b \in N : /\ b \in Block \ {Root} /\ b \notin ReceivedBlocks \cup b2g.get \cup BlockIndex
                   /\ Parent[b] \in BlockIndex \cup N
  BY NewHeaderFacts
<1>2. N \in SUBSET (Block \ {Root})
  BY <1>1
<1>3. BlockIndex' = BlockIndex \cup N /\ LastCommitedHeader' = LastHeader(N)
  BY DEF AcceptHeaders
<1>4. b2g' = AddB2G(b2g, N)
  OBVIOUS
<1> HIDE DEF N
<1>5. QueueOK(b2g')
  BY <1>2, <1>4, AddKeepsQueue DEF CoreInv
<1>6. b2g'.get = b2g.get \cup N
  BY <1>4, AddFields, ZenonT(40)
<1>7. LastCommitedHeader' \in Block
  BY <1>2, <1>3, LastHeaderType DEF CoreInv, TreeInv
<1>8. TreeInv'
  BY <1>1, <1>2, <1>3, <1>6, <1>7 DEF CoreInv, TreeInv
<1>9. QED
  BY <1>5, <1>8 DEF CoreInv

\* The queue and the tree with the header of a block that is wanted.
LEMMA WithHeaderFacts ==
    ASSUME CoreInv, NEW b \in Block \ {Root}, Wanted(b)
    PROVE  /\ QueueOK(WithHeader(b))
           /\ WithHeader(b).get = b2g.get \cup {b}
           /\ WithHeader(b).inProgress =
                 [d \in Block |-> IF d = b /\ b \notin b2g.get THEN 0 ELSE b2g.inProgress[d]]
           /\ WithHeader(b).txs = b2g.txs \ Unasked(b)
           /\ b \notin ReceivedBlocks /\ (b \notin b2g.get => b \notin BlockIndex)
           /\ Parent[b] \in BlockIndex \cup {b}
           /\ LastHeader(Unasked(b)) \in Block
           /\ BlockIndex \cup Unasked(b) = BlockIndex \cup {b}
<1>1. b \notin ReceivedBlocks /\ (b \in b2g.get \/ b \in NewHeaders({b}))
  BY DEF Wanted
<1>2. Unasked(b) \in SUBSET (Block \ {Root})
  BY DEF Unasked
<1>3. QueueOK(WithHeader(b))
  BY <1>2, AddKeepsQueue DEF CoreInv, WithHeader
<1>4. /\ WithHeader(b).get = b2g.get \cup {b}
      /\ WithHeader(b).inProgress =
            [d \in Block |-> IF d \in Unasked(b) THEN 0 ELSE b2g.inProgress[d]]
      /\ WithHeader(b).txs = b2g.txs \ Unasked(b)
  BY AddFields DEF WithHeader, Unasked
<1>5. \A d \in Block : d \in Unasked(b) <=> d = b /\ b \notin b2g.get
  BY DEF Unasked
<1>6. LastHeader(Unasked(b)) \in Block
  BY <1>2, LastHeaderType DEF CoreInv, TreeInv
<1>7. Parent[b] \in BlockIndex \cup {b} /\ (b \notin b2g.get => b \notin BlockIndex)
  <2>1. CASE b \in b2g.get
    BY <2>1 DEF CoreInv, TreeInv
  <2>2. CASE b \in NewHeaders({b})
    <3>1. NewHeaders({b}) \subseteq {b} /\ {b} \in SUBSET Block
      BY DEF NewHeaders
    <3>2. QED
      BY <2>2, <3>1, NewHeaderFacts
  <2>3. QED
    BY <1>1, <2>1, <2>2
<1>8. BlockIndex \cup Unasked(b) = BlockIndex \cup {b}
  BY DEF CoreInv, TreeInv, Unasked
<1>9. QED
  BY <1>1, <1>3, <1>4, <1>5, <1>6, <1>7, <1>8

\* A block that is only announced, asked for or discarded.
LEMMA HeaderKeepsCore ==
    ASSUME CoreInv, NEW b \in Block \ {Root}, Wanted(b), AcceptHeaders(Unasked(b)),
           QueueOK(b2g'), b2g'.get = WithHeader(b).get, ReceivedBlocks' = ReceivedBlocks
    PROVE  CoreInv'
<1>1. /\ b2g'.get = b2g.get \cup {b} /\ b \notin ReceivedBlocks
      /\ BlockIndex' = BlockIndex \cup {b} /\ Parent[b] \in BlockIndex \cup {b}
      /\ LastCommitedHeader' \in Block
  BY WithHeaderFacts DEF AcceptHeaders
<1>2. TreeInv'
  BY <1>1 DEF CoreInv, TreeInv
<1>3. QED
  BY <1>2 DEF CoreInv

LEMMA ReceiveKeepsCore ==
    ASSUME CoreInv, NEW b \in Block \ {Root}, Wanted(b), Receive(b)
    PROVE  CoreInv'
<1>1. /\ QueueOK(WithHeader(b)) /\ WithHeader(b).get = b2g.get \cup {b}
      /\ b \notin ReceivedBlocks
      /\ BlockIndex' = BlockIndex \cup {b} /\ Parent[b] \in BlockIndex \cup {b}
      /\ LastCommitedHeader' \in Block
  BY WithHeaderFacts DEF AcceptHeaders, Receive
<1>2. b2g' = DelB2G(WithHeader(b), {b}) /\ ReceivedBlocks' = ReceivedBlocks \cup {b}
  BY DEF Receive
<1>3. QueueOK(b2g') /\ b2g'.get = (b2g.get \cup {b}) \ {b}
  <2>1. {b} \in SUBSET Block
    OBVIOUS
  <2>2. QueueOK(b2g')
    BY <1>1, <1>2, <2>1, DelKeepsQueue
  <2>3. DelB2G(WithHeader(b), {b}).get = WithHeader(b).get \ {b}
    BY DelFields, Zenon
  <2>4. QED
    BY <1>1, <1>2, <2>2, <2>3, Zenon
<1>4. TreeInv'
  BY <1>1, <1>2, <1>3 DEF CoreInv, TreeInv
<1>5. QED
  BY <1>3, <1>4 DEF CoreInv

\* The branch of a block has the block, not the genesis block, and with every
\* other block of it the parent of that block.
LEMMA BranchFacts ==
    ASSUME CoreInv, NEW b \in Block \ {Root}
    PROVE  /\ Branch(b) \in SUBSET Block /\ b \in Branch(b) /\ Root \notin Branch(b)
           /\ \A x \in BlockIndex \ {Root} : Parent[x] \in Branch(b) => x \in Branch(b)
           /\ \A x \in Branch(b) : b \in AncOf[x]
<1>1. Branch(b) \in SUBSET Block /\ b \in Branch(b)
  BY AncSelf DEF Branch, CoreInv, TreeInv
<1>2. Root \notin Branch(b)
  BY FetchTree, AncRoot DEF Branch
<1>3. ASSUME NEW x \in BlockIndex \ {Root}, Parent[x] \in Branch(b)
      PROVE  x \in Branch(b)
  <2>1. x \in Block /\ Parent[x] \in Block /\ b \in AncOf[Parent[x]]
    BY <1>1, <1>3 DEF Branch, CoreInv, TreeInv
  <2>2. AncOf[Parent[x]] \subseteq AncOf[x]
    BY <1>3, <2>1, FetchTree, AncStep
  <2>3. QED
    BY <1>3, <2>1, <2>2 DEF Branch
<1>4. QED
  BY <1>1, <1>2, <1>3 DEF Branch

LEMMA GiveUpKeepsCore ==
    ASSUME CoreInv, NEW b \in Block \ {Root}, Wanted(b), GiveUp(b), ReceivedBlocks' = ReceivedBlocks
    PROVE  CoreInv'
<1>1. /\ QueueOK(WithHeader(b)) /\ WithHeader(b).get = b2g.get \cup {b}
      /\ LastHeader(Unasked(b)) \in Block
  BY WithHeaderFacts
<1>2. /\ b2g' = DelB2G(WithHeader(b), Branch(b)) /\ BlockIndex' = BlockIndex \ Branch(b)
      /\ LastCommitedHeader' = IF LastHeader(Unasked(b)) = b THEN Parent[b] ELSE LastHeader(Unasked(b))
  BY DEF GiveUp
<1>3. LastCommitedHeader' \in Block
  BY <1>1, <1>2, FetchAssumption
<1>4. QueueOK(b2g') /\ b2g'.get = (b2g.get \cup {b}) \ Branch(b)
  <2>1. Branch(b) \in SUBSET Block
    BY BranchFacts
  <2>2. QueueOK(b2g')
    BY <1>1, <1>2, <2>1, DelKeepsQueue
  <2>3. DelB2G(WithHeader(b), Branch(b)).get = WithHeader(b).get \ Branch(b)
    BY DelFields, Zenon
  <2>4. QED
    BY <1>1, <1>2, <2>2, <2>3, Zenon
<1>5. TreeInv'
  BY <1>2, <1>3, <1>4, BranchFacts DEF CoreInv, TreeInv
<1>6. QED
  BY <1>4, <1>5 DEF CoreInv

\* What becomes of an assembled block.
LEMMA AssembledKeepsCore ==
    ASSUME CoreInv, NEW b \in Block \ {Root}, Wanted(b), NEW copy, Assembled(b, copy)
    PROVE  CoreInv'
<1>1. CASE Receive(b)
  BY <1>1, ReceiveKeepsCore
<1>2. CASE GiveUp(b) /\ UNCHANGED ReceivedBlocks
  BY <1>2, GiveUpKeepsCore
<1>3. CASE /\ AcceptHeaders(Unasked(b))
           /\ b2g' = [WithHeader(b) EXCEPT !.txs = @ \cup {b}]
           /\ UNCHANGED ReceivedBlocks
  <2>1. QueueOK(WithHeader(b)) /\ WithHeader(b) \in B2G
    BY WithHeaderFacts DEF QueueOK
  <2>2. b2g' \in B2G
    BY <1>3, <2>1 DEF B2G
  <2>3. /\ b2g'.get = WithHeader(b).get /\ b2g'.index = WithHeader(b).index
        /\ b2g'.lowest = WithHeader(b).lowest
    BY <1>3, <2>1 DEF B2G
  <2>4. QueueOK(b2g')
    BY <2>1, <2>2, <2>3, SameQueue
  <2>5. QED
    BY <1>3, <2>3, <2>4, HeaderKeepsCore
<1>4. QED
  BY <1>1, <1>2, <1>3, Zenon DEF Assembled

\* A step that leaves the tree and the blocks of the queue alone.
LEMMA SameCore ==
    ASSUME CoreInv, QueueOK(b2g'), b2g'.get = b2g.get, UNCHANGED <<treeVars, ReceivedBlocks>>
    PROVE  CoreInv'
BY DEF CoreInv, TreeInv, treeVars

LEMMA CoreInit == Init => CoreInv
<1> SUFFICES ASSUME Init PROVE CoreInv
  OBVIOUS
<1>1. 0 \in Heights
  BY FetchTree, HeightRange DEF Heights, IsTree
<1>2. b2g \in B2G
  BY <1>1, FetchAssumption DEF Init, B2G
<1>3. QueueOK(b2g)
  BY <1>2 DEF Init, QueueOK
<1>4. TreeInv
  BY FetchAssumption DEF Init, TreeInv
<1>5. QED
  BY <1>3, <1>4 DEF CoreInv

\* Every step of a connection keeps the tree and the queue.
LEMMA CoreConn ==
    ASSUME CoreInv, GetBlockInProgress \in [Conn -> SUBSET Block], NEW c \in Conn, ConnNext(c)
    PROVE  CoreInv'
<1>q. QueueOK(b2g)
  BY DEF CoreInv
<1>0. ASSUME UNCHANGED <<treeVars, b2g, ReceivedBlocks>> PROVE CoreInv'
  BY <1>0, SameCore DEF CoreInv
<1>1. CASE Connect(c) \/ HangUp(c) \/ SendGetHeaders(c) \/ NetworkTick(c)
  BY <1>0, <1>1 DEF Connect, HangUp, SendGetHeaders, NetworkTick, rcvVars
<1>2. ASSUME NEW S \in SUBSET Block, b2g' = GivenBack(b2g, S), UNCHANGED <<treeVars, ReceivedBlocks>>
      PROVE  CoreInv'
  <2>1. QueueOK(b2g')
    BY <1>2, <1>q, GivenBackKeepsQueue
  <2>2. b2g'.get = b2g.get
    BY <1>2, <1>q DEF GivenBack, QueueOK, B2G
  <2>3. QED
    BY <1>2, <2>1, <2>2, SameCore
<1>3. CASE RunEnds(c)
  BY <1>2, <1>3 DEF RunEnds, rcvVars
<1>4. CASE \E S \in SUBSET GetBlockInProgress[c], headers \in BOOLEAN : Expire(c, S, headers)
  <2>1. PICK S \in SUBSET GetBlockInProgress[c], headers \in BOOLEAN : Expire(c, S, headers)
    BY <1>4
  <2>2. S \in SUBSET Block
    OBVIOUS
  <2>3. QED
    BY <1>2, <2>1, <2>2 DEF Expire, rcvVars
<1>5. ASSUME NEW hs \in SUBSET Block, HandleHeaders(c, hs)
      PROVE  CoreInv'
  BY <1>5, HeadersKeepCore DEF HandleHeaders, rcvVars
<1>6. CASE HeadersAnswer(c)
  <2>1. Has(c) \ AncOf[Common(asked[c], TipOf[c])] \in SUBSET Block
    BY AncSelf, FetchAssumption DEF Has
  <2>2. QED
    BY <1>5, <1>6, <2>1 DEF HeadersAnswer
<1>7. CASE HeadersAnnounce(c)
  <2>1. {TipOf[c]} \in SUBSET Block
    BY FetchAssumption
  <2>2. QED
    BY <1>5, <1>7, <2>1 DEF HeadersAnnounce
<1>8. CASE GetBlockData(c)
  <2>1. PICK S \in SUBSET MayAsk(c) \ {{}} : b2g' = Taken(b2g, S)
    BY <1>8, Zenon DEF GetBlockData
  <2>2. S \in SUBSET Block /\ \A b \in S : b2g.inProgress[b] < MaxBlockAtOnce
    BY <2>1, <1>q DEF MayAsk, QueueOK, B2G
  <2>3. QueueOK(b2g')
    BY <2>1, <2>2, <1>q, TakenKeepsQueue
  <2>4. b2g'.get = b2g.get
    BY <2>1, <1>q DEF Taken, QueueOK, B2G
  <2>5. UNCHANGED <<treeVars, ReceivedBlocks>>
    BY <1>8 DEF GetBlockData, rcvVars
  <2>6. QED
    BY <2>3, <2>4, <2>5, SameCore
<1>9. ASSUME NEW b \in Block \ {Root},
             ProcessInv(c, b) \/ BlockAgain(c, b) \/ CompactUnlinked(c, b) \/ CompactTooMany(c, b)
                \/ BlockTxnLate(c, b) \/ BlockTxnError(c, b)
      PROVE  CoreInv'
  BY <1>0, <1>9 DEF ProcessInv, BlockAgain, CompactUnlinked, CompactTooMany, BlockTxnLate,
                    BlockTxnError, rcvVars
<1>10. ASSUME NEW b \in Block \ {Root}, BlockReceived(c, b)
       PROVE  CoreInv'
  BY <1>10, ReceiveKeepsCore DEF BlockReceived
<1>11. ASSUME NEW b \in Block \ {Root}, NEW copy, BlockWronglyMined(c, b, copy)
       PROVE  CoreInv'
  BY <1>11, GiveUpKeepsCore DEF BlockWronglyMined, rcvVars
<1>12. ASSUME NEW b \in Block \ {Root}, CompactMissing(c, b)
       PROVE  CoreInv'
  <2>1. Wanted(b) /\ WithHeader(b).inProgress[b] < MaxBlockAtOnce
    BY <1>12 DEF CompactMissing, CompactSeen
  <2>2. QueueOK(WithHeader(b)) /\ {b} \in SUBSET Block
    BY <2>1, WithHeaderFacts
  <2>3. b2g' = Taken(WithHeader(b), {b})
    BY <1>12 DEF CompactMissing
  <2>4. QueueOK(b2g')
    BY <2>1, <2>2, <2>3, TakenKeepsQueue
  <2>5. b2g'.get = WithHeader(b).get
    BY <2>2, <2>3 DEF Taken, QueueOK, B2G
  <2>6. QED
    BY <1>12, <2>1, <2>4, <2>5, HeaderKeepsCore DEF CompactMissing
<1>13. ASSUME NEW b \in Block \ {Root}, NEW copy, BlockCorrupt(c, b, copy)
       PROVE  CoreInv'
  <2>1. Wanted(b) /\ b2g' = Discarded(WithHeader(b), b)
    BY <1>13 DEF BlockCorrupt
  <2>2. QueueOK(WithHeader(b)) /\ WithHeader(b) \in B2G
    BY <2>1, WithHeaderFacts DEF QueueOK
  <2>3. b2g' \in B2G
    BY <2>1, <2>2 DEF B2G, Discarded
  <2>4. /\ b2g'.get = WithHeader(b).get /\ b2g'.index = WithHeader(b).index
        /\ b2g'.lowest = WithHeader(b).lowest
    BY <2>1, <2>2 DEF B2G, Discarded
  <2>5. QueueOK(b2g')
    BY <2>2, <2>3, <2>4, SameQueue
  <2>6. QED
    BY <1>13, <2>1, <2>4, <2>5, HeaderKeepsCore DEF BlockCorrupt, rcvVars
<1>14. ASSUME NEW b \in Block \ {Root}, NEW copy, CompactComplete(c, b, copy)
       PROVE  CoreInv'
  BY <1>14, AssembledKeepsCore DEF CompactComplete, CompactSeen
<1>15. ASSUME NEW b \in Block \ {Root}, NEW copy, BlockTxn(c, b, copy)
       PROVE  CoreInv'
  <2>1. Wanted(b)
    BY <1>15 DEF BlockTxn, Wanted, CoreInv, TreeInv
  <2>2. QED
    BY <1>15, <2>1, AssembledKeepsCore DEF BlockTxn
<1>16. QED
  BY <1>1, <1>3, <1>4, <1>6, <1>7, <1>8, <1>9, <1>10, <1>11, <1>12, <1>13, <1>14, <1>15,
     Zenon DEF ConnNext

LEMMA CoreAccept ==
    ASSUME CoreInv, NEW b \in Block \ {Root}, Accept(b)
    PROVE  CoreInv'
BY SameCore DEF Accept, CoreInv

-----------------------------------------------------------------------------
(* Types *)

\* The heights a connection learns of stay naturals.
LEMMA NodeHeightType ==
    ASSUME NEW n \in Nat, NEW F \in SUBSET Block
    PROVE  Max({n} \cup {Height(b) : b \in F}) \in Nat
<1> DEFINE T == {n} \cup {Height(b) : b \in F}
           m == n + Cardinality(Block)
<1>1. Cardinality(Block) \in Nat
  BY FetchTree, HeightRange DEF IsTree
<1>2. \A b \in F : Height(b) \in Nat /\ Height(b) <= Cardinality(Block)
  BY FetchTree, HeightRange
<1>3. T \in SUBSET Nat /\ T # {} /\ m \in Nat /\ \A y \in T : y <= m
  BY <1>1, <1>2
<1> HIDE DEF T, m
<1>4. PICK x \in T : \A y \in T : y <= x
  BY <1>3, GreatestNat
<1>5. \A y \in T : x >= y
  BY <1>3, <1>4
<1>6. Max(T) \in T
  BY <1>5, Zenon DEF Max
<1>7. QED
  BY <1>3, <1>6 DEF T

LEMMA NodeHeightTypeOfOne ==
    ASSUME NEW n \in Nat, NEW b \in Block
    PROVE  Max({n, Height(b)}) \in Nat
<1>1. {b} \in SUBSET Block /\ {n, Height(b)} = {n} \cup {Height(d) : d \in {b}}
  OBVIOUS
<1>2. QED
  BY <1>1, NodeHeightType

LEMMA TypeInit == Init => TypeOK
<1> SUFFICES ASSUME Init PROVE TypeOK
  OBVIOUS
<1>1. b2g \in B2G
  BY CoreInit DEF CoreInv, QueueOK
<1>2. QED
  BY <1>1, FetchAssumption DEF Init, TypeOK

\* The variables that only the handler of connection c itself writes.
ConnTypes ==
    /\ conn \in [Conn -> {"off", "on", "broken", "banit", "banned"}]
    /\ AllHeadersReceived \in [Conn -> BOOLEAN] /\ LastHeadersEmpty \in [Conn -> BOOLEAN]
    /\ asked \in [Conn -> Block \cup {None}]
    /\ NodeHeight \in [Conn -> Nat]
    /\ GetBlockInProgress \in [Conn -> SUBSET Block]
    /\ collecting \in [Conn -> SUBSET Block]
    /\ BlocksExpired \in [Conn -> BOOLEAN]
    /\ keepBlocksOver \in [Conn -> Nat]

LEMMA ConnTypesStep ==
    ASSUME CoreInv, CoreInv', ConnTypes, NEW c \in Conn, ConnNext(c)
    PROVE  ConnTypes' /\ UNCHANGED <<committed, last>>
<1> USE DEF ConnTypes, hdrVars, dlVars, rcvVars, treeVars
<1>q. /\ b2g.get \in SUBSET Block /\ BlockIndex \in SUBSET Block
      /\ LastCommitedHeader \in Block /\ LastCommitedHeader' \in Block
  BY DEF CoreInv, TreeInv, QueueOK, B2G
<1>1. CASE Connect(c)
  BY <1>1, FetchAssumption DEF Connect
<1>2. CASE HangUp(c)
  BY <1>2 DEF HangUp
<1>3. CASE RunEnds(c)
  BY <1>3 DEF RunEnds
<1>4. CASE SendGetHeaders(c)
  BY <1>4, <1>q DEF SendGetHeaders
<1>5. CASE NetworkTick(c)
  BY <1>5 DEF NetworkTick
<1>6. ASSUME NEW hs \in SUBSET Block, HandleHeaders(c, hs)
      PROVE  ConnTypes' /\ UNCHANGED <<committed, last>>
  <2> DEFINE found == NewHeaders(hs) \cup (hs \cap b2g.get)
             h     == Max({NodeHeight[c]} \cup {Height(b) : b \in found})
  <2>1. found \in SUBSET Block
    BY DEF NewHeaders
  <2>2. h \in Nat
    <3> HIDE DEF found
    <3>1. QED
      BY <2>1, NodeHeightType
  <2>3. NodeHeight' = [NodeHeight EXCEPT ![c] = h]
    BY <1>6 DEF HandleHeaders
  <2> HIDE DEF h
  <2>4. NodeHeight' \in [Conn -> Nat]
    BY <2>2, <2>3
  <2>5. asked' \in [Conn -> Block \cup {None}]
    BY <1>6, <1>q DEF HandleHeaders
  <2>6. QED
    BY <1>6, <2>4, <2>5 DEF HandleHeaders
<1>7. CASE HeadersAnswer(c)
  <2>1. Has(c) \ AncOf[Common(asked[c], TipOf[c])] \in SUBSET Block
    BY AncSelf, FetchAssumption DEF Has
  <2>2. QED
    BY <1>6, <1>7, <2>1 DEF HeadersAnswer
<1>8. CASE HeadersAnnounce(c)
  <2>1. {TipOf[c]} \in SUBSET Block
    BY FetchAssumption
  <2>2. QED
    BY <1>6, <1>8, <2>1 DEF HeadersAnnounce
<1>9. CASE GetBlockData(c)
  <2>1. PICK S \in SUBSET MayAsk(c) \ {{}} :
            /\ GetBlockInProgress' = [GetBlockInProgress EXCEPT ![c] = @ \cup S]
            /\ keepBlocksOver' =
                 [keepBlocksOver EXCEPT ![c] = (3 * Cardinality(GetBlockInProgress'[c])) \div 4]
    BY <1>9, Zenon DEF GetBlockData
  <2>2. S \in SUBSET Block
    BY <1>q DEF MayAsk
  <2>3. GetBlockInProgress' \in [Conn -> SUBSET Block]
    BY <2>1, <2>2
  <2>4. Cardinality(GetBlockInProgress'[c]) \in Nat
    <3>1. GetBlockInProgress'[c] \in SUBSET Block
      BY <2>3
    <3>2. QED
      BY <3>1, FetchAssumption, FS_Subset, FS_CardinalityType
  <2>5. (3 * Cardinality(GetBlockInProgress'[c])) \div 4 \in Nat
    BY <2>4
  <2>6. QED
    BY <1>9, <2>1, <2>3, <2>5 DEF GetBlockData
<1>10. ASSUME NEW S, NEW headers, Expire(c, S, headers)
       PROVE  ConnTypes' /\ UNCHANGED <<committed, last>>
  BY <1>10 DEF Expire
<1>11. ASSUME NEW b \in Block \ {Root}
       PROVE  Max({NodeHeight[c], Height(b)}) \in Nat
  BY NodeHeightTypeOfOne
<1>12. ASSUME NEW b \in Block \ {Root}, ProcessInv(c, b)
       PROVE  ConnTypes' /\ UNCHANGED <<committed, last>>
  BY <1>11, <1>12 DEF ProcessInv
<1>13. ASSUME NEW b \in Block \ {Root}, BlockAgain(c, b) \/ BlockReceived(c, b) \/ BlockTxnLate(c, b)
       PROVE  ConnTypes' /\ UNCHANGED <<committed, last>>
  BY <1>13 DEF BlockAgain, BlockReceived, BlockTxnLate, NoLongerAsked
<1>14. ASSUME NEW b \in Block \ {Root}, NEW copy,
              BlockWronglyMined(c, b, copy) \/ CompactUnlinked(c, b) \/ BlockCorrupt(c, b, copy)
       PROVE  ConnTypes' /\ UNCHANGED <<committed, last>>
  BY <1>14 DEF BlockWronglyMined, CompactUnlinked, BlockCorrupt
<1>15. ASSUME NEW b \in Block \ {Root}, NEW copy,
              CompactTooMany(c, b) \/ CompactComplete(c, b, copy) \/ CompactMissing(c, b)
       PROVE  ConnTypes' /\ UNCHANGED <<committed, last>>
  <2>1. NodeHeight' \in [Conn -> Nat]
    BY <1>11, <1>15 DEF CompactTooMany, CompactComplete, CompactMissing, CompactSeen
  <2>2. QED
    BY <1>15, <2>1 DEF CompactTooMany, CompactComplete, CompactMissing, CompactSeen
<1>16. ASSUME NEW b \in Block \ {Root}, NEW copy, BlockTxn(c, b, copy) \/ BlockTxnError(c, b)
       PROVE  ConnTypes' /\ UNCHANGED <<committed, last>>
  BY <1>16 DEF BlockTxn, BlockTxnError, NoLongerAsked
<1>17. QED
  BY <1>1, <1>2, <1>3, <1>4, <1>5, <1>7, <1>8, <1>9, <1>10, <1>12, <1>13, <1>14, <1>15, <1>16,
     Zenon DEF ConnNext

\* What has been given up is blocks of the tree, and more and more of them.
LEMMA GivenUpConn ==
    ASSUME BlockIndex \in SUBSET Block, givenUp \in SUBSET Block, NEW c \in Conn, ConnNext(c)
    PROVE  givenUp' \in SUBSET Block /\ givenUp \subseteq givenUp'
<1> USE DEF treeVars
<1>1. ASSUME NEW x \in Block \ {Root}, GiveUp(x)
      PROVE  givenUp' \in SUBSET Block /\ givenUp \subseteq givenUp'
  BY <1>1 DEF GiveUp, Branch
<1>2. ASSUME NEW S, AcceptHeaders(S) PROVE UNCHANGED givenUp
  BY <1>2 DEF AcceptHeaders
<1>3. ASSUME NEW x \in Block \ {Root}, NEW copy, Assembled(x, copy)
      PROVE  givenUp' \in SUBSET Block /\ givenUp \subseteq givenUp'
  BY <1>1, <1>2, <1>3 DEF Assembled, Receive
<1>4. CASE \/ Connect(c) \/ HangUp(c) \/ RunEnds(c) \/ SendGetHeaders(c) \/ NetworkTick(c)
           \/ GetBlockData(c)
  BY <1>4 DEF Connect, HangUp, RunEnds, SendGetHeaders, NetworkTick, GetBlockData
<1>5. CASE HeadersAnswer(c) \/ HeadersAnnounce(c)
  BY <1>2, <1>5 DEF HeadersAnswer, HeadersAnnounce, HandleHeaders
<1>6. ASSUME NEW S, NEW headers, Expire(c, S, headers) PROVE UNCHANGED givenUp
  BY <1>6 DEF Expire
<1>7. ASSUME NEW x \in Block \ {Root},
             \/ ProcessInv(c, x) \/ BlockAgain(c, x) \/ CompactUnlinked(c, x)
             \/ CompactTooMany(c, x) \/ BlockTxnLate(c, x) \/ BlockTxnError(c, x)
      PROVE  UNCHANGED givenUp
  BY <1>7 DEF ProcessInv, BlockAgain, CompactUnlinked, CompactTooMany, BlockTxnLate, BlockTxnError
<1>8. ASSUME NEW x \in Block \ {Root}, BlockReceived(c, x) \/ CompactMissing(c, x)
      PROVE  UNCHANGED givenUp
  BY <1>2, <1>8 DEF BlockReceived, Receive, CompactMissing
<1>9. ASSUME NEW x \in Block \ {Root}, NEW copy,
             \/ BlockWronglyMined(c, x, copy) \/ BlockCorrupt(c, x, copy)
             \/ CompactComplete(c, x, copy) \/ BlockTxn(c, x, copy)
      PROVE  givenUp' \in SUBSET Block /\ givenUp \subseteq givenUp'
  BY <1>1, <1>2, <1>3, <1>9 DEF BlockWronglyMined, BlockCorrupt, CompactComplete, BlockTxn
<1>10. QED
  BY <1>4, <1>5, <1>6, <1>7, <1>8, <1>9 DEF ConnNext

\* The types, the tree and the queue together are inductive.
LEMMA InvStep == TypeOK /\ CoreInv /\ [Next]_vars => TypeOK' /\ CoreInv'
<1> SUFFICES ASSUME TypeOK, CoreInv, [Next]_vars PROVE TypeOK' /\ CoreInv'
  OBVIOUS
<1>0. ConnTypes /\ committed \in SUBSET Block /\ last \in Block /\ givenUp \in SUBSET Block
  BY DEF TypeOK, ConnTypes
<1>1. ASSUME CoreInv', ConnTypes', committed' \in SUBSET Block, last' \in Block,
             givenUp' \in SUBSET Block
      PROVE  TypeOK'
  BY <1>1 DEF CoreInv, TreeInv, QueueOK, ConnTypes, TypeOK
<1>2. ASSUME NEW c \in Conn, ConnNext(c) PROVE TypeOK' /\ CoreInv'
  <2>1. CoreInv'
    BY <1>0, <1>2, CoreConn DEF ConnTypes
  <2>2. ConnTypes' /\ UNCHANGED <<committed, last>>
    BY <1>0, <1>2, <2>1, ConnTypesStep
  <2>3. givenUp' \in SUBSET Block
    BY <1>0, <1>2, GivenUpConn DEF TypeOK
  <2>4. QED
    BY <1>0, <1>1, <2>1, <2>2, <2>3
<1>3. ASSUME NEW b \in Block \ {Root}, Accept(b) PROVE TypeOK' /\ CoreInv'
  <2>1. CoreInv'
    BY <1>3, CoreAccept
  <2>2. committed' \in SUBSET Block /\ last' \in Block /\ givenUp' \in SUBSET Block
    BY <1>0, <1>3 DEF Accept, treeVars
  <2>3. ConnTypes'
    BY <1>0, <1>3 DEF Accept, ConnTypes, connVars, hdrVars, dlVars
  <2>4. QED
    BY <1>1, <2>1, <2>2, <2>3
<1>4. CASE UNCHANGED vars
  <2>1. CoreInv'
    BY <1>4, SameCore DEF CoreInv, vars, treeVars, rcvVars
  <2>2. ConnTypes' /\ committed' \in SUBSET Block /\ last' \in Block /\ givenUp' \in SUBSET Block
    BY <1>0, <1>4 DEF ConnTypes, vars, treeVars, rcvVars, connVars, hdrVars, dlVars
  <2>3. QED
    BY <1>1, <2>1, <2>2
<1>5. QED
  BY <1>2, <1>3, <1>4 DEF Next

LEMMA CoreHolds == Spec => [](TypeOK /\ CoreInv)
<1>1. Init => TypeOK /\ CoreInv
  BY TypeInit, CoreInit
<1>2. QED
  BY <1>1, InvStep, PTL DEF Spec

\* Types of the whole component, in particular of the unsigned counts.
THEOREM TypeCorrect == Spec => []TypeOK
BY CoreHolds, PTL

\* DelB2G's search: LowestIndexToBlocksToGet is the least height with an entry
\* and zero only when nothing is to be got, however blocks come and go.
THEOREM LowestStaysLeast == Spec => []LowestIsLeast
<1>1. CoreInv => LowestIsLeast
  BY DEF CoreInv, QueueOK, LowestIsLeast
<1>2. QED
  BY <1>1, CoreHolds, PTL

\* netBlockReceived and DeleteBranch: a block that is waited for has not come,
\* and its parent has come or is waited for.
THEOREM QueueStaysConnected == Spec => []QueueIsConnected
<1>1. CoreInv => QueueIsConnected
  BY DEF CoreInv, TreeInv, QueueOK, QueueIsConnected
<1>2. QED
  BY <1>1, CoreHolds, PTL

-----------------------------------------------------------------------------
(* Download slots *)

\* A block that some connection is getting is in the queue or has come, and
\* while it is in the queue its count covers the connections.  This is kept
\* for the blocks that have never been given up.
SlotOf(b) ==
    /\ Downloading(b) # {} => b \in b2g.get \cup ReceivedBlocks
    /\ b \in b2g.get => /\ Cardinality(Downloading(b)) <= b2g.inProgress[b]
                        /\ b2g.inProgress[b] <= MaxBlockAtOnce
                        /\ ~Compact => b2g.inProgress[b] = Cardinality(Downloading(b))

\* Without compact blocks nothing is being collected or left behind.
NoCompact == ~Compact => collecting = [c \in Conn |-> {}] /\ b2g.txs = {}

SlotInv == NoCompact /\ \A b \in Block \ givenUp : SlotOf(b)

LEMMA DownloadingFinite ==
    ASSUME NEW b
    PROVE  IsFiniteSet(Downloading(b)) /\ Cardinality(Downloading(b)) \in Nat
<1>1. Downloading(b) \in SUBSET Conn
  BY DEF Downloading
<1>2. QED
  BY <1>1, FetchAssumption, FS_Subset, FS_CardinalityType

LEMMA DownloadingFiniteNext ==
    ASSUME NEW b
    PROVE  IsFiniteSet(Downloading(b)') /\ Cardinality(Downloading(b)') \in Nat
<1>1. Downloading(b)' \in SUBSET Conn
  BY DEF Downloading
<1>2. QED
  BY <1>1, FetchAssumption, FS_Subset, FS_CardinalityType

\* A block of the queue stays in the queue with its count, or comes; a block
\* that is put into the queue begins with the count zero.
KeepsSlot(b) ==
    /\ ReceivedBlocks \subseteq ReceivedBlocks'
    /\ b \in b2g.get \cup ReceivedBlocks => b \in b2g'.get \cup ReceivedBlocks'
    /\ b \in b2g'.get => b2g'.inProgress[b] = IF b \in b2g.get THEN b2g.inProgress[b] ELSE 0

LEMMA SlotSame ==
    ASSUME CoreInv', NEW b \in Block, SlotOf(b), KeepsSlot(b),
           Downloading(b)' \subseteq Downloading(b),
           b \in b2g'.get /\ ~Compact => Downloading(b)' = Downloading(b)
    PROVE  SlotOf(b)'
<1>1. Downloading(b)' # {} => b \in b2g'.get \cup ReceivedBlocks'
  BY DEF SlotOf, KeepsSlot
<1>2. ASSUME b \in b2g'.get, b \in b2g.get
      PROVE  /\ Cardinality(Downloading(b)') <= b2g'.inProgress[b]
             /\ b2g'.inProgress[b] <= MaxBlockAtOnce
             /\ ~Compact => b2g'.inProgress[b] = Cardinality(Downloading(b)')
  <2>1. b2g'.inProgress[b] = b2g.inProgress[b]
    BY <1>2 DEF KeepsSlot
  <2>2. Cardinality(Downloading(b)') <= Cardinality(Downloading(b))
    BY DownloadingFinite, FS_Subset
  <2>3. b2g'.inProgress[b] \in Nat
    <3>1. b \in Block /\ b2g' \in B2G
      BY DEF CoreInv, QueueOK
    <3>2. QED
      BY <3>1 DEF B2G
  <2>4. Cardinality(Downloading(b)) <= b2g'.inProgress[b]
    BY <1>2, <2>1 DEF SlotOf
  <2>5. Cardinality(Downloading(b)') <= b2g'.inProgress[b]
    BY <2>2, <2>3, <2>4, DownloadingFinite, DownloadingFiniteNext
  <2>6. QED
    BY <1>2, <2>1, <2>5 DEF SlotOf
<1>3. ASSUME b \in b2g'.get, b \notin b2g.get
      PROVE  /\ Cardinality(Downloading(b)') <= b2g'.inProgress[b]
             /\ b2g'.inProgress[b] <= MaxBlockAtOnce
             /\ ~Compact => b2g'.inProgress[b] = Cardinality(Downloading(b)')
  <2>1. b2g'.inProgress[b] = 0
    BY <1>3 DEF KeepsSlot
  <2>2. b \notin ReceivedBlocks
    BY <1>3 DEF KeepsSlot, CoreInv, TreeInv
  <2>3. Downloading(b)' = {}
    BY <1>3, <2>2 DEF SlotOf
  <2>4. Cardinality(Downloading(b)') = 0
    BY <2>3, FS_EmptySet
  <2>5. QED
    BY <2>1, <2>4, FetchAssumption
<1>4. QED
  BY <1>1, <1>2, <1>3 DEF SlotOf

\* One connection more gets the block, and the count goes up by one.
LEMMA SlotTaken ==
    ASSUME CoreInv, CoreInv', NEW b \in Block, SlotOf(b), NEW c \in Conn,
           Downloading(b)' = Downloading(b) \cup {c},
           b \in b2g'.get, ReceivedBlocks' = ReceivedBlocks,
           NEW n, n = IF b \in b2g.get THEN b2g.inProgress[b] ELSE 0,
           n < MaxBlockAtOnce, b2g'.inProgress[b] = n + 1,
           ~Compact => b \in b2g.get /\ c \notin Downloading(b)
    PROVE  SlotOf(b)'
<1>1. n \in Nat
  <2>1. b \in Block /\ b2g \in B2G
    BY DEF CoreInv, QueueOK
  <2>2. QED
    BY <2>1 DEF B2G
<1>2. Cardinality(Downloading(b)) <= n
  <2>1. CASE b \in b2g.get
    BY <2>1 DEF SlotOf
  <2>2. CASE b \notin b2g.get
    <3>1. b \notin ReceivedBlocks
      BY DEF CoreInv, TreeInv
    <3>2. Downloading(b) = {}
      BY <2>2, <3>1 DEF SlotOf
    <3>3. QED
      BY <2>2, <3>2, FS_EmptySet
  <2>3. QED
    BY <2>1, <2>2
<1>3. Cardinality(Downloading(b)') =
         IF c \in Downloading(b) THEN Cardinality(Downloading(b)) ELSE Cardinality(Downloading(b)) + 1
  BY DownloadingFinite, FS_AddElement, ZenonT(40)
<1>4. Cardinality(Downloading(b)') <= n + 1 /\ n + 1 <= MaxBlockAtOnce
  BY <1>1, <1>2, <1>3, DownloadingFinite, FetchAssumption
<1>5. ASSUME ~Compact PROVE n + 1 = Cardinality(Downloading(b)')
  BY <1>3, <1>5 DEF SlotOf
<1>6. QED
  BY <1>4, <1>5 DEF SlotOf

\* A connection that was getting the block gives it back.
LEMMA SlotGivenBack ==
    ASSUME CoreInv, NEW b \in Block, SlotOf(b), NEW c \in Downloading(b),
           Downloading(b)' = Downloading(b) \ {c},
           b2g'.get = b2g.get, ReceivedBlocks' = ReceivedBlocks,
           b \in b2g.get => b2g'.inProgress[b] =
              IF b2g.inProgress[b] = 0 THEN UintMax ELSE b2g.inProgress[b] - 1
    PROVE  SlotOf(b)'
<1>1. b2g.inProgress[b] \in Nat
  <2>1. b \in Block /\ b2g \in B2G
    BY DEF CoreInv, QueueOK
  <2>2. QED
    BY <2>1 DEF B2G
<1>2. /\ Cardinality(Downloading(b)') = Cardinality(Downloading(b)) - 1
      /\ Cardinality(Downloading(b)) \in Nat /\ Cardinality(Downloading(b)') \in Nat
  BY DownloadingFinite, DownloadingFiniteNext, FS_RemoveElement
<1>3. ASSUME b \in b2g.get
      PROVE  /\ Cardinality(Downloading(b)') <= b2g'.inProgress[b]
             /\ b2g'.inProgress[b] <= MaxBlockAtOnce
             /\ ~Compact => b2g'.inProgress[b] = Cardinality(Downloading(b)')
  BY <1>1, <1>2, <1>3, FetchAssumption DEF SlotOf
<1>4. QED
  BY <1>3 DEF SlotOf

\* Accepted, received, wrongly mined and discarded blocks.
LEMMA HeaderKeepsSlot ==
    ASSUME CoreInv, NEW x \in Block \ {Root}, Wanted(x), NEW b \in Block,
           ReceivedBlocks' = ReceivedBlocks,
           b2g'.get = WithHeader(x).get, b2g'.inProgress = WithHeader(x).inProgress
    PROVE  KeepsSlot(b)
<1>1. b \in Block
  OBVIOUS
<1>2. QED
  <2>1. /\ b2g'.get = b2g.get \cup {x}
        /\ b2g'.inProgress =
              [d \in Block |-> IF d = x /\ x \notin b2g.get THEN 0 ELSE b2g.inProgress[d]]
    BY WithHeaderFacts
  <2>2. QED
    BY <1>1, <2>1 DEF KeepsSlot

LEMMA ReceiveKeepsSlot ==
    ASSUME CoreInv, NEW x \in Block \ {Root}, Wanted(x), NEW b \in Block, Receive(x)
    PROVE  KeepsSlot(b)
<1>1. b \in Block
  OBVIOUS
<1>2. /\ WithHeader(x).get = b2g.get \cup {x}
      /\ WithHeader(x).inProgress =
            [d \in Block |-> IF d = x /\ x \notin b2g.get THEN 0 ELSE b2g.inProgress[d]]
  BY WithHeaderFacts
<1>3. b2g' = DelB2G(WithHeader(x), {x}) /\ ReceivedBlocks' = ReceivedBlocks \cup {x}
  BY DEF Receive
<1>4. /\ b2g'.get = (b2g.get \cup {x}) \ {x}
      /\ b2g'.inProgress = [d \in Block |-> IF d \in {x} THEN 0 ELSE WithHeader(x).inProgress[d]]
  <2>1. /\ DelB2G(WithHeader(x), {x}).get = WithHeader(x).get \ {x}
        /\ DelB2G(WithHeader(x), {x}).inProgress =
              [d \in Block |-> IF d \in {x} THEN 0 ELSE WithHeader(x).inProgress[d]]
    BY DEF DelB2G
  <2>2. QED
    BY <1>2, <1>3, <2>1, Zenon
<1>5. QED
  BY <1>1, <1>2, <1>3, <1>4 DEF KeepsSlot

LEMMA GiveUpKeepsSlot ==
    ASSUME CoreInv, NEW x \in Block \ {Root}, Wanted(x), NEW b \in Block \ givenUp', GiveUp(x),
           ReceivedBlocks' = ReceivedBlocks
    PROVE  KeepsSlot(b)
<1>1. b \in Block /\ x \in Block \ {Root}
  OBVIOUS
<1>2. /\ WithHeader(x).get = b2g.get \cup {x}
      /\ WithHeader(x).inProgress =
            [d \in Block |-> IF d = x /\ x \notin b2g.get THEN 0 ELSE b2g.inProgress[d]]
  BY <1>1, WithHeaderFacts
<1>3. b \notin Branch(x) /\ x \in Branch(x)
  BY <1>1, BranchFacts DEF GiveUp
<1>4. b2g' = DelB2G(WithHeader(x), Branch(x))
  BY DEF GiveUp
<1>5. /\ b2g'.get = (b2g.get \cup {x}) \ Branch(x)
      /\ b2g'.inProgress =
            [d \in Block |-> IF d \in Branch(x) THEN 0 ELSE WithHeader(x).inProgress[d]]
  <2>1. /\ DelB2G(WithHeader(x), Branch(x)).get = WithHeader(x).get \ Branch(x)
        /\ DelB2G(WithHeader(x), Branch(x)).inProgress =
              [d \in Block |-> IF d \in Branch(x) THEN 0 ELSE WithHeader(x).inProgress[d]]
    BY DEF DelB2G
  <2>2. QED
    BY <1>2, <1>4, <2>1, Zenon
<1>6. QED
  BY <1>1, <1>2, <1>3, <1>5 DEF KeepsSlot

LEMMA AssembledKeepsSlot ==
    ASSUME CoreInv, NEW x \in Block \ {Root}, Wanted(x), NEW b \in Block \ givenUp',
           NEW copy, Assembled(x, copy)
    PROVE  KeepsSlot(b)
<1>1. CASE Receive(x)
  BY <1>1, ReceiveKeepsSlot
<1>2. CASE GiveUp(x) /\ UNCHANGED ReceivedBlocks
  BY <1>2, GiveUpKeepsSlot
<1>3. CASE b2g' = [WithHeader(x) EXCEPT !.txs = @ \cup {x}] /\ UNCHANGED ReceivedBlocks
  <2>1. WithHeader(x) \in B2G
    BY WithHeaderFacts DEF QueueOK
  <2>2. b2g'.get = WithHeader(x).get /\ b2g'.inProgress = WithHeader(x).inProgress
    BY <1>3, <2>1 DEF B2G
  <2>3. QED
    BY <1>3, <2>2, HeaderKeepsSlot
<1>4. QED
  BY <1>1, <1>2, <1>3, Zenon DEF Assembled

\* A step that changes neither the queue nor what has come.
LEMMA QuietKeepsSlot ==
    ASSUME CoreInv, UNCHANGED <<b2g, ReceivedBlocks>>, NEW b \in Block
    PROVE  KeepsSlot(b)
BY DEF KeepsSlot

\* Every step of a connection keeps the slots.
LEMMA SlotConn ==
    ASSUME TypeOK, CoreInv, CoreInv', SlotInv, NEW c \in Conn, ConnNext(c),
           NEW b \in Block \ givenUp'
    PROVE  SlotOf(b)'
<1> USE DEF dlVars, rcvVars, treeVars
<1>q. /\ SlotOf(b) /\ b \in Block /\ b2g \in B2G
      /\ GetBlockInProgress \in [Conn -> SUBSET Block]
  <2>1. givenUp \subseteq givenUp'
    BY GivenUpConn DEF TypeOK
  <2>2. QED
    BY <2>1 DEF SlotInv, TypeOK
<1>0. ASSUME KeepsSlot(b), UNCHANGED GetBlockInProgress
      PROVE  SlotOf(b)'
  <2>1. Downloading(b)' = Downloading(b)
    BY <1>0 DEF Downloading
  <2>2. QED
    BY <1>0, <1>q, <2>1, SlotSame
<1>1. CASE Connect(c) \/ HangUp(c) \/ SendGetHeaders(c) \/ NetworkTick(c)
  BY <1>0, <1>1, QuietKeepsSlot DEF Connect, HangUp, SendGetHeaders, NetworkTick
<1>2. ASSUME NEW S \in SUBSET GetBlockInProgress[c], b2g' = GivenBack(b2g, S),
             UNCHANGED ReceivedBlocks,
             GetBlockInProgress' = [GetBlockInProgress EXCEPT ![c] = @ \ S]
      PROVE  SlotOf(b)'
  <2>1. /\ b2g'.get = b2g.get
        /\ b2g'.inProgress[b] = IF b \notin S \cap b2g.get THEN b2g.inProgress[b]
                                ELSE IF b2g.inProgress[b] = 0 THEN UintMax ELSE b2g.inProgress[b] - 1
    BY <1>2, <1>q DEF GivenBack, B2G
  <2>2. CASE b \in S
    <3>1. Downloading(b)' = Downloading(b) \ {c} /\ c \in Downloading(b)
      BY <2>2, <1>2, <1>q DEF Downloading
    <3>2. QED
      BY <1>2, <1>q, <2>1, <2>2, <3>1, SlotGivenBack
  <2>3. CASE b \notin S
    <3>1. Downloading(b)' = Downloading(b)
      BY <2>3, <1>2, <1>q DEF Downloading
    <3>2. KeepsSlot(b)
      BY <1>2, <2>1, <2>3 DEF KeepsSlot
    <3>3. QED
      BY <1>q, <3>1, <3>2, SlotSame
  <2>4. QED
    BY <2>2, <2>3
<1>3. CASE RunEnds(c)
  <2>1. [GetBlockInProgress EXCEPT ![c] = {}] =
        [GetBlockInProgress EXCEPT ![c] = @ \ GetBlockInProgress[c]]
    OBVIOUS
  <2>2. GetBlockInProgress[c] \in SUBSET GetBlockInProgress[c]
    OBVIOUS
  <2>3. QED
    BY <1>2, <1>3, <2>1, <2>2 DEF RunEnds
<1>4. ASSUME NEW S \in SUBSET GetBlockInProgress[c], NEW headers, Expire(c, S, headers)
      PROVE  SlotOf(b)'
  BY <1>2, <1>4 DEF Expire
<1>5. ASSUME NEW hs, HandleHeaders(c, hs)
      PROVE  SlotOf(b)'
  <2>1. b2g' = AddB2G(b2g, NewHeaders(hs)) /\ UNCHANGED <<ReceivedBlocks, GetBlockInProgress>>
    BY <1>5 DEF HandleHeaders
  <2>2. /\ b2g'.get = b2g.get \cup NewHeaders(hs)
        /\ b2g'.inProgress = [d \in Block |-> IF d \in NewHeaders(hs) THEN 0 ELSE b2g.inProgress[d]]
    <3>1. /\ AddB2G(b2g, NewHeaders(hs)).get = b2g.get \cup NewHeaders(hs)
          /\ AddB2G(b2g, NewHeaders(hs)).inProgress =
                [d \in Block |-> IF d \in NewHeaders(hs) THEN 0 ELSE b2g.inProgress[d]]
      BY DEF AddB2G
    <3>2. QED
      BY <2>1, <3>1, Zenon
  <2>3. NewHeaders(hs) \cap b2g.get = {}
    BY DEF NewHeaders
  <2>4. KeepsSlot(b)
    BY <1>q, <2>1, <2>2, <2>3 DEF KeepsSlot
  <2>5. QED
    BY <1>0, <2>1, <2>4
<1>6. CASE HeadersAnswer(c) \/ HeadersAnnounce(c)
  BY <1>5, <1>6 DEF HeadersAnswer, HeadersAnnounce
<1>7. CASE GetBlockData(c)
  <2>1. PICK S \in SUBSET MayAsk(c) :
            /\ b2g' = Taken(b2g, S)
            /\ GetBlockInProgress' = [GetBlockInProgress EXCEPT ![c] = @ \cup S]
    BY <1>7, Zenon DEF GetBlockData
  <2>2. ReceivedBlocks' = ReceivedBlocks
    BY <1>7 DEF GetBlockData
  <2>3. /\ b2g'.get = b2g.get
        /\ b2g'.inProgress[b] = IF b \in S THEN b2g.inProgress[b] + 1 ELSE b2g.inProgress[b]
    BY <2>1, <1>q DEF Taken, B2G
  <2>4. CASE b \in S
    <3>1. /\ b \in b2g.get /\ b \notin GetBlockInProgress[c]
          /\ b2g.inProgress[b] < MaxBlockAtOnce
      BY <2>1, <2>4 DEF MayAsk
    <3>2. Downloading(b)' = Downloading(b) \cup {c} /\ c \notin Downloading(b)
      BY <2>1, <2>4, <1>q, <3>1 DEF Downloading
    <3>3. QED
      BY <1>q, <2>2, <2>3, <2>4, <3>1, <3>2, SlotTaken
  <2>5. CASE b \notin S
    <3>1. Downloading(b)' = Downloading(b)
      BY <2>1, <2>5, <1>q DEF Downloading
    <3>2. KeepsSlot(b)
      BY <2>2, <2>3, <2>5 DEF KeepsSlot
    <3>3. QED
      BY <1>q, <3>1, <3>2, SlotSame
  <2>6. QED
    BY <2>4, <2>5
<1>8. ASSUME NEW x \in Block \ {Root},
             ProcessInv(c, x) \/ CompactUnlinked(c, x) \/ CompactTooMany(c, x)
      PROVE  SlotOf(b)'
  BY <1>0, <1>8, QuietKeepsSlot DEF ProcessInv, CompactUnlinked, CompactTooMany
<1>9. ASSUME NEW x, NoLongerAsked(c, x), KeepsSlot(b), Compact \/ x \notin b2g'.get
      PROVE  SlotOf(b)'
  <2>1. Downloading(b)' \subseteq Downloading(b)
    BY <1>9, <1>q DEF Downloading, NoLongerAsked
  <2>2. b # x => Downloading(b)' = Downloading(b)
    BY <1>9, <1>q DEF Downloading, NoLongerAsked
  <2>3. QED
    BY <1>9, <1>q, <2>1, <2>2, SlotSame
<1>10. ASSUME NEW x \in Block \ {Root}, BlockAgain(c, x)
       PROVE  SlotOf(b)'
  BY <1>9, <1>10, QuietKeepsSlot DEF BlockAgain, CoreInv, TreeInv
<1>11. ASSUME NEW x \in Block \ {Root}, BlockReceived(c, x)
       PROVE  SlotOf(b)'
  <2>1. KeepsSlot(b) /\ NoLongerAsked(c, x)
    BY <1>11, ReceiveKeepsSlot DEF BlockReceived
  <2>2. x \notin b2g'.get
    BY <1>11 DEF BlockReceived, Receive, CoreInv, TreeInv
  <2>3. QED
    BY <1>9, <2>1, <2>2
<1>12. ASSUME NEW x \in Block \ {Root}, NEW copy, BlockWronglyMined(c, x, copy)
       PROVE  SlotOf(b)'
  <2>1. Wanted(x) /\ GiveUp(x) /\ UNCHANGED <<ReceivedBlocks, GetBlockInProgress>>
    BY <1>12 DEF BlockWronglyMined
  <2>2. QED
    BY <1>0, <2>1, GiveUpKeepsSlot
<1>13. ASSUME NEW x \in Block \ {Root}, NEW copy, BlockCorrupt(c, x, copy)
       PROVE  SlotOf(b)'
  <2>1. /\ Wanted(x) /\ b2g' = Discarded(WithHeader(x), x)
        /\ UNCHANGED <<ReceivedBlocks, GetBlockInProgress>>
    BY <1>13 DEF BlockCorrupt
  <2>2. WithHeader(x) \in B2G
    BY <2>1, WithHeaderFacts DEF QueueOK
  <2>3. b2g'.get = WithHeader(x).get /\ b2g'.inProgress = WithHeader(x).inProgress
    BY <2>1, <2>2 DEF B2G, Discarded
  <2>4. QED
    BY <1>0, <2>1, <2>3, HeaderKeepsSlot
<1>14. ASSUME NEW x \in Block \ {Root}, NEW copy, CompactComplete(c, x, copy)
       PROVE  SlotOf(b)'
  BY <1>0, <1>14, AssembledKeepsSlot DEF CompactComplete, CompactSeen
<1>15. ASSUME NEW x \in Block \ {Root}, CompactMissing(c, x)
       PROVE  SlotOf(b)'
  <2>1. /\ Wanted(x) /\ Compact /\ b2g' = Taken(WithHeader(x), {x})
        /\ WithHeader(x).inProgress[x] < MaxBlockAtOnce
        /\ GetBlockInProgress' = [GetBlockInProgress EXCEPT ![c] = @ \cup {x}]
        /\ ReceivedBlocks' = ReceivedBlocks
    BY <1>15 DEF CompactMissing, CompactSeen
  <2>2. WithHeader(x) \in B2G
    BY <2>1, WithHeaderFacts DEF QueueOK
  <2>3. /\ b2g'.get = b2g.get \cup {x}
        /\ WithHeader(x).inProgress[b] = IF b = x /\ x \notin b2g.get THEN 0 ELSE b2g.inProgress[b]
    <3>1. /\ WithHeader(x).get = b2g.get \cup {x}
          /\ WithHeader(x).inProgress =
                [d \in Block |-> IF d = x /\ x \notin b2g.get THEN 0 ELSE b2g.inProgress[d]]
      BY <2>1, WithHeaderFacts
    <3>2. b2g'.get = WithHeader(x).get
      BY <2>1, <2>2 DEF B2G, Taken
    <3>3. QED
      BY <1>q, <3>1, <3>2
  <2>4. b2g'.inProgress[b] = IF b \in {x} THEN WithHeader(x).inProgress[b] + 1
                             ELSE WithHeader(x).inProgress[b]
    BY <2>1, <2>2, <1>q DEF B2G, Taken
  <2>5. CASE b = x
    <3>1. Downloading(b)' = Downloading(b) \cup {c}
      BY <2>1, <2>5, <1>q DEF Downloading
    <3>2. QED
      BY <1>q, <2>1, <2>3, <2>4, <2>5, <3>1, SlotTaken
  <2>6. CASE b # x
    <3>1. Downloading(b)' = Downloading(b)
      BY <2>1, <2>6, <1>q DEF Downloading
    <3>2. KeepsSlot(b)
      BY <2>1, <2>3, <2>4, <2>6 DEF KeepsSlot
    <3>3. QED
      BY <1>q, <3>1, <3>2, SlotSame
  <2>7. QED
    BY <2>5, <2>6
<1>16. ASSUME NEW x, x \in collecting[c] PROVE Compact
  BY <1>16 DEF SlotInv, NoCompact
<1>17. ASSUME NEW x \in Block \ {Root}, BlockTxnLate(c, x) \/ BlockTxnError(c, x)
       PROVE  SlotOf(b)'
  BY <1>9, <1>16, <1>17, QuietKeepsSlot DEF BlockTxnLate, BlockTxnError
<1>18. ASSUME NEW x \in Block \ {Root}, NEW copy, BlockTxn(c, x, copy)
       PROVE  SlotOf(b)'
  <2>1. /\ x \in collecting[c] /\ x \in b2g.get /\ Assembled(x, copy) /\ NoLongerAsked(c, x)
    BY <1>18 DEF BlockTxn
  <2>2. Wanted(x)
    BY <2>1 DEF Wanted, CoreInv, TreeInv
  <2>3. QED
    BY <1>9, <1>16, <2>1, <2>2, AssembledKeepsSlot
<1>19. QED
  BY <1>1, <1>3, <1>4, <1>6, <1>7, <1>8, <1>10, <1>11, <1>12, <1>13, <1>14, <1>15, <1>17, <1>18,
     Zenon DEF ConnNext

\* Without compact blocks no handler collects transactions, and what was read
\* of a corrupt copy is discarded.
LEMMA NoCompactConn ==
    ASSUME TypeOK, CoreInv, NoCompact, ~Compact, NEW c \in Conn, ConnNext(c)
    PROVE  collecting' = [d \in Conn |-> {}] /\ b2g'.txs = {}
<1> USE DEF dlVars, rcvVars, treeVars
<1>q. collecting = [d \in Conn |-> {}] /\ b2g.txs = {} /\ b2g \in B2G
  BY DEF NoCompact, TypeOK
<1>1. CASE Connect(c) \/ HangUp(c) \/ SendGetHeaders(c) \/ NetworkTick(c)
  BY <1>1, <1>q DEF Connect, HangUp, SendGetHeaders, NetworkTick
<1>2. \A S : GivenBack(b2g, S).txs = b2g.txs /\ Taken(b2g, S).txs = b2g.txs
  BY <1>q DEF GivenBack, Taken, B2G
<1>3. CASE RunEnds(c)
  BY <1>3, <1>2, <1>q DEF RunEnds
<1>4. ASSUME NEW S, NEW headers, Expire(c, S, headers)
      PROVE  collecting' = [d \in Conn |-> {}] /\ b2g'.txs = {}
  BY <1>4, <1>2, <1>q DEF Expire
<1>5. ASSUME NEW hs, HandleHeaders(c, hs)
      PROVE  collecting' = [d \in Conn |-> {}] /\ b2g'.txs = {}
  BY <1>5, <1>q DEF HandleHeaders, AddB2G
<1>6. CASE HeadersAnswer(c) \/ HeadersAnnounce(c)
  BY <1>5, <1>6 DEF HeadersAnswer, HeadersAnnounce
<1>7. CASE GetBlockData(c)
  <2>1. PICK S : b2g' = Taken(b2g, S)
    BY <1>7, Zenon DEF GetBlockData
  <2>2. QED
    BY <1>7, <1>2, <1>q, <2>1 DEF GetBlockData
<1>8. ASSUME NEW x \in Block \ {Root}
      PROVE  /\ WithHeader(x).txs = {}
             /\ \A S : DelB2G(WithHeader(x), S).txs = {}
  BY <1>q DEF WithHeader, AddB2G, DelB2G
<1>9. ASSUME NEW x \in Block \ {Root}, ProcessInv(c, x)
      PROVE  collecting' = [d \in Conn |-> {}] /\ b2g'.txs = {}
  BY <1>9, <1>q DEF ProcessInv
<1>10. ASSUME NEW x \in Block \ {Root}, BlockAgain(c, x)
       PROVE  collecting' = [d \in Conn |-> {}] /\ b2g'.txs = {}
  BY <1>10, <1>q DEF BlockAgain, NoLongerAsked
<1>11. ASSUME NEW x \in Block \ {Root}, BlockReceived(c, x)
       PROVE  collecting' = [d \in Conn |-> {}] /\ b2g'.txs = {}
  BY <1>11, <1>8, <1>q DEF BlockReceived, Receive, NoLongerAsked
<1>12. ASSUME NEW x \in Block \ {Root}, NEW copy, BlockWronglyMined(c, x, copy)
       PROVE  collecting' = [d \in Conn |-> {}] /\ b2g'.txs = {}
  BY <1>12, <1>8, <1>q DEF BlockWronglyMined, GiveUp
<1>13. ASSUME NEW x \in Block \ {Root}, NEW copy, BlockCorrupt(c, x, copy)
       PROVE  collecting' = [d \in Conn |-> {}] /\ b2g'.txs = {}
  <2>1. b2g' = Discarded(WithHeader(x), x) /\ Wanted(x)
    BY <1>13 DEF BlockCorrupt
  <2>2. WithHeader(x) \in B2G
    BY <2>1, WithHeaderFacts DEF QueueOK
  <2>3. b2g'.txs = WithHeader(x).txs \ {x}
    BY <2>1, <2>2 DEF Discarded, B2G
  <2>4. QED
    BY <1>13, <1>8, <1>q, <2>3 DEF BlockCorrupt
<1>14. ASSUME NEW x, NEW copy,
              CompactUnlinked(c, x) \/ CompactTooMany(c, x) \/ CompactComplete(c, x, copy)
                \/ CompactMissing(c, x)
       PROVE  FALSE
  BY <1>14 DEF CompactUnlinked, CompactTooMany, CompactComplete, CompactMissing, CompactSeen
<1>15. ASSUME NEW x, NEW copy,
              BlockTxnLate(c, x) \/ BlockTxn(c, x, copy) \/ BlockTxnError(c, x)
       PROVE  FALSE
  BY <1>15, <1>q DEF BlockTxnLate, BlockTxn, BlockTxnError
<1>16. QED
  BY <1>1, <1>3, <1>4, <1>6, <1>7, <1>9, <1>10, <1>11, <1>12, <1>13, <1>14, <1>15,
     Zenon DEF ConnNext

LEMMA SlotStep == TypeOK /\ CoreInv /\ SlotInv /\ [Next]_vars => SlotInv'
<1> SUFFICES ASSUME TypeOK, CoreInv, SlotInv, [Next]_vars PROVE SlotInv'
  OBVIOUS
<1>0. CoreInv'
  BY InvStep
<1>1. ASSUME NEW c \in Conn, ConnNext(c) PROVE SlotInv'
  <2>1. NoCompact'
    BY <1>1, NoCompactConn DEF NoCompact, SlotInv
  <2>2. \A b \in Block \ givenUp' : SlotOf(b)'
    BY <1>0, <1>1, SlotConn
  <2>3. QED
    BY <2>1, <2>2 DEF SlotInv
<1>2. CASE UNCHANGED <<b2g, ReceivedBlocks, GetBlockInProgress, collecting, givenUp>>
  <2>1. \A b \in Block : Downloading(b)' = Downloading(b)
    BY <1>2 DEF Downloading
  <2>2. \A b \in Block \ givenUp' : SlotOf(b)'
    BY <1>2, <2>1 DEF SlotInv, SlotOf
  <2>3. QED
    BY <1>2, <2>2 DEF SlotInv, NoCompact
<1>3. ASSUME NEW b \in Block \ {Root}, Accept(b) PROVE SlotInv'
  BY <1>2, <1>3 DEF Accept, treeVars, connVars, dlVars
<1>4. CASE UNCHANGED vars
  BY <1>2, <1>4 DEF vars, treeVars, rcvVars, connVars, dlVars
<1>5. QED
  BY <1>1, <1>3, <1>4 DEF Next

LEMMA SlotInit == Init => SlotInv
<1> SUFFICES ASSUME Init PROVE SlotInv
  OBVIOUS
<1>1. \A b \in Block : Downloading(b) = {} /\ b \notin b2g.get
  BY DEF Init, Downloading
<1>2. QED
  BY <1>1 DEF Init, SlotInv, SlotOf, NoCompact

LEMMA SlotsHold == Spec => [](TypeOK /\ CoreInv /\ SlotInv)
<1>1. Init => TypeOK /\ CoreInv /\ SlotInv
  BY TypeInit, CoreInit, SlotInit
<1>2. TypeOK /\ CoreInv /\ SlotInv /\ [Next]_vars => TypeOK' /\ CoreInv' /\ SlotInv'
  BY InvStep, SlotStep
<1>3. QED
  BY <1>1, <1>2, PTL DEF Spec

\* InProgress: no download is given back twice, so the count of a block that
\* has not been given up is never below the number of connections that are
\* getting it, nor above MaxBlockAtOnce; with compact blocks and without, and
\* whatever branches are given up around it.
THEOREM SlotsStayHeld == Spec => []SlotsAreHeld
<1>1. TypeOK /\ CoreInv /\ SlotInv => SlotsAreHeld
  <2> SUFFICES ASSUME TypeOK, SlotInv, NEW b \in b2g.get \ givenUp
               PROVE  b2g.inProgress[b] \in Cardinality(Downloading(b))..MaxBlockAtOnce
    BY DEF SlotsAreHeld
  <2>1. b \in Block /\ b2g.inProgress[b] \in Nat
    BY DEF TypeOK, B2G
  <2>2. QED
    BY <2>1, DownloadingFinite, FetchAssumption DEF SlotInv, SlotOf
<1>2. QED
  BY <1>1, SlotsHold, PTL

\* Without compact blocks every slot that a time-out, a corrupt copy or a lost
\* connection frees can be used again.
THEOREM SlotsStayExact ==
    ASSUME ~Compact
    PROVE  Spec => []SlotsAreExact
<1>1. TypeOK /\ CoreInv /\ SlotInv => SlotsAreExact
  BY DEF SlotInv, SlotOf, SlotsAreExact, TypeOK, B2G
<1>2. QED
  BY <1>1, SlotsHold, PTL

-----------------------------------------------------------------------------
(* Honest peers *)

LEMMA HonestConn ==
    ASSUME TypeOK, SlotInv, ~Compact, HonestStaysConnected, NEW c \in Conn, ConnNext(c)
    PROVE  HonestStaysConnected'
<1> USE DEF hdrVars, dlVars, rcvVars, treeVars
<1>q. /\ conn \in [Conn -> {"off", "on", "broken", "banit", "banned"}]
      /\ b2g.txs = {} /\ collecting = [d \in Conn |-> {}]
  BY DEF TypeOK, SlotInv, NoCompact
<1>0. ASSUME NEW v, conn' = [conn EXCEPT ![c] = v],
             c \in Honest => v \notin {"banit", "banned"}
      PROVE  HonestStaysConnected'
  BY <1>0, <1>q DEF HonestStaysConnected
<1>1. CASE conn' = conn
  BY <1>1 DEF HonestStaysConnected
<1>2. CASE Connect(c)
  BY <1>0, <1>2 DEF Connect
<1>3. CASE HangUp(c)
  BY <1>0, <1>3 DEF HangUp
<1>4. CASE RunEnds(c)
  <2>1. c \in Honest => conn[c] # "banit"
    BY DEF HonestStaysConnected
  <2>2. QED
    BY <1>0, <1>4, <2>1 DEF RunEnds
<1>5. ASSUME NEW S, NEW headers, Expire(c, S, headers)
      PROVE  HonestStaysConnected'
  <2>1. c \in Honest => conn[c] \notin {"banit", "banned"}
    BY DEF HonestStaysConnected
  <2>2. QED
    BY <1>0, <1>5, <2>1 DEF Expire
<1>6. CASE SendGetHeaders(c) \/ NetworkTick(c) \/ GetBlockData(c) \/ HeadersAnswer(c) \/ HeadersAnnounce(c)
  BY <1>1, <1>6 DEF SendGetHeaders, NetworkTick, GetBlockData, HeadersAnswer, HeadersAnnounce,
                    HandleHeaders
<1>7. ASSUME NEW x, ProcessInv(c, x) \/ BlockAgain(c, x) \/ BlockReceived(c, x)
      PROVE  HonestStaysConnected'
  BY <1>1, <1>7 DEF ProcessInv, BlockAgain, BlockReceived
<1>8. ASSUME NEW x \in Block \ {Root}, NEW copy, BlockWronglyMined(c, x, copy)
      PROVE  HonestStaysConnected'
  <2>1. ASSUME copy = "faithful" PROVE x \in Malformed /\ x \in Has(c)
    BY <1>8, <2>1 DEF BlockWronglyMined, PostCheckBlock, MaySend
  <2>2. c \notin Honest
    BY <1>8, <2>1, HonestAssumption DEF Has, Sound, BlockWronglyMined, MaySend
  <2>3. QED
    BY <1>0, <1>8, <2>2 DEF BlockWronglyMined
<1>9. ASSUME NEW x \in Block \ {Root}, NEW copy, BlockCorrupt(c, x, copy)
      PROVE  HonestStaysConnected'
  <2>1. copy # "faithful"
    BY <1>9, <1>q DEF BlockCorrupt, PostCheckBlock
  <2>2. c \notin Honest
    BY <1>9, <2>1 DEF BlockCorrupt, MaySend
  <2>3. QED
    BY <1>0, <1>9, <2>2 DEF BlockCorrupt
<1>10. ASSUME NEW x, NEW copy,
              CompactUnlinked(c, x) \/ CompactTooMany(c, x) \/ CompactComplete(c, x, copy)
                \/ CompactMissing(c, x)
       PROVE  FALSE
  BY <1>10 DEF CompactUnlinked, CompactTooMany, CompactComplete, CompactMissing, CompactSeen
<1>11. ASSUME NEW x, NEW copy,
              BlockTxnLate(c, x) \/ BlockTxn(c, x, copy) \/ BlockTxnError(c, x)
       PROVE  FALSE
  BY <1>11, <1>q DEF BlockTxnLate, BlockTxn, BlockTxnError
<1>12. QED
  BY <1>2, <1>3, <1>4, <1>5, <1>6, <1>7, <1>8, <1>9, <1>10, <1>11, Zenon DEF ConnNext

\* Without compact blocks a peer that only sends what its chain has is never
\* banned for it, whatever the other peers have sent before.
THEOREM HonestStayConnected ==
    ASSUME ~Compact
    PROVE  Spec => []HonestStaysConnected
<1>1. Init => HonestStaysConnected
  BY FetchAssumption DEF Init, HonestStaysConnected
<1>2. TypeOK /\ CoreInv /\ SlotInv /\ HonestStaysConnected /\ [Next]_vars => HonestStaysConnected'
  <2> SUFFICES ASSUME TypeOK, SlotInv, HonestStaysConnected, [Next]_vars
               PROVE  HonestStaysConnected'
    OBVIOUS
  <2>1. ASSUME NEW c \in Conn, ConnNext(c) PROVE HonestStaysConnected'
    BY <2>1, HonestConn
  <2>2. CASE conn' = conn
    BY <2>2 DEF HonestStaysConnected
  <2>3. ASSUME NEW b \in Block \ {Root}, Accept(b) PROVE HonestStaysConnected'
    BY <2>2, <2>3 DEF Accept, connVars
  <2>4. CASE UNCHANGED vars
    BY <2>2, <2>4 DEF vars, connVars
  <2>5. QED
    BY <2>1, <2>3, <2>4 DEF Next
<1>3. QED
  BY <1>1, <1>2, SlotsHold, PTL DEF Spec
=============================================================================
