------------------------------- MODULE Fetch -------------------------------
(***************************************************************************)
(* The download of blocks (client/network): headers come in from the peers *)
(* and put blocks into BlocksToGet, every connection asks its peer for     *)
(* some of them, and the data comes back as whole blocks, as compact       *)
(* blocks, corrupt, late, or never.                                        *)
(*                                                                         *)
(* Each handler runs under MutexRcv and is one step of its connection's    *)
(* goroutine; connections interleave.  The main thread is reduced to       *)
(* taking the blocks in the order of the tree (Chain has the rest).        *)
(***************************************************************************)
EXTENDS BlockTree, FiniteSetsExt

CONSTANTS
    Conn,               \* the peers, one connection each
    TipOf,              \* Conn -> Block: the last block of the peer's chain
    VersionHeight,      \* Conn -> Nat: the height in its version message
    Honest,             \* peers that answer in time, correctly, and stay
    Special,            \* friends: IsSpecial, never dropped or banned
    Malformed,          \* blocks that PostCheckBlock refuses in any copy
    Alterable,          \* bound: blocks of which altered copies are sent
    Compact,            \* TRUE: compact blocks are used
    MaxBlockAtOnce,     \* CFG.Net.MaxBlockAtOnce
    MaxBlocksForward,   \* how far above the head blocks are asked for
    MaxPeersBlocks,     \* MAX_PEERS_BLOCKS_IN_PROGRESS
    MaxGetdataForward,  \* MAX_GETDATA_FORWARD, in blocks of average size
    UintMax,            \* the largest value of the type of InProgress
    None

VARIABLES
    BlockIndex,         \* nodes of the block tree
    LastCommitedHeader,
    b2g,                \* BlocksToGet and its index, see B2G
    ReceivedBlocks,
    committed,          \* blocks that the main thread has accepted
    last,               \* common.Last.Block
    conn,               \* "off", "on", "broken" (why unimportant), "banit", "banned"
    AllHeadersReceived,
    LastHeadersEmpty,
    asked,              \* GetHeadersInProgress: the first locator, or None
    NodeHeight,         \* Node.Height
    GetBlockInProgress, \* blocks asked for on this connection
    collecting,         \* those of them that have a CmpctBlockCollector
    BlocksExpired,      \* whether it is not zero
    keepBlocksOver,
    givenUp             \* history: the blocks ever deleted as a wrongly mined
                        \* branch; they may have been announced anew since

treeVars == <<BlockIndex, LastCommitedHeader, givenUp>>
rcvVars  == <<ReceivedBlocks, committed, last>>
hdrVars  == <<AllHeadersReceived, LastHeadersEmpty, asked, NodeHeight>>
dlVars   == <<GetBlockInProgress, collecting>>
connVars == <<conn, hdrVars, dlVars, BlocksExpired, keepBlocksOver>>
vars == <<treeVars, b2g, rcvVars, connVars>>

-----------------------------------------------------------------------------

Heights == 0..Cardinality(Block)

ASSUME FetchAssumption ==
    /\ IsFiniteSet(Block) /\ Root \in Block /\ Parent \in [Block \ {Root} -> Block]
    /\ \A b \in Block : Root \in AncOf[b]
    /\ IsFiniteSet(Conn)
    /\ TipOf \in [Conn -> Block] /\ VersionHeight \in [Conn -> Nat]
    /\ Honest \subseteq Conn /\ Special \subseteq Conn
    /\ Malformed \subseteq Block \ {Root} /\ Alterable \subseteq Block
    /\ Compact \in BOOLEAN
    /\ MaxBlockAtOnce \in Nat \ {0} /\ MaxBlocksForward \in Nat \ {0}
    /\ MaxPeersBlocks \in Nat \ {0} /\ MaxGetdataForward \in Nat
    /\ UintMax \in Nat \ {0} /\ MaxBlockAtOnce <= UintMax
    /\ None \notin Block

\* The blocks of the peer's chain.
Has(c) == AncOf[TipOf[c]]

\* Blocks that are not built on a wrongly mined one.
Sound == {b \in Block : AncOf[b] \cap Malformed = {}}

ASSUME HonestAssumption == \A c \in Honest : TipOf[c] \in Sound

-----------------------------------------------------------------------------
(* BlocksToGet with IndexToBlocksToGet and LowestIndexToBlocksToGet *)

B2G == [get        : SUBSET Block,
        inProgress : [Block -> 0..UintMax],
        txs        : SUBSET Block,       \* Block.Txs holds those of a corrupt copy
        index      : [Heights -> SUBSET Block],
        lowest     : Heights]

\* Mutant of AddB2G: only the first block sets the lowest index.
AddB2GFirst(q, S) ==
    [get        |-> q.get \cup S,
     inProgress |-> [b \in Block |-> IF b \in S THEN 0 ELSE q.inProgress[b]],
     txs        |-> q.txs \ S,
     index      |-> [h \in Heights |-> q.index[h] \cup {b \in S : Height(b) = h}],
     lowest     |-> IF S = {} \/ q.lowest # 0 THEN q.lowest
                    ELSE Min({Height(b) : b \in S})]

\* AddB2G of the blocks of S, one after the other.
AddB2G(q, S) ==
    [get        |-> q.get \cup S,
     inProgress |-> [b \in Block |-> IF b \in S THEN 0 ELSE q.inProgress[b]],
     txs        |-> q.txs \ S,
     index      |-> [h \in Heights |-> q.index[h] \cup {b \in S : Height(b) = h}],
     lowest     |-> LET new == {Height(b) : b \in S}
                    IN  IF new = {} \/ (q.lowest # 0 /\ q.lowest <= Min(new)) THEN q.lowest
                        ELSE Min(new)]

\* LowestIndexToBlocksToGet++ until there is an entry; past the end of uint32
\* the search begins again at zero.
NextLowest(index, low) ==
    LET used == {h \in Heights : index[h] # {}}
        up   == {h \in used : h > low}
    IN  IF used = {} THEN 0 ELSE IF up # {} THEN Min(up) ELSE Min(used)

\* DelB2G of the blocks of S, one after the other; those that are not there
\* are passed over.
DelB2G(q, S) ==
    LET index == [h \in Heights |-> q.index[h] \ (S \cap q.get)]
    IN  [get        |-> q.get \ S,
         inProgress |-> [b \in Block |-> IF b \in S THEN 0 ELSE q.inProgress[b]],
         txs        |-> q.txs \ S,
         index      |-> index,
         lowest     |-> IF q.index[q.lowest] # {} /\ index[q.lowest] = {}
                        THEN NextLowest(index, q.lowest) ELSE q.lowest]

\* Mutant of Taken: a flag in the place of the count.
TakenOnce(q, S) ==
    [q EXCEPT !.inProgress = [b \in Block |-> IF b \in S THEN 1 ELSE q.inProgress[b]]]

\* InProgress++ and InProgress-- of the blocks of S that are still there.
Taken(q, S) ==
    [q EXCEPT !.inProgress = [b \in Block |->
        IF b \in S THEN q.inProgress[b] + 1 ELSE q.inProgress[b]]]

\* Mutant of GivenBack: the count is never taken back.
Kept(q, S) == q

GivenBack(q, S) ==
    [q EXCEPT !.inProgress = [b \in Block |->
        IF b \notin S \cap q.get THEN q.inProgress[b]
        ELSE IF q.inProgress[b] = 0 THEN UintMax ELSE q.inProgress[b] - 1]]

-----------------------------------------------------------------------------

\* The state variables; in particular the unsigned counts of BlocksToGet are in
\* their range, whatever ExpireHeadersAndGetData and the end of Run give back.
TypeOK ==
    /\ BlockIndex \subseteq Block /\ LastCommitedHeader \in Block
    /\ b2g \in B2G
    /\ ReceivedBlocks \subseteq Block /\ committed \subseteq Block /\ last \in Block
    /\ conn \in [Conn -> {"off", "on", "broken", "banit", "banned"}]
    /\ AllHeadersReceived \in [Conn -> BOOLEAN] /\ LastHeadersEmpty \in [Conn -> BOOLEAN]
    /\ asked \in [Conn -> Block \cup {None}]
    /\ NodeHeight \in [Conn -> Nat]
    /\ GetBlockInProgress \in [Conn -> SUBSET Block]
    /\ collecting \in [Conn -> SUBSET Block]
    /\ BlocksExpired \in [Conn -> BOOLEAN]
    /\ keepBlocksOver \in [Conn -> Nat]
    /\ givenUp \subseteq Block

Init ==
    /\ BlockIndex = {Root} /\ LastCommitedHeader = Root
    /\ b2g = [get |-> {}, inProgress |-> [b \in Block |-> 0], txs |-> {},
              index |-> [h \in Heights |-> {}], lowest |-> 0]
    /\ ReceivedBlocks = {Root} /\ committed = {Root} /\ last = Root
    /\ conn = [c \in Conn |-> "off"]
    /\ AllHeadersReceived = [c \in Conn |-> FALSE]
    /\ LastHeadersEmpty = [c \in Conn |-> FALSE]
    /\ asked = [c \in Conn |-> None]
    /\ NodeHeight = [c \in Conn |-> 0]
    /\ GetBlockInProgress = [c \in Conn |-> {}]
    /\ collecting = [c \in Conn |-> {}]
    /\ BlocksExpired = [c \in Conn |-> FALSE]
    /\ keepBlocksOver = [c \in Conn |-> 0]
    /\ givenUp = {}

\* DoNetwork, NewConnection and HandleVersion: a banned peer is not dialled.
Connect(c) ==
    /\ conn[c] = "off"
    /\ conn' = [conn EXCEPT ![c] = "on"]
    /\ AllHeadersReceived' = [AllHeadersReceived EXCEPT ![c] = FALSE]
    /\ LastHeadersEmpty' = [LastHeadersEmpty EXCEPT ![c] = FALSE]
    /\ NodeHeight' = [NodeHeight EXCEPT ![c] = VersionHeight[c]]
    /\ BlocksExpired' = [BlocksExpired EXCEPT ![c] = FALSE]
    /\ keepBlocksOver' = [keepBlocksOver EXCEPT ![c] = 0]
    /\ UNCHANGED <<treeVars, b2g, rcvVars, asked, dlVars>>

\* The socket fails or the peer hangs up; the node drops it as its worst peer.
HangUp(c) ==
    /\ conn[c] = "on" /\ c \notin Honest
    /\ conn' = [conn EXCEPT ![c] = "broken"]
    /\ UNCHANGED <<treeVars, b2g, rcvVars, hdrVars, dlVars, BlocksExpired, keepBlocksOver>>

\* The end of Run: whatever was asked for is given back.
RunEnds(c) ==
    /\ conn[c] \in {"broken", "banit"}
    /\ b2g' = GivenBack(b2g, GetBlockInProgress[c])
    /\ conn' = [conn EXCEPT ![c] =
                    IF conn[c] = "banit" /\ c \notin Special THEN "banned" ELSE "off"]
    /\ asked' = [asked EXCEPT ![c] = None]
    /\ GetBlockInProgress' = [GetBlockInProgress EXCEPT ![c] = {}]
    /\ collecting' = [collecting EXCEPT ![c] = {}]
    /\ UNCHANGED <<treeVars, rcvVars, AllHeadersReceived, LastHeadersEmpty, NodeHeight,
                   BlocksExpired, keepBlocksOver>>

-----------------------------------------------------------------------------
(* Headers *)

\* Of a message with the headers hs, those for which ProcessNewHeader gives
\* PH_STATUS_NEW: neither received nor waited for, and PreCheckBlock finds
\* the parent, in the tree or earlier in the message.
NewHeaders(hs) ==
    {b \in hs \ (ReceivedBlocks \cup b2g.get \cup BlockIndex) :
        \A a \in AncOf[b] \ BlockIndex : a \in hs \ ReceivedBlocks}

\* LastCommitedHeader once the headers S are in.
LastHeader(S) ==
    IF S = {} \/ Height(Highest(S)) <= Height(LastCommitedHeader)
    THEN LastCommitedHeader ELSE Highest(S)

\* AcceptHeader for the headers S.
AcceptHeaders(S) ==
    /\ BlockIndex' = BlockIndex \cup S /\ LastCommitedHeader' = LastHeader(S)
    /\ UNCHANGED givenUp

\* sendGetHeaders from Tick: not while blocks are being downloaded.
SendGetHeaders(c) ==
    /\ conn[c] = "on"
    /\ ~AllHeadersReceived[c] /\ asked[c] = None /\ GetBlockInProgress[c] = {}
    /\ asked' = [asked EXCEPT ![c] = LastCommitedHeader]
    /\ UNCHANGED <<treeVars, b2g, rcvVars, conn, AllHeadersReceived, LastHeadersEmpty,
                   NodeHeight, dlVars, BlocksExpired, keepBlocksOver>>

\* HandleHeaders of a message with the headers hs, and the getheaders that
\* Run sends when some were new.  LastHeadersHeightAsk, the height of the last
\* locator, is MovingCheckopintDepth below and less than any height here.
HandleHeaders(c, hs) ==
    LET new   == NewHeaders(hs)
        found == new \cup (hs \cap b2g.get)
    IN  /\ conn[c] = "on"
        /\ AcceptHeaders(new)
        /\ b2g' = AddB2G(b2g, new)
        /\ AllHeadersReceived' = [AllHeadersReceived EXCEPT ![c] = @ \/ new = {}]
        /\ LastHeadersEmpty' = [LastHeadersEmpty EXCEPT ![c] = found = {}]
        /\ NodeHeight' = [NodeHeight EXCEPT ![c] = Max({@} \cup {Height(b) : b \in found})]
        /\ asked' = [asked EXCEPT ![c] = IF new = {} THEN None ELSE LastCommitedHeader']
        /\ UNCHANGED <<rcvVars, conn, dlVars, BlocksExpired, keepBlocksOver>>

\* The answer to getheaders: the peer's chain above the highest locator on it.
HeadersAnswer(c) ==
    /\ asked[c] # None
    /\ HandleHeaders(c, Has(c) \ AncOf[Common(asked[c], TipOf[c])])

\* A peer announces its last block.  An honest one does so with a header only
\* to those who have the block before it; the others get an inv.
HeadersAnnounce(c) ==
    /\ TipOf[c] # Root /\ (c \in Honest => Parent[TipOf[c]] \in BlockIndex)
    /\ HandleHeaders(c, {TipOf[c]})

\* ProcessInv of a block: a peer that knows it can be asked for it.
ProcessInv(c, b) ==
    /\ conn[c] = "on" /\ b \in Has(c)
    /\ AllHeadersReceived[c] /\ b \notin ReceivedBlocks
    /\ IF b \in b2g.get
       THEN /\ NodeHeight' = [NodeHeight EXCEPT ![c] = Max({@, Height(b)})]
            /\ UNCHANGED AllHeadersReceived
       ELSE /\ AllHeadersReceived' = [AllHeadersReceived EXCEPT ![c] = FALSE]
            /\ UNCHANGED NodeHeight
    /\ UNCHANGED <<treeVars, b2g, rcvVars, conn, LastHeadersEmpty, asked, dlVars,
                   BlocksExpired, keepBlocksOver>>

\* NetworkTick: nobody is receiving headers, so push one that had some last
\* time.  Which one depends on counters that are not modelled.
NetworkTick(c) ==
    /\ conn[c] \in {"on", "broken", "banit"} /\ ~LastHeadersEmpty[c]
    /\ \A d \in Conn : conn[d] \in {"on", "broken", "banit"} =>
                           AllHeadersReceived[d] /\ asked[d] = None
    /\ AllHeadersReceived' = [AllHeadersReceived EXCEPT ![c] = FALSE]
    /\ UNCHANGED <<treeVars, b2g, rcvVars, conn, LastHeadersEmpty, asked, NodeHeight, dlVars,
                   BlocksExpired, keepBlocksOver>>

-----------------------------------------------------------------------------
(* Asking for blocks *)

\* The highest block to ask for of those that n connections are getting.
MaxHeight(c, n) ==
    Min({Height(last) + MaxBlocksForward \div (n + 1), Height(last) + MaxBlocksForward,
         NodeHeight[c], Height(LastCommitedHeader)})

\* Mutant of MayAsk: blocks asked for by one peer already are not asked for.
MayAskIfIdle(c) ==
    {b \in b2g.get \ GetBlockInProgress[c] :
        b2g.inProgress[b] = 0 /\ Height(b) <= MaxHeight(c, 0)}

MayAsk(c) ==
    {b \in b2g.get \ GetBlockInProgress[c] :
        /\ b2g.inProgress[b] < MaxBlockAtOnce
        /\ Height(b) <= MaxHeight(c, b2g.inProgress[b])}

\* GetBlockData looks for the fewest downloads first, then the lowest height.
Before(x, y) ==
    \/ b2g.inProgress[x] < b2g.inProgress[y]
    \/ b2g.inProgress[x] = b2g.inProgress[y] /\ Height(x) <= Height(y)

\* How many more blocks fit into the limits; none if they are reached.
Room(c) ==
    LET n == Cardinality(GetBlockInProgress[c])
    IN  IF n >= MaxPeersBlocks \/ (n > 0 /\ n + 1 > MaxGetdataForward) THEN 0
        ELSE Min({MaxPeersBlocks, MaxGetdataForward + 1}) - n

\* GetBlockData from Tick.  Where it only sets nextGetData nothing changes.
GetBlockData(c) ==
    /\ conn[c] = "on" /\ AllHeadersReceived[c]
    /\ Cardinality(GetBlockInProgress[c]) <= keepBlocksOver[c]
    /\ b2g.lowest # 0 /\ b2g.get # {}
    /\ ~BlocksExpired[c]
    /\ \E S \in SUBSET MayAsk(c) \ {{}} :
          /\ Cardinality(S) = Min({Room(c), Cardinality(MayAsk(c))})
          /\ \A x \in S, y \in MayAsk(c) \ S : Before(x, y)
          /\ b2g' = Taken(b2g, S)
          /\ GetBlockInProgress' = [GetBlockInProgress EXCEPT ![c] = @ \cup S]
          /\ keepBlocksOver' =
                [keepBlocksOver EXCEPT ![c] = (3 * Cardinality(GetBlockInProgress'[c])) \div 4]
    /\ UNCHANGED <<treeVars, rcvVars, conn, hdrVars, collecting, BlocksExpired>>

\* Blocks given up together with their parents: a copy that came while they did
\* not link was ignored, and is still waited for by the connection it came on.
Orphaned == {b \in givenUp : Parent[b] \in givenUp}

\* ExpireHeadersAndGetData, on a pong or once a minute: the peer has not sent
\* the blocks S, or the headers, and is disconnected unless it is a friend.
\* By then an honest peer has sent what it has.
Expire(c, S, headers) ==
    /\ conn[c] = "on"
    /\ S \subseteq GetBlockInProgress[c] /\ (S # {} \/ headers) /\ (headers => asked[c] # None)
    /\ c \in Honest => GetBlockInProgress[c] \cap Has(c) \subseteq Orphaned /\ ~headers
    /\ b2g' = GivenBack(b2g, S)
    /\ GetBlockInProgress' = [GetBlockInProgress EXCEPT ![c] = @ \ S]
    /\ collecting' = [collecting EXCEPT ![c] = @ \ S]
    /\ BlocksExpired' = [BlocksExpired EXCEPT ![c] = @ \/ S # {}]
    /\ IF headers
       THEN /\ asked' = [asked EXCEPT ![c] = None]
            /\ LastHeadersEmpty' = [LastHeadersEmpty EXCEPT ![c] = TRUE]
            /\ AllHeadersReceived' = [AllHeadersReceived EXCEPT ![c] = TRUE]
       ELSE UNCHANGED <<asked, LastHeadersEmpty, AllHeadersReceived>>
    /\ conn' = [conn EXCEPT ![c] = IF c \in Special THEN @ ELSE "broken"]
    /\ UNCHANGED <<treeVars, rcvVars, NodeHeight, keepBlocksOver>>
-----------------------------------------------------------------------------
(* Blocks coming in *)

\* What comes as the data of a block: all that its hash stands for; with
\* other transactions (or a nonce of the wrong size); with its transactions,
\* but witness data that is not theirs.
Copies(b) == {"faithful", "corrupt"} \cup {copy \in {"altered"} : b \in Alterable}

\* What the checks of a copy, and MerkleRootMatch after them, say.  Txs that an
\* earlier corrupt copy left behind are not built again, so any copy then has
\* the wrong Merkle root.  An altered copy of any block has the right one, and
\* is taken for a wrongly mined block.
PostCheckBlock(b, copy) ==
    IF b \in b2g.txs \/ copy = "corrupt" THEN "corrupt"
    ELSE IF b \in Malformed \/ copy = "altered" THEN "wrongly mined" ELSE "ok"

\* Mutant of Branch: the children are not deleted with the block.
BranchOfOne(b) == {b}

\* The node of b and what is built on it.
Branch(b) == {d \in BlockIndex \cup {b} : b \in AncOf[d]}

\* The header of a block that comes unasked for, and the queue with it.
Unasked(b) == {b} \ b2g.get
WithHeader(b) == AddB2G(b2g, Unasked(b))

\* b is waited for, or its header is accepted now.
Wanted(b) == b \notin ReceivedBlocks /\ (b \in b2g.get \/ b \in NewHeaders({b}))

\* What is taken for a wrongly mined block: DelB2G, LastCommitedHeader, and
\* DeleteBranch with delB2G_callback.  Whoever was asked for one of the blocks
\* keeps it in GetBlockInProgress.
GiveUp(b) ==
    /\ givenUp' = givenUp \cup Branch(b)
    /\ b2g' = DelB2G(WithHeader(b), Branch(b))
    /\ BlockIndex' = BlockIndex \ Branch(b)
    /\ LastCommitedHeader' = LET lch == LastHeader(Unasked(b)) IN IF lch = b THEN Parent[b] ELSE lch

\* The block is complete: ReceivedBlocks, DelB2G, and on to the main thread.
Receive(b) ==
    /\ AcceptHeaders(Unasked(b))
    /\ b2g' = DelB2G(WithHeader(b), {b})
    /\ ReceivedBlocks' = ReceivedBlocks \cup {b}

NoLongerAsked(c, b) ==
    /\ GetBlockInProgress' = [GetBlockInProgress EXCEPT ![c] = @ \ {b}]
    /\ collecting' = [collecting EXCEPT ![c] = @ \ {b}]

\* netBlockReceived of a block that was received before.
BlockAgain(c, b) ==
    /\ conn[c] = "on" /\ b \in Has(c) \cap ReceivedBlocks
    /\ NoLongerAsked(c, b)
    /\ UNCHANGED <<treeVars, b2g, rcvVars, conn, hdrVars, BlocksExpired, keepBlocksOver>>

\* netBlockReceived, the block is fine.
BlockReceived(c, b) ==
    /\ conn[c] = "on" /\ b \in Has(c) /\ Wanted(b)
    /\ PostCheckBlock(b, "faithful") = "ok"
    /\ Receive(b)
    /\ NoLongerAsked(c, b)
    /\ UNCHANGED <<committed, last, conn, hdrVars, BlocksExpired, keepBlocksOver>>

\* A peer sends a block of its chain; one that is not honest sends anything.
MaySend(c, b, copy) == IF copy = "faithful" THEN b \in Has(c) ELSE c \notin Honest

\* netBlockReceived, the block is wrongly mined, or seems to be, and its branch
\* is given up.
BlockWronglyMined(c, b, copy) ==
    /\ conn[c] = "on" /\ MaySend(c, b, copy) /\ Wanted(b)
    /\ PostCheckBlock(b, copy) = "wrongly mined"
    /\ GiveUp(b)
    /\ conn' = [conn EXCEPT ![c] = "banit"]
    /\ UNCHANGED <<rcvVars, hdrVars, dlVars, BlocksExpired, keepBlocksOver>>

\* Mutant of Discarded: what was read of the corrupt copy is kept.
DiscardedRawOnly(q, b) == [q EXCEPT !.txs = q.txs \cup {b}]

Discarded(q, b) == [q EXCEPT !.txs = q.txs \ {b}]

\* netBlockReceived, the Merkle root does not match: the data is discarded and
\* the peer banned; the end of Run gives back what it was asked for.
BlockCorrupt(c, b, copy) ==
    /\ conn[c] = "on" /\ MaySend(c, b, copy) /\ Wanted(b)
    /\ PostCheckBlock(b, copy) = "corrupt"
    /\ AcceptHeaders(Unasked(b))
    /\ b2g' = Discarded(WithHeader(b), b)
    /\ conn' = [conn EXCEPT ![c] = "banit"]
    /\ UNCHANGED <<rcvVars, hdrVars, dlVars, BlocksExpired, keepBlocksOver>>

-----------------------------------------------------------------------------
(* Compact blocks *)

\* ProcessCmpctBlock of a block that does not link: ask for headers.
CompactUnlinked(c, b) ==
    /\ Compact /\ conn[c] = "on" /\ b \in Has(c) \ ReceivedBlocks /\ ~Wanted(b)
    /\ AllHeadersReceived' = [AllHeadersReceived EXCEPT ![c] = FALSE]
    /\ UNCHANGED <<treeVars, b2g, rcvVars, conn, LastHeadersEmpty, asked, NodeHeight, dlVars,
                   BlocksExpired, keepBlocksOver>>

\* ProcessCmpctBlock up to the number of downloads.
CompactSeen(c, b) ==
    /\ Compact /\ conn[c] = "on" /\ b \in Has(c) /\ Wanted(b)
    /\ NodeHeight' = [NodeHeight EXCEPT ![c] = Max({@, Height(b)})]
    /\ UNCHANGED <<committed, last, conn, AllHeadersReceived, LastHeadersEmpty, asked,
                   BlocksExpired, keepBlocksOver>>

CompactTooMany(c, b) ==
    /\ CompactSeen(c, b) /\ WithHeader(b).inProgress[b] >= MaxBlockAtOnce
    /\ UNCHANGED <<treeVars, b2g, ReceivedBlocks, dlVars>>

\* What becomes of an assembled block.  A transaction of the memory pool with
\* the right short ID and the wrong content, or the wrong witness, makes it
\* corrupt or altered, whoever sent it; corrupt data is not discarded.
Assembled(b, copy) ==
    LET verdict == PostCheckBlock(b, copy)
    IN  \/ verdict = "ok" /\ Receive(b)
        \/ verdict = "wrongly mined" /\ GiveUp(b) /\ UNCHANGED ReceivedBlocks
        \/ /\ verdict = "corrupt"
           /\ AcceptHeaders(Unasked(b))
           /\ b2g' = [WithHeader(b) EXCEPT !.txs = @ \cup {b}]
           /\ UNCHANGED ReceivedBlocks

\* All transactions were in the memory pool.
CompactComplete(c, b, copy) ==
    /\ CompactSeen(c, b) /\ WithHeader(b).inProgress[b] < MaxBlockAtOnce
    /\ Assembled(b, copy)
    /\ UNCHANGED dlVars

\* Some are missing and asked for with getblocktxn.
CompactMissing(c, b) ==
    /\ CompactSeen(c, b) /\ WithHeader(b).inProgress[b] < MaxBlockAtOnce
    /\ AcceptHeaders(Unasked(b))
    /\ b2g' = Taken(WithHeader(b), {b})
    /\ GetBlockInProgress' = [GetBlockInProgress EXCEPT ![c] = @ \cup {b}]
    /\ collecting' = [collecting EXCEPT ![c] = @ \cup {b}]
    /\ UNCHANGED ReceivedBlocks

\* ProcessBlockTxn of a block that is not waited for any more.
BlockTxnLate(c, b) ==
    /\ conn[c] = "on" /\ b \in collecting[c] \ b2g.get
    /\ NoLongerAsked(c, b)
    /\ UNCHANGED <<treeVars, b2g, rcvVars, conn, hdrVars, BlocksExpired, keepBlocksOver>>

\* ProcessBlockTxn: InProgress is not taken back, whatever comes of the block.
BlockTxn(c, b, copy) ==
    /\ conn[c] = "on" /\ b \in collecting[c] \cap b2g.get
    /\ Assembled(b, copy)
    /\ NoLongerAsked(c, b)
    /\ UNCHANGED <<committed, last, conn, hdrVars, BlocksExpired, keepBlocksOver>>

\* ProcessBlockTxn, a transaction cannot be read (the peer is banned) or is
\* none of the missing ones.
BlockTxnError(c, b) ==
    /\ conn[c] = "on" /\ c \notin Honest /\ b \in collecting[c] \cap b2g.get
    /\ NoLongerAsked(c, b)
    /\ \E s \in {"on", "banit"} : conn' = [conn EXCEPT ![c] = s]
    /\ UNCHANGED <<treeVars, b2g, rcvVars, hdrVars, BlocksExpired, keepBlocksOver>>

-----------------------------------------------------------------------------
(* The main thread *)

\* HandleNetBlock or retry_cached_blocks once the parent has been accepted.  A
\* block whose node was deleted after it had come stays in CachedBlocks: its
\* parent pointer leads to a deleted node, which never gets data.
Accept(b) ==
    /\ b \in (ReceivedBlocks \ committed) \cap BlockIndex /\ Parent[b] \in committed
    /\ committed' = committed \cup {b}
    /\ last' = IF Height(b) > Height(last) THEN b ELSE last
    /\ UNCHANGED <<treeVars, b2g, ReceivedBlocks, connVars>>

ConnNext(c) ==
    \/ Connect(c) \/ HangUp(c) \/ RunEnds(c)
    \/ SendGetHeaders(c) \/ HeadersAnswer(c) \/ HeadersAnnounce(c) \/ NetworkTick(c)
    \/ GetBlockData(c)
    \/ \E S \in SUBSET GetBlockInProgress[c], headers \in BOOLEAN : Expire(c, S, headers)
    \/ \E b \in Block \ {Root} :
          \/ ProcessInv(c, b)
          \/ BlockAgain(c, b) \/ BlockReceived(c, b)
          \/ CompactUnlinked(c, b) \/ CompactTooMany(c, b)
          \/ CompactMissing(c, b) \/ BlockTxnLate(c, b) \/ BlockTxnError(c, b)
          \/ \E copy \in Copies(b) :
                \/ BlockWronglyMined(c, b, copy) \/ BlockCorrupt(c, b, copy)
                \/ CompactComplete(c, b, copy) \/ BlockTxn(c, b, copy)

Next ==
    \/ \E c \in Conn : ConnNext(c)
    \/ \E b \in Block \ {Root} : Accept(b)

Spec == Init /\ [][Next]_vars

\* Connections tick ten times a second, far more often than NetworkTick
\* interferes; requests that are not answered expire; honest peers answer; the
\* main thread runs.  Nothing is assumed of what the other peers send.
Fairness ==
    /\ \A c \in Conn : WF_vars(RunEnds(c)) /\ WF_vars(SendGetHeaders(c)) /\ SF_vars(GetBlockData(c))
    /\ \A c \in Conn \ Honest : WF_vars(Expire(c, GetBlockInProgress[c], asked[c] # None))
    /\ \A c \in Honest : /\ WF_vars(Connect(c)) /\ SF_vars(HeadersAnswer(c))
                         /\ WF_vars(Expire(c, GetBlockInProgress[c], FALSE))
    /\ \A c \in Honest, b \in Block \ {Root} :
          WF_vars(b \in GetBlockInProgress[c] /\ (BlockAgain(c, b) \/ BlockReceived(c, b)))
    /\ \A b \in Block \ {Root} : WF_vars(Accept(b))

FairSpec == Spec /\ Fairness

-----------------------------------------------------------------------------
(* Properties *)

\* DelB2G's search (vars.go): LowestIndexToBlocksToGet is the least height
\* with an entry and zero only when nothing is to be got.  If it were higher,
\* GetBlockData would never look at the blocks below it.
LowestIsLeast ==
    /\ b2g.lowest = 0 <=> b2g.get = {}
    /\ \A b \in b2g.get : b2g.lowest <= Height(b)
    /\ b2g.get # {} => \E b \in b2g.get : b2g.lowest = Height(b)

Downloading(b) == {c \in Conn : b \in GetBlockInProgress[c]}

\* InProgress (GetBlockData, ExpireHeadersAndGetData, the end of Run): no
\* download is given back twice, so that the unsigned count never falls below
\* the number of connections that are getting the block.  A block that has
\* been given up before and is queued anew starts from zero: CountsNeverWrap.
SlotsAreHeld ==
    \A b \in b2g.get \ givenUp :
        b2g.inProgress[b] \in Cardinality(Downloading(b))..MaxBlockAtOnce

\* Without compact blocks the count is exact: every slot that a time-out, a
\* corrupt copy or a lost connection frees can be used again.
SlotsAreExact ==
    \A b \in b2g.get \ givenUp : b2g.inProgress[b] = Cardinality(Downloading(b))

\* netBlockReceived and DeleteBranch: no block is waited for that has come
\* already, or that could never be accepted because its parent has neither
\* come nor is waited for.
QueueIsConnected ==
    /\ ReceivedBlocks \cap b2g.get = {}
    /\ \A b \in b2g.get : Parent[b] \in ReceivedBlocks \cup b2g.get

\* PostCheckBlock in netBlockReceived: a peer that only sends what its chain
\* has is not banned for it.
HonestStaysConnected == \A c \in Honest : conn[c] \notin {"banit", "banned"}

\* The honest peers whose chain is longer than any other branch.
Longest == {c \in Honest : \A b \in Block \ Has(c) : Height(b) < Height(TipOf[c])}

\* GetBlockData and the time-outs: whatever the other peers send or withhold,
\* all blocks of the longest chain, if an honest peer has it, are received and
\* accepted in the end, unless one of them was given up because of an altered
\* copy.  Where a branch of the same length is given up: AlwaysSynchronises.
Synchronises ==
    \/ <>[](\A c \in Longest : Has(c) \subseteq committed)
    \/ <>(\E c \in Longest : Has(c) \cap givenUp # {})

\* netBlockReceived says of the block it gives up "It was a wrongly mined one"
\* (data.go:194): only wrongly mined blocks and what is built on them are.
GivesUpWronglyMinedOnly == givenUp \cap Sound = {}

\* netBlockReceived leaves GetBlockInProgress alone because "decreasing of
\* b2g.InProgress will also be done then" (data.go:191): no count goes below
\* zero, which would be more than any connection may get.
CountsNeverWrap == \A b \in b2g.get : b2g.inProgress[b] <= MaxBlockAtOnce

\* Every block of an honest chain is accepted in the end, without exception: of
\* one that came with a bad copy, "We will ask another peer for it"
\* (data.go:203), and GetBlockData does "look for the lowest height block in
\* BlocksToGet that isn't being downloaded yet" (data.go:381).
AlwaysSynchronises == <>[](\A c \in Honest : Has(c) \subseteq committed)
============================================================================
