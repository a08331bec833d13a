------------------------------- MODULE Chain -------------------------------
(***************************************************************************)
(* The block tree of lib/chain and the way the client's main thread feeds  *)
(* it (client/main.go): headers and block data arrive from the network,    *)
(* LocalAcceptBlock commits blocks, MoveToBlock and ParseTillBlock switch  *)
(* branches, DeleteBranch drops a branch that turned out invalid, and a    *)
(* restart rebuilds the tree from the block store and from the block hash  *)
(* in the saved UTXO snapshot.                                             *)
(*                                                                         *)
(* One step is one block undone or applied, so that headers can come in    *)
(* from the network threads in the middle of a reorganisation.             *)
(***************************************************************************)
EXTENDS BlockTree, Sequences

CONSTANTS
    Work,           \* Block -> Nat \ {0}: difficulty
    Bad,            \* blocks whose scripts do not verify
    Malformed,      \* blocks that PostCheckBlock refuses
    Start,          \* blocks applied and stored when the model starts
    Tip,            \* the last of them
    MovingCheckpointDepth,
    HeadersFirst,   \* TRUE: a header may come long before its block
    MayFlush,       \* TRUE: blocks get written to disk
    SaveCommand,    \* TRUE: the saveutxo command is used
    MaxCrash,       \* bound: number of crashes
    None

VARIABLES
    mode,           \* "up", "down", "starting", or the message of a panic
    store,          \* the block store (BlockStore)
    BlockIndex,     \* the set of blocks in the map BlockIndex
    Childs,         \* Childs[b]: the sequence of children of node b
    hasData,        \* BlockSize and TxCount of a node are not zero
    last,           \* LastBlock(), the head of the active branch
    op,             \* the main thread: [pc, dst, blk]
    announced,      \* blocks whose header was taken this session
    arrived,        \* blocks received and not yet committed
    DiscardedBlocks,
    parseTill,      \* common.Last.ParseTill: cursor and end of do_the_blocks
    saved,          \* LastBlockHash of the UTXO snapshot on disk
    crashes

treeVars == <<BlockIndex, Childs, hasData, last>>
netVars  == <<announced, arrived, DiscardedBlocks>>
vars == <<mode, store, treeVars, op, netVars, parseTill, saved, crashes>>

BS == INSTANCE BlockStore WITH running <- mode = "up"

-----------------------------------------------------------------------------
(* Work and paths in the tree of all blocks *)

WorkOf[b \in Block] == IF b = Root THEN 0 ELSE Work[b] + WorkOf[Parent[b]]

ASSUME ChainAssumption ==
    /\ IsFiniteSet(Block) /\ Root \in Block
    /\ Parent \in [Block \ {Root} -> Block] /\ \A b \in Block : Root \in AncOf[b]
    /\ Work \in [Block -> Nat \ {0}]
    /\ Bad \cup Malformed \subseteq Block \ Start
    /\ Tip \in Block /\ Start = AncOf[Tip]
    /\ MovingCheckpointDepth \in Nat \ {0}
    /\ HeadersFirst \in BOOLEAN /\ MayFlush \in BOOLEAN /\ SaveCommand \in BOOLEAN
    /\ MaxCrash \in Nat
    /\ None \notin Block

\* Mutant of MorePOW: the longer branch wins.
MoreBlocks(b1, b2) == Height(b1) > Height(b2)

\* MorePOW: the sums above the common ancestor compare as the totals do.
MorePOW(b1, b2) == WorkOf[b1] > WorkOf[b2]

OnActiveBranch(b) == b \in AncOf[last]

\* Every ancestor up to the active branch has its data.
HasAllParents(b) == \A a \in AncOf[b] \ {b} : OnActiveBranch(a) \/ hasData[a]

Position(x, s) == CHOOSE i \in DOMAIN s : s[i] = x

Reachable(b) ==
    \A a \in AncOf[b] \ {Root} : \E i \in DOMAIN Childs[Parent[a]] : Childs[Parent[a]][i] = a

\* FindFarthestNode from the root: of the deepest nodes, headers only or not,
\* the one that comes first when children are visited in order.
FindFarthestNode ==
    LET nodes   == {b \in Block : Reachable(b)}
        deepest == {b \in nodes : \A c \in nodes : Height(c) <= Height(b)}
        First(x, y) ==
            LET a == Common(x, y)
            IN  Position(ToWards(a, x), Childs[a]) < Position(ToWards(a, y), Childs[a])
    IN  CHOOSE x \in deepest : \A y \in deepest \ {x} : First(x, y)

\* Mutant of FindPathTo: off by one in the check of the heights.
FindPathFarther(n, end) ==
    IF Height(end) <= Height(n) + 1 \/ Childs[n] = <<>> THEN None
    ELSE IF Len(Childs[n]) = 1 THEN Childs[n][1]
    ELSE IF n \in AncOf[end] THEN ToWards(n, end)
    ELSE None

\* n.FindPathTo(end): None stands for its panics, and for running past the
\* root when n has several children and none of them leads to end.
FindPathTo(n, end) ==
    IF Height(end) <= Height(n) \/ Childs[n] = <<>> THEN None
    ELSE IF Len(Childs[n]) = 1 THEN Childs[n][1]
    ELSE IF n \in AncOf[end] THEN ToWards(n, end)
    ELSE None

\* MoveToBlock's early returns (A1, A2, B): data is missing somewhere from the
\* common ancestor up to, but not including, dst.
CannotMove(dst) ==
    \E a \in AncOf[dst] \ {dst} : Height(a) >= Height(Common(dst, last)) /\ ~hasData[a]

\* addChild of a new node.
WithChild(n, c) == [Childs EXCEPT ![n] = Append(@, c), ![c] = <<>>]

HasChild(n, c) == \E i \in DOMAIN Childs[n] : Childs[n][i] = c

\* delChild: the one entry of c is left out.
WithoutChild(n, c) ==
    [Childs EXCEPT ![n] = [i \in 1..(Len(@) - 1) |-> @[IF i < Position(c, @) THEN i ELSE i + 1]]]

-----------------------------------------------------------------------------
(* Types *)

PanicMsg == {"Trusted block cannot be invalid", "FindPathTo", "Db.BlockGet()",
             "Child not found", "Last Block Hash not found", "Conn is nil",
             "No data for block"}

TypeOK ==
    /\ mode \in {"up", "down", "starting"} \cup PanicMsg
    /\ store \in [Block -> BS!Entry]
    /\ BlockIndex \subseteq Block
    /\ Childs \in [Block -> Seq(Block)]
    /\ hasData \in [Block -> BOOLEAN]
    /\ last \in Block
    /\ op \in [pc : {"idle", "move", "undo", "parse", "retry"},
               dst : Block \cup {None}, blk : Block \cup {None}]
    /\ announced \subseteq Block /\ arrived \subseteq Block
    /\ DiscardedBlocks \subseteq Block
    /\ parseTill \in [cur : Block \cup {None}, end : Block \cup {None}]
    /\ saved \in Block
    /\ crashes \in 0..MaxCrash

IdleOp == [pc |-> "idle", dst |-> None, blk |-> None]
NoParse == [cur |-> None, end |-> None]

Init ==
    /\ mode = "up"
    /\ store = [b \in Block |-> IF b \in Start \ {Root}
                                THEN [st |-> "disk", trusted |-> TRUE, invalid |-> FALSE]
                                ELSE BS!Absent]
    /\ BlockIndex = Start
    /\ Childs = [b \in Block |-> IF b \in Start \ {Tip}
                                 THEN <<CHOOSE c \in Start \ {Root} : Parent[c] = b>> ELSE <<>>]
    /\ hasData = [b \in Block |-> b \in Start \ {Root}]
    /\ last = Tip
    /\ op = IdleOp
    /\ announced = Start /\ arrived = {} /\ DiscardedBlocks = {}
    /\ parseTill = NoParse
    /\ saved = Tip
    /\ crashes = 0

-----------------------------------------------------------------------------
(* The network threads *)

Panic(msg) == mode' = msg

\* PreCheckBlock: not there yet, the parent is, and the fork is not too deep.
\* The rules about a header alone (work, times, version) are met by all of
\* Block.
PreCheckBlock(b) ==
    /\ b \notin BlockIndex
    /\ Parent[b] \in BlockIndex
    /\ Parent[b] = last \/ Height(last) - Height(b) < MovingCheckpointDepth

\* PostCheckBlock: the rules about the body of a block.
PostCheckBlock(b) == b \notin Malformed

AcceptHeader(b) ==
    /\ Childs' = WithChild(Parent[b], b)
    /\ BlockIndex' = BlockIndex \cup {b}
    /\ hasData' = [hasData EXCEPT ![b] = FALSE]

\* ProcessNewHeader: a header that is neither discarded, received nor waited
\* for.  While blocks found on disk are being parsed the network is held.
ProcessNewHeader(b) ==
    /\ mode = "up" /\ parseTill = NoParse
    /\ b \notin announced \cup DiscardedBlocks
    /\ PreCheckBlock(b)
    /\ AcceptHeader(b)
    /\ announced' = announced \cup {b}

\* A "headers" message.
HandleHeaders(b) ==
    /\ HeadersFirst
    /\ ProcessNewHeader(b)
    /\ UNCHANGED <<mode, store, last, op, arrived, DiscardedBlocks, parseTill, saved, crashes>>

\* b is in BlocksToGet: its header was taken, its body has not come yet.
ToGet(b) == b \in announced \ arrived /\ ~hasData[b] /\ b # Root /\ b \notin DiscardedBlocks

\* netBlockReceived for a block that was asked for.
BlockReceived(b) ==
    /\ mode = "up" /\ HeadersFirst
    /\ ToGet(b) /\ PostCheckBlock(b)
    /\ arrived' = arrived \cup {b}
    /\ UNCHANGED <<mode, store, treeVars, op, announced, DiscardedBlocks, parseTill, saved, crashes>>

\* netBlockReceived for a block that comes without being asked for.
NewBlockReceived(b) ==
    /\ ProcessNewHeader(b) /\ PostCheckBlock(b)
    /\ arrived' = arrived \cup {b}
    /\ UNCHANGED <<mode, store, last, op, DiscardedBlocks, parseTill, saved, crashes>>

\* n and the nodes that its Childs lead to.
Branch(n) ==
    {b \in Block : n \in AncOf[b] /\ \A a \in AncOf[b] \ AncOf[n] : HasChild(Parent[a], a)}

\* How often DeleteBranch(n) calls BlockInvalid(b): once for n itself, and
\* once more for b for each child that b has.
InvalidCalls(n, b) == Len(Childs[b]) + (IF b = n THEN 1 ELSE 0)

\* BlockInvalid panics on a trusted record, which it makes of every record on
\* disk.
DeletePanics(n) ==
    \E b \in Branch(n) :
        \/ InvalidCalls(n, b) > 0 /\ BS!Has(b) /\ store[b].trusted
        \/ InvalidCalls(n, b) > 1 /\ store[b].st = "disk"

\* Mutant of DeleteBranch: the branch is not disconnected from its parent.
DeleteConnectedBranch(n) ==
    /\ store' = [b \in Block |-> IF b \in Branch(n) /\ InvalidCalls(n, b) > 0
                                 THEN BS!Invalidated(store, b)[b] ELSE store[b]]
    /\ BlockIndex' = BlockIndex \ Branch(n)
    /\ Childs' = [b \in Block |-> IF b \in Branch(n) THEN <<>> ELSE Childs[b]]

\* DeleteBranch(n): the branch leaves the tree; the store forgets n and the
\* inner nodes of the branch, or flags them invalid on disk.
DeleteBranch(n) ==
    /\ store' = [b \in Block |-> IF b \in Branch(n) /\ InvalidCalls(n, b) > 0
                                 THEN BS!Invalidated(store, b)[b] ELSE store[b]]
    /\ BlockIndex' = BlockIndex \ Branch(n)
    /\ Childs' = [b \in Block |-> IF b \in Branch(n) THEN <<>>
                                  ELSE WithoutChild(Parent[n], n)[b]]

\* netBlockReceived for a block that does not pass PostCheckBlock although its
\* Merkle root matches: the header and all that were built on it are given up,
\* and the ones that were still to get leave BlocksToGet.
WronglyMined(b) ==
    /\ mode = "up" /\ HeadersFirst
    /\ ToGet(b) /\ ~PostCheckBlock(b)
    /\ IF HasChild(Parent[b], b)
       THEN /\ DeleteBranch(b)
            /\ announced' = announced \ {c \in Branch(b) : ToGet(c)}
            /\ UNCHANGED mode
       ELSE /\ Panic("Child not found")
            /\ UNCHANGED <<store, BlockIndex, Childs, announced>>
    /\ UNCHANGED <<hasData, last, op, arrived, DiscardedBlocks, parseTill, saved, crashes>>

-----------------------------------------------------------------------------
(* The main thread: blocks *)

MainFree == mode = "up" /\ op.pc = "idle"

\* The rest of LocalAcceptBlock when CommitBlock of b returned an error: b
\* and the children it still has are discarded.
DiscardBlock(b) == DiscardedBlocks' = DiscardedBlocks \cup Branch(b)

\* The peer that sent a block which was not accepted gets its points.  Blocks
\* that do_the_blocks queued come from no peer: Misbehave of a nil Conn.
Misbehave == IF parseTill = NoParse THEN UNCHANGED mode ELSE Panic("Conn is nil")

\* Mutant of ReachedTill: ParseTill is never cleared.
TillForever(b) == parseTill' = parseTill

\* End of do_the_blocks' interest: ParseTill is cleared when it is reached.
ReachedTill(b) == parseTill' = IF parseTill.end = b THEN NoParse ELSE parseTill

\* CheckParentDiscarded.
DiscardArrived(b) ==
    /\ MainFree /\ b \in arrived
    /\ Parent[b] \in DiscardedBlocks
    /\ DiscardedBlocks' = DiscardedBlocks \cup {b}
    /\ arrived' = arrived \ {b}
    /\ UNCHANGED <<mode, store, treeVars, op, announced, parseTill, saved, crashes>>

\* HandleNetBlock and retry_cached_blocks take a block whose parents are all
\* there; the others wait in CachedBlocks.
Acceptable(b) ==
    /\ MainFree /\ b \in arrived
    /\ Parent[b] \notin DiscardedBlocks
    /\ HasAllParents(b)

\* Mutant of Verifies: scripts are not run for a block that is in the store.
VerifiesStored(b) == b \notin Bad \/ BS!Has(b)

\* Scripts are not run for a block that is already trusted.
Verifies(b) == b \notin Bad \/ store[b].trusted

\* LocalAcceptBlock: the block extends the active branch and is valid.
CommitOnTop(b) ==
    /\ Acceptable(b) /\ last = Parent[b]
    /\ Verifies(b)
    /\ hasData' = [hasData EXCEPT ![b] = TRUE]
    /\ store' = BS!Added(BS!Added(store, b, FALSE), b, TRUE)
    /\ last' = b
    /\ arrived' = arrived \ {b}
    /\ ReachedTill(b)
    /\ UNCHANGED <<mode, BlockIndex, Childs, op, announced, DiscardedBlocks, saved, crashes>>

\* LocalAcceptBlock: the block extends the active branch and is not valid.
\* It was added to the store before it was checked, and stays there.
CommitFails(b) ==
    /\ Acceptable(b) /\ last = Parent[b]
    /\ ~Verifies(b)
    /\ hasData' = [hasData EXCEPT ![b] = TRUE]
    /\ store' = BS!Added(store, b, FALSE)
    /\ arrived' = arrived \ {b}
    /\ IF HasChild(Parent[b], b)
       THEN /\ Childs' = WithoutChild(Parent[b], b)
            /\ BlockIndex' = BlockIndex \ {b}
            /\ DiscardBlock(b)
            /\ Misbehave
       ELSE /\ Panic("Child not found")
            /\ UNCHANGED <<Childs, BlockIndex, DiscardedBlocks>>
    /\ UNCHANGED <<last, op, announced, parseTill, saved, crashes>>

\* LocalAcceptBlock: a block of another branch.
CommitOffTop(b) ==
    /\ Acceptable(b) /\ last # Parent[b]
    /\ hasData' = [hasData EXCEPT ![b] = TRUE]
    /\ store' = BS!Added(store, b, FALSE)
    /\ arrived' = arrived \ {b}
    /\ op' = IF MorePOW(b, last) THEN [pc |-> "move", dst |-> b, blk |-> b] ELSE op
    /\ UNCHANGED <<mode, BlockIndex, Childs, last, announced, DiscardedBlocks, parseTill,
                   saved, crashes>>

\* Back in CommitBlock and LocalAcceptBlock.
Return ==
    /\ op' = IdleOp
    /\ IF last # op.blk THEN DiscardBlock(op.blk) /\ Misbehave /\ UNCHANGED parseTill
       ELSE ReachedTill(last) /\ UNCHANGED <<mode, DiscardedBlocks>>

\* MoveToBlock, the search for the common ancestor.
MoveToBlock ==
    /\ mode = "up" /\ op.pc = "move"
    /\ IF CannotMove(op.dst) THEN Return
       ELSE /\ op' = [op EXCEPT !.pc = "undo"]
            /\ UNCHANGED <<mode, DiscardedBlocks, parseTill>>
    /\ UNCHANGED <<store, treeVars, announced, arrived, saved, crashes>>

\* UndoLastBlock, until the common ancestor is the head.
UndoLastBlock ==
    /\ mode = "up" /\ op.pc = "undo"
    /\ last # Common(op.dst, last)
    /\ IF BS!Has(last) THEN last' = Parent[last] /\ UNCHANGED mode
       ELSE Panic("Db.BlockGet()") /\ UNCHANGED last
    /\ UNCHANGED <<store, BlockIndex, Childs, hasData, op, netVars, parseTill, saved, crashes>>

UndoDone ==
    /\ mode = "up" /\ op.pc = "undo"
    /\ last = Common(op.dst, last)
    /\ op' = [op EXCEPT !.pc = "parse"]
    /\ UNCHANGED <<mode, store, treeVars, netVars, parseTill, saved, crashes>>

Parsing == mode = "up" /\ op.pc = "parse" /\ last # op.dst

NextToParse == FindPathTo(last, op.dst)

\* Mutant of ParseApply: the head is not advanced.
ParseApplySameHead ==
    LET n == NextToParse
    IN  /\ Parsing
        /\ n # None /\ hasData[n] /\ BS!Has(n)
        /\ Verifies(n)
        /\ store' = BS!Trusted(store, n)
        /\ UNCHANGED <<mode, treeVars, op, netVars, parseTill, saved, crashes>>

\* ParseTillBlock, one turn of the loop: the next block is applied.
ParseApply ==
    LET n == NextToParse
    IN  /\ Parsing
        /\ n # None /\ hasData[n] /\ BS!Has(n)
        /\ Verifies(n)
        /\ store' = BS!Trusted(store, n)
        /\ last' = n
        /\ UNCHANGED <<mode, BlockIndex, Childs, hasData, op, netVars, parseTill, saved, crashes>>

\* ParseTillBlock: only the header of the next block is known.
ParseNoData ==
    LET n == NextToParse
    IN  /\ Parsing
        /\ n # None /\ ~hasData[n]
        /\ op' = [op EXCEPT !.pc = "retry"]
        /\ UNCHANGED <<mode, store, treeVars, netVars, parseTill, saved, crashes>>

\* ParseTillBlock: FindPathTo or BlockGetInternal makes it panic.
ParsePanic ==
    LET n == NextToParse
    IN  /\ Parsing
        /\ n # None => hasData[n] /\ ~BS!Has(n)
        /\ Panic(IF n = None THEN "FindPathTo" ELSE "Db.BlockGet()")
        /\ UNCHANGED <<store, treeVars, op, netVars, parseTill, saved, crashes>>

\* ParseTillBlock: the next block does not verify.
ParseFails ==
    LET n == NextToParse
    IN  /\ Parsing
        /\ n # None /\ hasData[n] /\ BS!Has(n)
        /\ ~Verifies(n)
        /\ IF DeletePanics(n) \/ ~HasChild(Parent[n], n)
           THEN /\ Panic(IF DeletePanics(n) THEN "Trusted block cannot be invalid"
                         ELSE "Child not found")
                /\ UNCHANGED <<store, BlockIndex, Childs, op>>
           ELSE /\ DeleteBranch(n)
                /\ op' = [op EXCEPT !.pc = "retry"]
                /\ UNCHANGED mode
        /\ UNCHANGED <<hasData, last, netVars, parseTill, saved, crashes>>

\* Mutant of ParseRetry: no other branch is tried.
ParseGivesUp ==
    /\ mode = "up" /\ op.pc = "retry"
    /\ Return
    /\ UNCHANGED <<store, treeVars, announced, arrived, saved, crashes>>

\* The end of ParseTillBlock when dst was not reached: go to the farthest node.
ParseRetry ==
    /\ mode = "up" /\ op.pc = "retry"
    /\ op' = [op EXCEPT !.pc = "move", !.dst = FindFarthestNode]
    /\ UNCHANGED <<mode, store, treeVars, netVars, parseTill, saved, crashes>>

\* ... and when it was.
ParseDone ==
    /\ mode = "up" /\ op.pc = "parse" /\ last = op.dst
    /\ Return
    /\ UNCHANGED <<store, treeVars, announced, arrived, saved, crashes>>

-----------------------------------------------------------------------------
(* The main thread: the disk *)

\* Chain.Idle, first part: BlockDB.Idle writes the queue out.  The queue is
\* first in, first out, and no block enters it before its parent.
WriteBlock(b) ==
    /\ MainFree /\ MayFlush
    /\ store[b].st = "queued"
    /\ \A a \in AncOf[b] \ {b} : store[a].st # "queued"
    /\ store' = BS!Written(store, b)
    /\ UNCHANGED <<mode, treeVars, op, netVars, parseTill, saved, crashes>>

\* Mutant of SaveUtxo: blocks may still be waiting to be written.
SaveUtxoEarly ==
    /\ MainFree /\ MayFlush
    /\ saved # last
    /\ saved' = last
    /\ UNCHANGED <<mode, store, treeVars, op, netVars, parseTill, crashes>>

\* Chain.Idle, second part, or Chain.Close: the UTXO snapshot gets saved.
\* Before it everything was written; the saveutxo command does not care.
SaveUtxo ==
    /\ MainFree /\ MayFlush
    /\ SaveCommand \/ \A b \in Block : store[b].st # "queued"
    /\ saved # last
    /\ saved' = last
    /\ UNCHANGED <<mode, store, treeVars, op, netVars, parseTill, crashes>>

Crash ==
    /\ mode = "up" /\ crashes < MaxCrash
    /\ mode' = "down"
    /\ store' = BS!Reloaded(store)
    /\ crashes' = crashes + 1
    /\ op' = IdleOp
    /\ announced' = {} /\ arrived' = {} /\ DiscardedBlocks' = {}
    /\ parseTill' = NoParse
    /\ UNCHANGED <<treeVars, saved>>

\* The orders in which Go may iterate over a map with these keys.
Orders[S \in SUBSET Block] ==
    IF S = {} THEN {<<>>} ELSE UNION {{Append(o, x) : o \in Orders[S \ {x}]} : x \in S}

\* The iteration over the index, after i nodes: a node whose parent is not in
\* the index, or not any more, is deleted, the others become children.
Loading(disk, order) ==
    LET load[i \in 0..Len(order)] ==
            IF i = 0 THEN [index |-> disk, childs |-> [b \in Block |-> <<>>]]
            ELSE IF Parent[order[i]] \in load[i - 1].index
            THEN [load[i - 1] EXCEPT !.childs[Parent[order[i]]] = Append(@, order[i])]
            ELSE [load[i - 1] EXCEPT !.index = @ \ {order[i]}]
    IN  load

\* loadBlockIndex: the tree is rebuilt from the blocks in the store, and the
\* head is the block the UTXO snapshot belongs to.
LoadBlockIndex ==
    LET disk == {Root} \cup {b \in Block : BS!Has(b)}
    IN  /\ mode = "down"
        /\ \E order \in Orders[disk \ {Root}] :
              LET tree == Loading(disk, order)[Len(order)]
              IN  /\ BlockIndex' = tree.index
                  /\ Childs' = tree.childs
                  /\ announced' = tree.index
                  /\ hasData' = [b \in Block |-> b \in tree.index /\ BS!Has(b)]
                  /\ IF saved \in tree.index THEN mode' = "starting" /\ last' = saved
                     ELSE Panic("Last Block Hash not found") /\ UNCHANGED last
        /\ UNCHANGED <<store, op, arrived, DiscardedBlocks, parseTill, saved, crashes>>

\* Mutant of HostInit: blocks above the head are not looked for.
HostInitOnly ==
    /\ mode = "starting"
    /\ mode' = "up"
    /\ UNCHANGED <<store, treeVars, op, netVars, parseTill, saved, crashes>>

\* host_init and main: blocks above the head that are on disk are parsed first.
HostInit ==
    /\ mode = "starting"
    /\ mode' = "up"
    /\ parseTill' = IF Height(FindFarthestNode) > Height(last)
                    THEN [cur |-> last, end |-> FindFarthestNode] ELSE NoParse
    /\ UNCHANGED <<store, treeVars, op, netVars, saved, crashes>>

\* do_the_blocks: the next block on the way to ParseTill is queued.  A node
\* without data ends the loop, and ParseTill stays.
DoTheBlocks ==
    LET n == FindPathTo(parseTill.cur, parseTill.end)
    IN  /\ mode = "up" /\ parseTill # NoParse /\ parseTill.cur # parseTill.end
        /\ IF n = None \/ (hasData[n] /\ ~BS!Has(n))
           THEN /\ Panic(IF n = None THEN "FindPathTo" ELSE "No data for block")
                /\ UNCHANGED <<arrived, parseTill>>
           ELSE /\ arrived' = IF hasData[n] THEN arrived \cup {n} ELSE arrived
                /\ parseTill' = [parseTill EXCEPT !.cur = IF hasData[n] THEN n ELSE parseTill.end]
                /\ UNCHANGED mode
        /\ UNCHANGED <<store, treeVars, op, announced, DiscardedBlocks, saved, crashes>>

-----------------------------------------------------------------------------

MainNext ==
    \/ \E b \in Block \ {Root} :
          \/ DiscardArrived(b) \/ CommitOnTop(b) \/ CommitFails(b) \/ CommitOffTop(b)
    \/ MoveToBlock \/ UndoLastBlock \/ UndoDone
    \/ ParseApply \/ ParseNoData \/ ParsePanic \/ ParseFails \/ ParseRetry \/ ParseDone

Next ==
    \/ \E b \in Block \ {Root} : 
          \/ HandleHeaders(b) \/ BlockReceived(b) \/ NewBlockReceived(b) \/ WronglyMined(b)
    \/ MainNext
    \/ \E b \in Block : WriteBlock(b)
    \/ SaveUtxo
    \/ Crash \/ LoadBlockIndex \/ HostInit \/ DoTheBlocks

Spec == Init /\ [][Next]_vars

\* The main thread and do_the_blocks keep running.
FairSpec == Spec /\ WF_vars(MainNext) /\ WF_vars(DoTheBlocks)

-----------------------------------------------------------------------------
(* Properties *)

\* Whenever the main thread is done with a block, no valid branch whose blocks
\* have all been committed has more work than the active one: the node never
\* stays on a lighter branch, in whatever order headers and blocks came.
MostWorkWins ==
    MainFree /\ parseTill = NoParse =>
        \A b \in BlockIndex :
            (\A a \in AncOf[b] \ {Root} : hasData[a] /\ a \notin Bad) => WorkOf[b] <= WorkOf[last]

\* No block whose scripts fail is ever applied.
NoBadBlockActive == AncOf[last] \cap Bad = {}

\* BlockIndex and the Childs lists describe the same tree.
IndexMatchesTree ==
    mode = "up" => BlockIndex = {b \in Block : Reachable(b)}

\* The block that the UTXO snapshot belongs to can be found at the next start,
\* with all its ancestors, whenever the crash comes.
SavedIsOnDisk ==
    \A b \in AncOf[saved] \ {Root} : store[b].st = "disk" /\ ~store[b].invalid

\* BlockInvalid's check never fires: a block found invalid was never marked as
\* verified.
TrustedStaysValid == mode # "Trusted block cannot be invalid"

\* A block found on disk at start-up never turns out invalid when it is parsed:
\* what failed before carries the invalid flag and is not loaded.
StoredIsAccepted == mode # "Conn is nil"

\* No internal consistency check of the tree or of the store fires at all.
NoPanic == mode \notin PanicMsg

\* The network, held while blocks found on disk are parsed at start-up, is let
\* loose at some time, whenever these blocks are above the head: every one of
\* them is queued, accepted in turn, and the last one recognised as ParseTill.
NetworkResumes ==
    parseTill # NoParse /\ last \in AncOf[parseTill.end] ~> parseTill = NoParse /\ mode = "up"

\* "Hold on network for now as we have ... new blocks on disk" (main.go:488):
\* the hold ends, wherever the snapshot's block is in the tree.
NetworkAlwaysResumes == parseTill # NoParse ~> parseTill = NoParse

\* The recursion of MoveToBlock and ParseTillBlock ends, also when a block of the
\* new branch fails and ParseTillBlock goes to the farthest node instead: the
\* main thread is done with its block, or a check ends the program (NoPanic is
\* about those).  The exception is a farthest node that stays a header without
\* data: ReorgAlwaysEnds.
ReorgEnds ==
    \/ op.pc # "idle" ~> op.pc = "idle" \/ mode \in PanicMsg
    \/ <>[](mode = "up" /\ ~hasData[FindFarthestNode])

\* The fallback of ParseTillBlock: in a session, MostWorkWins also where blocks
\* of the branch with most work have failed.
FallsBack == crashes = 0 => MostWorkWins

\* MoveToBlock returns when a node has no data, as "it means we dont yet have
\* this block's data" (chain_tree.go:228): every reorganisation ends.
ReorgAlwaysEnds == op.pc # "idle" ~> op.pc = "idle"
=============================================================================
