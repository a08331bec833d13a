# Gocoin: models, checks and proofs

Gocoin is a full bitcoin node written in Go. Its core keeps a tree of blocks, a
database of blocks, a database of unspent outputs (UTXO), and a network client
that feeds them, with its memory pool and a key-value store. This
directory models that core in TLA+, model-checks it with
TLC, and proves properties of it with TLAPS.

## 1. Inventory

| Part | Source | State it keeps | Operations that change it |
|---|---|---|---|
| Block database | `lib/chain/blockdb.go` | index of records, cache, queue `blocksToWrite`, `blockchain.new`, data files | `BlockAdd`, `BlockTrusted`, `BlockInvalid`, `writeAll`/`writeOne`, `BlockGetInternal`, `LoadBlockIndex`, `removeDatFile`, `Close` |
| UTXO database | `lib/utxo/unspent_db.go` | the map, `LastBlockHash`, dirty flag, height on disk, snapshot and undo files | `CommitBlockTxs`, `UndoBlockTxs`, `Save`/`save`, `abortWriting`, `Idle`, `Close`, `NewUnspentDb` |
| Block tree | `lib/chain/chain.go`, `chain_tree.go`, `chain_accept.go`, `chain_load.go`, `chain_diff.go` | `BlockIndex`, `Childs`, the head, `TxCount`/`BlockSize` of nodes | `AcceptHeader`, `CommitBlock`, `ParseTillBlock`, `MoveToBlock`, `UndoLastBlock`, `DeleteBranch`, `loadBlockIndex` |
| Main thread | `client/main.go`, `client/init.go` | `CachedBlocks`, `DiscardedBlocks`, `ParseTill` | `HandleNetBlock`, `LocalAcceptBlock`, `retry_cached_blocks`, `do_the_blocks`, `host_init` |
| Block reception | `client/network/data.go`, `hdrs.go`, `vars.go` | `ReceivedBlocks`, `BlocksToGet`, `IndexToBlocksToGet` | `ProcessNewHeader`, `netBlockReceived`, `AddB2G`, `DelB2G`, `GetBlockData` |
| Compact blocks | `client/network/cblk.go` | the block being collected per connection | `ProcessCmpctBlock`, `ProcessBlockTxn` |
| Memory pool | `client/network/txpool_core.go`, `txpool_mine.go`, `txpool_sort.go`, `txpool_disk.go` | transactions to send, rejected, waiting for inputs, spent outputs, sizes | accept, reject, replace, `BlockMined`, `BlockUndone`, expiry |
| Peers | `client/network/core.go`, `tick.go`, `peersdb/` | connections, requests in progress, known addresses | connect, time-out, disconnect, ban |
| qdb | `lib/others/qdb/` | map in memory, data files, two index files, log | `Put`, `Del`, `Sync`, `Defrag`, `Close` |
| Scripts, types, curves | `lib/script`, `lib/btc`, `lib/secp256k1` | none | pure functions |
| Interfaces, wallets | `client/usif`, `client/rpcapi`, `client/wallet`, `wallet/` | views of the above | commands |

How they interact. Network goroutines put headers into the tree under
`BlockIndexAccess` and send complete blocks down a channel. The main thread takes
them one at a time; `LocalAcceptBlock` puts the block into the block database, and
`CommitBlock` either applies it to the UTXO map or, when it makes another branch the
heaviest, calls `MoveToBlock`, which undoes blocks to the common ancestor and parses
forward. When nothing is to be done, `Idle` writes the queue of blocks, then starts
a background save of the UTXO map. At start-up the tree is rebuilt from the block
index and the head is the block that the UTXO snapshot names; the blocks above it
are parsed again while the network is held.

A goroutine per connection asks its peer for headers and for blocks of one shared
queue, `BlocksToGet`, under `MutexRcv`; a block may be asked for from several peers.
Transactions go through a channel to the main thread, which keeps the pool under
`TxMutex`; mined and undone blocks call into it; the web interface uses the same
functions from threads of its own. The known peers are kept in a qdb database.

What is hard here:
* the background save races with commits and with its own predecessors' file
  writers: one abort channel, two wait groups, three goroutines and two renames;
* a crash between any two writes of a block, of its index record, of an undo file
  and of a snapshot, all of which a restart has to fit together again;
* headers that extend the tree in the middle of a reorganisation;
* a block in the middle of a branch that turns out invalid after the old branch was
  undone, and the cleaning up of the tree, the index and the store that follows;
* caches and queues at their limits, data files that roll over and are removed;
* counts of downloads that time-outs, late answers, disconnects and deleted branches
  all take back, and blocks that some peer withholds;
* five maps of the memory pool that every path, replacement and undo included, has to
  keep in step, partly from two threads;
* qdb's four files, which one sync or defragmentation changes one after the other.

What makes each part right: the block database returns what was added, and loses
nothing a restart needs; the UTXO map is the one that belongs to its last block and a
whole snapshot is always on disk; the tree follows the valid branch with the most
work, never applies an invalid block, and every operation ends; the download queue
loses no block and no slot, and ends with the honest chain; the maps of the pool agree
and nobody waits in vain; qdb's files hold a whole map whenever the process dies.
`PROJECT.json` lists these hazards with the line of code where each one bites.

## 2. Modules

### `BlockDB`: the block database
One action per step between two unlocks or two file operations. `BlockAddNew` and
`BlockAddTrusted` are the two cases of `BlockAdd`; `BlockInvalidDrop` and
`BlockInvalidFlag` those of `BlockInvalid`; `WriteTake`, `WriteData` and `WriteIndex`
are the parts of `writeOne`, so a crash falls between them. `GetLookup`, `GetRead`,
`GetStore` and `GetReturn` are `BlockGetInternal`, run by any number of readers beside
the main thread. `LoadBlockIndex` reads the files back the way the code does,
including how it computes the file position of a record. A block is one unit of a
data file and 136 bytes of the index are one element of `idxFile`; compression is left
out. `Evictions` lets any written block be the least recently used one.

### `BlockStore`: what the chain relies on
An entry per block: absent, queued or on disk, with the trusted and invalid flags,
and `Add`, `Trust`, `Invalid`, `Write`, `Restart`. `BlockDB` is shown to implement it
(`ImplementsBlockStore`, with the refinement mapping `StoredAs`); `Chain` uses its
operators as its store, so the two models share one definition of what storing,
flagging and reloading do.

### `UnspentDB`: the UTXO database
The map is abstracted to two sets: the blocks whose outputs were added and the blocks
whose inputs were taken. That is what tells a correct commit or undo from a wrong one,
in particular an undo that reads the undo file of another block of the same height:
files are found by height alone. The main thread runs `CommitBlockTxs`, `UndoBlockTxs`,
`AbortWriting`, `Idle`, the saveutxo command and `Close`, each split at
`writingDone.Wait()`; writing the undo file and changing the map are concurrent in
`CommitBlockTxs` and are separate steps here. `Saver*` is the goroutine `save()`,
`Writer*` the goroutine it starts, one per save: neither `abortWriting` nor a later
save waits for it. Files are inodes and directory entries, because a second writer may
truncate, remove or rename a name the first one still has open. A save is a number of
chunks; a file is whole when it has all chunks of one save in order. The code writes undo
data only near the known top of the chain; the model always does. `peak` is a history
variable: the highest head there ever was, from which the undo buffer counts.

### `Chain`: the tree and the main thread
The set `BlockIndex`, the ordered lists `Childs`, which nodes have data, the head and
the stack of the main thread (`op`). A reorganisation takes one step for each block
undone or applied, so headers come in between. `HandleHeaders`, `BlockReceived`,
`NewBlockReceived` and `WronglyMined` are what network goroutines do; `DiscardArrived`,
`CommitOnTop`, `CommitFails` and `CommitOffTop` are the outcomes of `HandleNetBlock`
with `LocalAcceptBlock` and `CommitBlock`; `MoveToBlock`, `UndoLastBlock`, `Parse*` are
the functions of `chain_tree.go`. `WriteBlock`, `SaveUtxo`, `Crash`, `LoadBlockIndex`,
`HostInit` and `DoTheBlocks` are the disk and the restart, with Go's random order of map
iteration made explicit (`Orders`, and `Loading` for the loop that links or deletes nodes). A panic is a value of `mode`; it ends the behaviour, while
the program recovers once more in `main` to close the chain and then exits.
`arrived` stands for the channel `NetBlocks` and for `CachedBlocks` together, as a set: the main
thread may take any block of it whose parents have data, a superset of what the channel's order
allows.
Script and amount checks are the constant `Bad`, checks of a body alone `Malformed`,
difficulty `Work`. `DoTheBlocks` has both ways in which `do_the_blocks` ends early: a node
without data stops it as if the end had been reached, data that is missing from the store
is a panic. A node or a block is what its hash says; copies with altered data are in
`Fetch` only.

### `BlockTree`: ancestors and heights
The operators on a tree of blocks that `Chain` and `Fetch` share.

### `Fetch`: the download of headers and blocks
`b2g` is `BlocksToGet` with `IndexToBlocksToGet` (its lists as sets) and
`LowestIndexToBlocksToGet`; the other variables are the fields of a connection. One
action per message handler or tick, each a hold of `MutexRcv`: `SendGetHeaders`,
`HeadersAnswer`, `HeadersAnnounce`, `ProcessInv`, `NetworkTick`, `GetBlockData`,
`Expire`, `RunEnds`, the outcomes of `netBlockReceived` (`BlockAgain`, `BlockReceived`,
`BlockWronglyMined`, `BlockCorrupt`) and those of `ProcessCmpctBlock` and
`ProcessBlockTxn`. A headers message is a set of blocks, an answer the path above the
common ancestor. An honest peer answers, announces a header only to those who have the
block before it, and sends only its chain; any other may withhold, corrupt, alter, hang up.
The data of a block comes in one of three `Copies`: faithful; corrupt, so that the Merkle
root does not match; or altered, with the transactions of the block and witness data that is
not theirs. `PostCheckBlock` refuses the last two, and because the Merkle root is that of the
transaction IDs, which do not cover the witness, an altered copy of a sound block takes the
path of a wrongly mined one (`BlockWronglyMined`, and `GiveUp` in an assembled compact block).
`Alterable` bounds of which blocks such copies are sent. `givenUp` is a history variable: the
blocks that were ever deleted in this way. A block whose node was deleted after it had come
stays in `CachedBlocks` for ever, so `Accept` takes only blocks of the tree.
`UintMax` is the range of the unsigned `InProgress`: a decrement at zero wraps.
Left out: points for misbehaviour short of a ban (in particular the 50 of 1000 that a peer
gets for each header that does not link, `hdrs.go:133`, as those of an honest peer do
after its branch was given up), peers without witness data, the trust
in authorised peers, and a bound of the channel `NetBlocks`.

### `Mempool`: the memory pool
`mp` holds the maps (`TransactionsToSend`, `SpentOutputs`, `TransactionsRejected`,
`WaitingForInputs`, marks and counts of unconfirmed inputs, both sizes). The main thread
and a web thread each have a list of what they will do next, because `HandleNetTx`,
`NeedThisTx`, each retry and `MarkChildrenForMem` are separate holds of `TxMutex`.
`Verdicts` follows the checks of `HandleNetTx` in their order; input amounts, scripts and
sizes are constants. Blocks are mined and undone, the limits applied (`ExpireTxs`), the
file saved, loaded by the user (`MempoolLoadNew`) and at the start (`Restart`). Which
transactions a limit removes is left open, except that children go with parents.
Coinbase maturity is a fixed set; routing to peers is left out, and so are different
witnesses of one transaction and collisions of the short keys. Three steps are coarser than
the code: `MempoolSave` is one step although neither it nor its callers take `TxMutex`,
`DoRetry` reads the rejected record and handles it in one step although the read is not
locked (section 6, both), and `Accept` counts the inputs to be marked as a set of outputs
where the code goes by input (`txpool_core.go:339`), which differs only for a transaction
that names one output twice.

### `Qdb` and `QdbStore`: the key-value store
Every write, creation and removal of a file is a step: a value into the data file
(`SyncRec`), creation, header and entries of the log, the new data file of a
defragmentation, the index file and its end marker, the removals. `Durable` is the map
that the next start would load; `QdbStore` says what a user relies on: that map changes
only to the map in memory, all at once, when it is saved. Whether there is enough waste
to defragment is left open. The process dies between two writes; one write is whole.

### `MCBlockDB`, `MCUnspentDB`, `MCChain`, `MCFetch`, `MCMempool`, `MCQdb`
The block trees, families of transactions and the symmetry sets for TLC (`Qdb`: keys and
values).

### `UnspentDBProofs`, `BlockDBProofs`, `ChainProofs`, `FetchProofs`, `MempoolProofs`, `QdbProofs`
The theorems about these components (section 5). `BlockTreeProofs` and `NatFacts` hold
lemmas on trees of blocks and on minima of sets of naturals that they share.

## 3. Runs

* `blockdb_session`: one session with a cache of one block, a queue of two, data files
  of one block of which one is kept, one invalid block and one concurrent reader. Every
  limit is reached: the cache is over-full of unwritten blocks, files roll over twice
  and get removed. Checks that an unwritten block is always cached and queued,
  that an empty queue means a durable store, that
  the module implements `BlockStore`, and that every block gets written.
* `blockdb_restart`: two restarts, at any step, with files archived, good blocks only. Data
  survives and is read back; what the next session writes over the half-written tail of the last
  one never harms a stored block.
* `utxo_reorg`: a chain of three with a branch at height 2, an undo buffer of two, saves
  of two chunks through a channel of one, two saves, a clean `Close`. The map is exact
  between operations, snapshots are whole, the map stands still under `save()`, `Close`
  flushes; `abortWriting` and `Close` return. Undo files are removed while blocks are undone
  and committed: `UndoFindsItsFile` says that a block less than `UnwindBufLen` below the
  highest head ever reached still has its file, and that it is its own and not that of the
  other branch at the same height. Undoing deeper than the buffer is a panic in the code and
  ends the behaviour.
* `utxo_crash`: the process may be killed at any step, files may fail to be
  created. An abort token never outlives its wait; while the disk keeps up, a loadable
  snapshot, once there, is never lost.
* `chain_reorg`: two branches of three above the head, one with more work per block and
  a wrongly mined last block. Headers and blocks come in any order; the node ends on the
  heaviest branch, `BlockIndex` and `Childs` agree and no internal check fires.
* `chain_restart`: branches of two and three, blocks and snapshots written at any time,
  one crash. The heaviest branch wins, before and after; the block of the snapshot is
  always on disk; the network resumes whenever the head is below the farthest block on disk
  (`NetworkResumes`), a panic not being counted as resuming.
* `chain_invalid`: the scripts of a block fail on which the branch forks again, one crash. No
  invalid block is ever active; without a crash the node falls back on the best valid branch
  (`FallsBack`); and the main thread returns (`ReorgEnds`) or ends in a panic, except in
  behaviours in which the farthest node is a header without data from some time on: there the
  recursion of `ParseTillBlock` and `MoveToBlock` does not end (section 6).
* `fetch_sync`: an honest peer with a chain of two, and another one with a wrongly mined block,
  which may corrupt, withhold and hang up, and send the blocks of the honest chain with altered
  witness data, so that sound branches are given up, too. `LowestIsLeast` keeps every
  block findable, `SlotsAreExact` says that every slot that a time-out, a
  corrupt copy or a lost connection frees comes back, unless the block was given up,
  `QueueIsConnected` that nothing is waited for that could not be used,
  `HonestStaysConnected` that nobody is banned for another peer's corrupt copy, and
  `Synchronises` that the longest honest chain arrives unless a block of it was given up.
* `fetch_compact`: compact blocks as well, from a friend, who is honest, and a peer, who is not, assembled from the memory pool with wrong
  transactions or witnesses. The count of downloads is not exact then (see
  section 6) but never below the number of downloads and never below zero for a block
  that was not given up.
* `mempool_mine`: parent, child, two conflicting spenders; arrival in any order, also by the
  web interface, replacement, both limits, mining, saving and loading, restart. What
  `MempoolCheck` compares, that retries find all who wait (`NobodyWaitsInVain`,
  `WaitingIsExact`), that the pending ones are in the channel or in hand.
* `mempool_undo`: blocks undone, transactions with wrong scripts, of outputs that do not
  exist and too big (one that overspends is handled like the second). The marks and counts of
  unconfirmed inputs follow (`MemInputsAreExact`).
* `qdb_crash`: three changes, two keys, up to two defragmentations, one crash between any two
  writes. `ImplementsQdbStore` is the refinement; `UnsavedIsPending` says that `Close`
  loses nothing.

`TypeOK` of `UnspentDB` is checked in `utxo_reorg` and proved; in the other modules it
documents the types of the variables and is in no run.

### Bounds
Three blocks are enough for `BlockDB` to have one block cached, one queued and one
written, and to put a record on each side of the one being flagged or lost. In
`UnspentDB` two saves are what overlap needs; two chunks make "half written" possible
and a channel of one makes the sender wait; a fork at height 1 makes two blocks share
an undo file, and the tree of `utxo_reorg` is one block higher than its undo buffer. `Chain`
needs a head, a branch to leave and a branch to arrive at in which blocks follow the one that
fails. `MaxDat`, `MaxCrash`, `MaxSaves`, `MaxEnds`
bound how long TLC follows a behaviour; they appear in guards only. In `utxo_reorg` and
`utxo_crash`, `DiskKeepsUp` is TRUE: no save starts before the file of the last one is
closed; section 6 says what happens without it.

`Fetch` needs a chain of two, so that a block given up has a child in the queue, and a
shorter branch beside it that is given up; more room than the withheld blocks take
(`MaxPeersBlocks`, `MaxGetdataForward`); two peers are what sharing a block needs. `fetch_compact` uses a
line of two blocks, the second of them alterable, and two downloads at once. In
`Mempool`, four transactions give a chain of unconfirmed ones, a replacement of it and an
unrelated spender; `MaxQueue` 1 fills the channel, the pool's limit holds two of them.
`Race` is FALSE: the same transaction is not handled by both threads at once. `Qdb` starts
from a database that was closed once (`Fresh` FALSE); two keys make a mixture of two maps
possible, two defragmentations use both index files.

`CHECK_DEADLOCK FALSE` stands where the system may stop: after a panic, after the last
end of the process, or when every block of the instance has arrived.

## 4. Fairness

* `BlockDB`: weak fairness of `Idle` and of the steps of `writeAll`. The main loop of the
  client calls `Idle` on every tick without work, and a write it began goes on.
* `UnspentDB`: weak fairness of each goroutine and of the work the main thread has begun.
  The Go scheduler runs every runnable goroutine. Nothing makes the main thread begin an
  operation.
* `Chain`: weak fairness of the main thread and of `do_the_blocks`. Nothing is assumed of
  peers, of the disk or of the user.
* `Fetch`: weak fairness of the end of Run, of asking for headers, of time-outs and of the
  main thread; honest peers connect again and answer. Strong fairness of `GetBlockData`
  and of the honest answer to getheaders: connections tick ten times a second, and
  `NetworkTick` or an announcement, which switch a connection back to headers for a while,
  are much rarer. Nothing is assumed of what other peers send.

## 5. Proofs

The theorems hold for every value of the constants that satisfies the assumption named in
the component's module (`BlockDBAssumption`, `ChainAssumption`, `FetchAssumption` and
`HonestAssumption`, `MempoolAssumption`, `QdbAssumption`, `UnspentDBAssumption`): any tree of blocks, any
number of peers, transactions, keys, saves, crashes, any limit. These say of what type
the constants are, that the trees are trees, that limits which the code divides or waits
by are not zero, and that `None` is none of the values it stands beside. Finiteness is
assumed where something is counted (blocks and connections in `Fetch`, blocks in `Chain`,
transactions and outputs in `Mempool`, keys in `Qdb`).

Some theorems have a hypothesis of their own. Each is there because section 6 shows how
the program breaks the property without it, and the runs that check the property make
the same choice:

| hypothesis | says | of |
|---|---|---|
| `NoSkew` | no block is invalid, or the process is not restarted | files of `BlockDB` |
| `DiskKeepsUp` | a save starts after the file of the one before is closed | files of `UnspentDB` |
| `~MayCrash` | the process ends by `Close` only | exactness in `UnspentDB` |
| `~Compact` | no compact blocks | `SlotsStayExact`, `HonestStayConnected` |
| `Calm` | two threads do not get one transaction, the user loads nothing too big, and blocks are undone only if the web interface gets no transaction and none is too big | sizes, waiting lists and retries of `Mempool` |
| `NoOwnInput`, `~Undo` | no transaction spends an output of one that it would replace, or of a descendant of that one; no block is undone | inputs and marks of `Mempool` |
| `AllValid` | no block's scripts fail | `Chain`, all but `TypeCorrect` and `NoBadApplied` |
| `MaxCrash = 0` | the process is not killed | `NeverPanics` |
| `~SaveCommand` | the saveutxo command is not used | `SavedStaysOnDisk`, `RestartSucceeds` |
| `OneTrunk` | one block is directly above genesis | `MostWorkAlwaysWins`, `RestartSucceeds` |
| `MaxCrash = 0 \/ EqualWork` | the process is not killed, or all blocks have the same work | `MostWorkAlwaysWins` |
| `Tip # Root` | a block above genesis is applied at the start | `RestartSucceeds` |
| `HasIndex` | the database was defragmented once, or the process is not killed | `Qdb` |

`Tip # Root` is the exception: it is there because the model does not keep the order of the
channel, and a second block taken first on top of genesis would be refused by `MoveToBlock`.
Without `~MayCrash` an older snapshot meets the undo files of another branch: they are
found by height alone, and undoing a block with them makes the map drift. `Calm` restricts undone
blocks because `BlockUndone` hands their transactions to the main thread whether or not the
web thread has one of them, and because a transaction that is too big overwrites its record.

### `UnspentDBProofs`
* `TypeCorrect` (`TypeOK`). `TypeOK` alone is not inductive: what a restart loads is found
  through the first chunk of a file, so `TypeInv` adds that every chunk in a channel, in a
  writer's hand or in a file is of a save that was started (`ChunksAreSaved`), that
  running goroutines belong to such a save and writers have an open file
  (`RunningIsSaved`), and that the main thread works on a block with a parent
  (`WorksOnABlock`).
* `SaveSeesOneMap` (`SavesWhatIsThere`) and `AbortTokenIsTakenBack` (`NoStaleAbort`), from
  `SaveInv`: `WritingInProgress` is set exactly while `save()` runs, the main thread is
  past the wait only when it does not, and a waiting operation is never taken for a free
  main thread.
* `SnapshotStays` (`SnapshotSurvives`), with crashes and files that cannot be created. The
  invariant `DiskInv` follows the chunks: those written, the one in the writer's hand and
  those in the channel are the first ones of the save in order (`PipeOf`), a file is
  closed without an abort only when it has all of them, one file is written at a time
  (`OneFileInv`), and what `UTXO.db` and `UTXO.old` name is whole and closed (`FilesInv`).
* `CloseSaves` (`CloseFlushes`), from `FlushInv`: `DirtyDB` is clear only if the map is on
  disk or in a file that will be whole when it is closed.
* `UtxoStaysExact` (`UtxoIsExact`), `SnapshotsStayWhole` (`SnapshotsAreWhole`) and
  `UndoFileIsFound` (`UndoFindsItsFile`), from `ExactInv`: besides the map and every saved map
  being those of their last block, the undo file at the height of each block of the map that is
  less than `UnwindBufLen` below `peak` is that block's, of the map in memory while the process
  runs and of the one on disk while it does not (`UndoFits`). The removal of old files, by
  `CommitBlockTxs` on every commit, is below that window because the head never is above
  `peak`. Trees of any height are covered.

### `BlockDBProofs`
* `TypeCorrect` and `UnwrittenStaysCached` (`UnwrittenIsCached`), from `MemInv`: what the
  writer and the readers hold is known, a reader at a file reads what was written, and a
  stopped process has nothing in memory.
* `ReadersGetTheBlock`, `FlushedStaysDurable` and the action property
  `StoredStaysKept`, from `FileInv`: one record per block, data where the record says
  (`DiskInv`), records and map agree (`MapInv`), the next write goes behind everything
  that is named (`PosInv`), a data file is removed only when newer ones hold the blocks to
  keep (`RemovingInv`), and what holds between the two writes of `writeOne`
  (`PendingInv`).
* `BlockDBImplementsStore`: under `StoredAs` every step is a step of `BlockStore` or a
  stutter. A crash between data and index, for instance, is the abstract restart that
  forgets a queued block.

### `ChainProofs`
* `TypeCorrect`, for every constant, from `TypeInv`: the lists of children name blocks of
  which the node is the parent, each once (`TreeTypes`), and the main thread has the block
  that its step works on (`OpTypes`).
* `NoBadApplied` (`NoBadBlockActive`), for every constant: any tree, any set of invalid
  blocks, any number of crashes. `ParseTillBlock` and `CommitBlock` skip the scripts of a
  block that is marked as trusted, `BlockInvalid` marks a block as trusted in memory, and
  records of a failed block may stay on disk, so the head being free of bad blocks is far from
  inductive. `BadInv` speaks of the first bad block of each branch: it is marked as trusted
  only when it is flagged invalid on disk, and then it is out of the tree, is not queued for
  the main thread, and nothing that could be linked on top of it was announced (`TrustInv`),
  so neither `CommitBlock`, `MoveToBlock` (`GoalInv`) nor `do_the_blocks` meets it again; a
  restart does not read flagged records and forgets the mark. `KeptInv` and `KnownInv` say
  why a block that was announced and left the tree does not come back in the same session,
  `GoodStore` why what is below it is stored, and `QueueInv` what the blocks queued at
  start-up are: a path of the tree upwards from the head, unless one of them failed already and
  the main thread is about to end in a nil dereference (`Doomed`).
* `IndexStaysTree` (`IndexMatchesTree`), `NeverPanics` (`NoPanic`) and `SavedStaysOnDisk`
  (`SavedIsOnDisk`), from `ValidInv`: what is stored or on disk has its parent stored or on
  disk (`StoreInv`); index, lists of children, `hasData` and store describe one tree, and what
  is on its way has its header there (`TreeInv`); the main thread moves to a stored block and
  parses from below it (`OpInv`); a start parses only what was found on disk (`StartInv`).
* `MostWorkAlwaysWins` (`MostWorkWins`), from `WorkInv`: at every moment, nothing stored has
  more work than the head, than the block a reorganisation moves to, or than the end of
  what a start will parse. The property speaks of idle moments only. What `WorkOf` adds up
  along a branch is used through its recursive equation, and `EqualWork` through the lemma
  that work then grows with height.
* `RestartSucceeds`: after a crash anywhere the head of the snapshot is found, no stored
  block is refused and no trusted block is declared invalid. The one check that can still
  fire is the missing path in `do_the_blocks` (section 6).

### `FetchProofs` and `BlockTreeProofs`
`BlockTreeProofs` has what the proofs need about ancestors and heights from the fixpoint
`AncOf`, `NatFacts` what they need about least and greatest elements of sets of
naturals, without induction.
* `TypeCorrect`, `LowestStaysLeast` (`LowestIsLeast`), `QueueStaysConnected`
  (`QueueIsConnected`), from `CoreInv`: the queue and its index by height agree, and the
  tree is closed under `Parent` and consists of blocks that came or are waited for. The
  lemmas on `AddB2G` and `DelB2G` carry the weight: the search from the lowest index upward
  finds the next height that has an entry.
* `SlotsStayHeld` (`SlotsAreHeld`) and `SlotsStayExact` (`SlotsAreExact`), from `SlotInv`: a
  block that somebody is getting is in the queue, has come, or was given up, which is why a
  late answer cannot give back a slot of a newer download of a block that was not. Wrongly
  mined blocks and altered copies of sound ones are covered; what was given up is exempt,
  because the code loses count of it (`CountsNeverWrap`).
* `HonestStayConnected` (`HonestStaysConnected`), from the same invariant.

### `MempoolProofs`
* `TypeCorrect` and `PendingStaysQueued` (`PendingIsQueued`).
* `SpentStaysExact` (`SpentIsExact`), with races and undone blocks. `SpentInv` adds that no
  two transactions of the pool have an input in common, and the same of the file that a
  start loads.
* `SizesStayExact` (`SizesAreExact`) and `WaitingStaysExact` (`WaitingIsExact`), from
  `RejInv`: a transaction is in the pool or rejected but not both, and one that is
  pending, or that a thread holds after `NeedThisTx`, is in neither, nor with the other
  thread. The sizes are sums over finite sets; `TotalSize` lemmas say what adding and
  removing one transaction, or a set of them, does to a sum.
* `RetriesMissNobody` (`NobodyWaitsInVain`), from `WaitInv`: whoever waits for a
  transaction of the pool is, at every moment, among the retries that a thread still has
  before it. The property itself speaks of idle threads only and is not inductive.
* `InputsStay` (`InputsExist`) and `MarksStayExact` (`MemInputsAreExact`), with races, from
  `FedInv`: no transaction of the pool is mined, its inputs exist and are outputs of the
  pool or unspent (`Fed`), the marks are those inputs (`Marked`), blocks come after the
  blocks of their parents (`Rooted`), and the same of the file and its chain. `Fed` and
  `Marked` need each other: an input is unmarked when its parent is mined only because the
  parent was in the pool. Where blocks are undone both are broken for a while, and for good
  if the parent is not accepted again; there they are model-checked (`MempoolUndo`).

### `QdbProofs`
* `TypeCorrect`, `UnsavedStaysPending` (`UnsavedIsPending`) and `QdbImplementsStore`
  (`ImplementsQdbStore`), from one invariant: what the disk names has its value in a data
  file (`DataInv`), how the versions of two index files and of the log relate at each
  write (`VersionInv`, `LogInv`), a data file that is created has a number that nothing on
  disk names (`SeqInv`), the entries to be appended are those of the pending records
  (`BufInv`), and memory and disk differ in pending records only (`PendInv`). Number and
  version are tied by `seq <= 2 * version + changes`, which bounds the numbers that the
  model's data files need.

Every proof goes action by action: a lemma per actor or handler, under it a step per
conjunct that the action can disturb. They use no fact about what TLC explored. The
inductive invariants were checked with TLC before they were proved.

### Only model-checked
* Liveness, which is out of the prover's reach: `EveryBlockIsWritten`, `AbortReturns`,
  `CloseReturns`, `ReorgEnds`, `NetworkResumes`, `Synchronises`.
* `FallsBack`: the theorem on `MostWorkWins` is for trees of valid blocks.
* `MemInputsAreExact` of `Mempool` with undone blocks.

## 6. Known disagreements

Found while modelling. Where a property is named, TLC finds it violated in the instance given:
a configuration of section 3 with the constants changed as stated. The properties of which no run
speaks (`IposNamesItsRecord`, `ReorgAlwaysEnds`, `NetworkAlwaysResumes`,
`GivesUpWronglyMinedOnly`, `CountsNeverWrap`, `AlwaysSynchronises` among them) are in the
modules for this purpose.

Block database and UTXO database:
* `LoadBlockIndex` skips a record flagged invalid without advancing `maxidxfilepos`
  (`blockdb.go:626`): the records behind it get a position one record too low, while
  `blockdb.go:59` says `ipos` is where the record is stored.
  `BlockDBRestart` with `Bad = {b3}` and no symmetry: `IposNamesItsRecord`.
* `setBlockFlag` sets `trusted` in memory for the invalid flag, too (`blockdb.go:439`).
* The writer of an earlier save, not aborted and slow, renames its older file over the newer
  `UTXO.db` (`unspent_db.go:299`); `DirtyDB` is clear by then, and `Close`, which "flushes
  the data and closes all the files" (line 514), leaves the old map. `UtxoReorg` with
  `DiskKeepsUp = FALSE` violates `CloseFlushes`. Two saves of the same block also share one
  `.db.tmp` name, and `SnapshotSurvives` fails.
* The undo file is removed when a block is undone while the snapshot on disk still has
  the block, or while the writer of a save that has it goes on: after a crash, undoing it
  again panics (`unspent_db.go:475`, `440`). `UtxoReorg` on
  the lower tree `ForkBlock`, which never leaves the undo buffer, with `MayCrash = TRUE` and
  `MaxEnds = 2`: `NoPanic`.
* A save whose file cannot be created never calls `lastFileClosed.Done()`, so `Close`
  waits for ever (`unspent_db.go:263`; `UtxoReorg` with `CreateMayFail = TRUE`,
  `CloseReturns`).
* `saveutxo` saves a snapshot of a block that may still be queued; a crash then ends in
  "Last Block Hash not found" (`commands.go:458`; `SaveCommand`).

Chain (instances of `MCChain` on the tree `Fork`):
* A block is stored before its scripts are checked and not flagged when they fail on top of
  the head (`main.go:88`). After a restart it is queued again with `Conn` nil, fails again and
  `newbl.Conn.Misbehave` dereferences nil. `Bad = {a1}`, `HeadersFirst = FALSE`,
  `MayFlush = TRUE`, `MaxCrash = 1`: `StoredIsAccepted`.
* The parse towards a heavier branch fails and the farthest node has no data:
  `ParseTillBlock` and `MoveToBlock` call each other for ever (`chain_tree.go:119`).
  `Bad = {b2}`: `ReorgAlwaysEnds`.
* `delAllChildren` calls `BlockInvalid` with the hash of the parent once per child; the first
  call on a stored block marks it trusted, the second panics with "Trusted block cannot be
  invalid" (`chain_tree.go:303`). `Bad = {b2}`, `MayFlush = TRUE`: `TrustedStaysValid`.
* A retry and a restart move to the farthest node, not to the heaviest (`chain_tree.go:117`,
  `init.go:101`). Unequal work and a crash: `MostWorkWins`.
* A snapshot of a stale branch makes `do_the_blocks` look for a path that does not exist
  (`main.go:339`). `ChainRestart`: `NetworkAlwaysResumes`.
* When a block fails on top of the head, only that block is deleted from `BlockIndex`
  (`chain_accept.go:73`); children of it whose headers came stay in the index and are reached from
  nowhere. `Bad = {a1}`: `IndexMatchesTree`.
* The genesis block has no transactions in the tree, which `MoveToBlock` takes for missing data:
  a fork directly above genesis is never taken (`chain_tree.go:249`). A tree with two such
  blocks: `MostWorkWins`.
* `loadBlockIndex` deletes nodes without a parent while it iterates in the order of the map
  (`chain_load.go:37`). A child visited before its parent is deleted stays in the index, linked
  to a node whose `Parent` is nil; walking down from it, as `HasAllParents` does, dereferences
  nil. The model takes the deleted node for one without data.

Download:
* A compact block that turns out corrupt leaves its `Txs` in the queue (`cblk.go:381`, `519`),
  where `netBlockReceived` says "discard the data we extracted from this one, so it won't
  confuse us later" (`data.go:203`). The next, faithful copy fails with a wrong Merkle root and
  its sender is banned. `FetchCompact` with `HonestStaysConnected`.
* `ProcessBlockTxn` never takes `InProgress` back (commented out at `cblk.go:478`), and a
  compact block announced again counts twice; once `MaxBlockAtOnce` is reached nobody asks for
  the block. `FetchCompact` with `SlotsAreExact`.
* A copy of a sound block with altered witness data fails `PostCheckBlock` while its Merkle root
  matches, so "It was a wrongly mined one - give it up" (`data.go:194`; `cblk.go:386`, `525`): the
  block and all that is built on it leave the queue and the tree. `FetchSync`:
  `GivesUpWronglyMinedOnly`.
* The connections that were asked for such a block keep it. If it is announced again it starts with
  `InProgress` zero, and the first of them to end takes the unsigned count below zero, whence
  nobody asks for it (`data.go:190`). `FetchSync`: `CountsNeverWrap`.
* `LastCommitedHeader` is moved only if it is the very block given up (`data.go:196`). If a block
  below it is, it stays on a deleted node and goes on being the first locator of getheaders: peers
  on that chain have no headers to add. `FetchSync`: `AlwaysSynchronises`. If it is moved, to the
  parent, a block of another branch at its old height is not asked for until a higher header
  comes (`data.go:397`). `Malformed = {b2}` on the tree `ForkBlock`, nothing
  altered: `AlwaysSynchronises`; hence `Longest` in `Synchronises`.
* `ProcessCmpctBlock` returns with `TxMutex` locked on a double short ID (`cblk.go:308`, `330`).
* `tick.go:65` says never to lock `MutexRcv` within a connection's mutex; the end of `Run` does
  (`tick.go:923`). The comment at `tick.go:104` says that only blocks that are no longer wanted
  expire; all do.

Memory pool:
* `MarkChildrenForMem` counts an input twice when the child was accepted by a retry of the
  parent just put back, and marks children even if that parent was not put back
  (`txpool_mine.go:168`, "TODO ... issue #58"). `MempoolUndo` with `Local = {txC}`:
  `MemInputsAreExact`.
* `NeedThisTx` and `HandleNetTx` are two holds of `TxMutex`, and the web interface calls the
  latter, which "must be called from the chain's thread" (`txpool_core.go:236`). `Race = TRUE`:
  `SizesAreExact` and `WaitingIsExact`. `BlockUndone` gives the main thread a transaction
  that the web thread may be handling: `MempoolMine` with `Undo = TRUE`: `SizesAreExact`.
* The second loop of `LimitRejectedSize` takes the hash from a transaction that records of
  reasons below 200 do not have (`txpool_sort.go:219`). `MempoolUndo` with
  `MaxRejectSize = 5`: `NoPanic`.
* `MempoolCheck` adds up the sizes of records that `TransactionsRejectedSize` "only" includes
  with their transaction (`txpool_core.go:52`, `txpool_sort.go:337`). A transaction that is too
  big overwrites its older record (`txpool_core.go:217`). `tx_mined` dereferences the nil
  record it reports (`txpool_mine.go:92`).
* `RetryWaitingForInput` reads `TransactionsRejected[k].Tx` without `TxMutex`
  (`txpool_core.go:573`): a removal by a web thread before it is a nil dereference.
* `MempoolSave` takes no lock (`txpool_disk.go:50`), nor does the call at the end
  (`main.go:688`): a web thread that changes the pool between the loops over
  `TransactionsToSend` and `SpentOutputs` makes a file whose two parts disagree, and the maps
  are iterated while they are written.
* A replacement may spend an output of a transaction that it replaces; nothing checks it
  (`txpool_core.go:302`).

qdb:
* A database that was never defragmented, killed between creating the log and writing its
  header: the empty log is taken for one of version 0, entries go where the header
  should be, and the next start discards the log with all that was synced since
  (`index_disk.go:158`). `QdbCrash` with `Fresh = TRUE`: `UnsavedIsPending`.
* `sync` does not flush the files to the disk, and part of a log record left by a torn write
  would misalign the later ones; neither is in the model.

## 7. Not modelled

Altered copies of a block outside `Fetch`, changes of the pool by a web thread inside
`MempoolSave` or between the read and the handling of a retry, torn writes of a single record, the AbortNow paths of the main loop, blocks submitted by
RPC, the rescan and undo options of `NewChainExt`, trusted peers (`TrustAll`, authorised
connections), the purge of unspendable outputs beyond the abort it makes, the
verification of transactions (`commitTxs`), sockets, message framing and pings, the list of
known peers, routing of transactions, fee statistics, records of qdb that are not cached and
its volatile mode.

Of the repository's 62,600 lines of Go about 21,000 are tables of constants and word lists.
Most of the rest is sequential code without state that a model checker could say more
about than a test: the script interpreter, encodings of transactions and blocks, elliptic
curves and hashes on 256-bit numbers, the offline wallet, some thirty tools, the text and web
pages. What keeps state, runs concurrently or survives a crash is in the modules above.

## 8. Plan

1. `Commit`: the parallel verification in `commitTxs` against a sequential reference.
2. A composition of `Chain` and `UnspentDB`: the head and `LastBlockHash` agree across
   crashes.
3. Proofs of `Chain` with invalid blocks, once the disagreements of section 6 are settled in
   the code.
