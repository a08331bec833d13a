------------------------------ MODULE BlockDB ------------------------------
(***************************************************************************)
(* The block storage of lib/chain/blockdb.go: an in-memory index and cache *)
(* of blocks, a queue of blocks that still have to be written, and two     *)
(* kinds of files - blockchain.new, an array of fixed-size records (here   *)
(* the sequence idxFile, one element per 136 bytes), and the numbered data *)
(* files (here sequences of blocks: every block is one unit long).         *)
(*                                                                         *)
(* Three kinds of actors run: the main thread, which adds blocks, changes  *)
(* their flags and writes the queue out; reader threads inside             *)
(* BlockGetInternal; and the goroutines that remove old data files.  A     *)
(* crash ends the process between any two steps; what was written to a     *)
(* file stays there.                                                       *)
(***************************************************************************)
EXTENDS Integers, Sequences, FiniteSets

CONSTANTS
    Block,          \* the blocks, each standing for its hash and its data
    Bad,            \* the blocks whose scripts do not verify
    Reader,         \* threads that call BlockGetInternal
    MaxCached,      \* max_cached_blocks
    MaxToWrite,     \* MAX_BLOCKS_TO_WRITE, the capacity of blocksToWrite
    FileCap,        \* max_data_file_size, in blocks (0: one file only)
    Keep,           \* data_files_keep (0: keep all)
    Backup,         \* data_files_backup
    MaxDat,         \* bound: highest data file number explored
    MaxCrash,       \* bound: how often the process crashes
    NoRec,          \* "not in the map"
    NoData          \* "nothing read"

ASSUME BlockDBAssumption ==
    /\ Bad \subseteq Block
    /\ MaxCached \in Nat \ {0} /\ MaxToWrite \in Nat \ {0}
    /\ FileCap \in Nat /\ Keep \in Nat /\ Backup \in BOOLEAN
    /\ MaxDat \in Nat /\ MaxCrash \in Nat
    /\ NoData \notin Block
    /\ NoRec \notin [ipos : Nat \cup {-1}, dat : 0..MaxDat, fpos : Nat, trusted : BOOLEAN]

VARIABLES
    mode,           \* "up" while the process runs, "down" otherwise
    blockIndex,     \* the map blockIndex: a oneBl record or NoRec
    cache,          \* the map cache: the data of a cached block or NoData
    blocksToWrite,  \* the channel of blocks waiting to be written
    writer,         \* where the main thread is inside writeAll
    maxidxfilepos, maxdatfilepos, maxdatfileidx,
    idxFile,        \* blockchain.new on disk
    datFile,        \* contents of the data files on disk
    datDir, arcDir, \* the data files that exist, and the ones in oldat/
    removing,       \* data files a removeDatFile goroutine is to remove
    reader,         \* the local state of every BlockGetInternal call
    crashes         \* number of crashes so far

memVars  == <<blockIndex, cache, blocksToWrite, writer>>
posVars  == <<maxidxfilepos, maxdatfilepos, maxdatfileidx>>
diskVars == <<idxFile, datFile, datDir, arcDir>>
vars == <<mode, memVars, posVars, diskVars, removing, reader, crashes>>

-----------------------------------------------------------------------------
(* Types *)

DatIdx == 0..MaxDat

OneBl == [ipos : Nat \cup {-1}, dat : DatIdx, fpos : Nat, trusted : BOOLEAN]

IdxRec == [block : Block, dat : DatIdx, fpos : Nat,
           trusted : BOOLEAN, invalid : BOOLEAN]

\* The calls of writeOne: none, about to take from the queue, about to write
\* the data, about to write the index record.
WriterState == [pc : {"idle", "take", "data", "index"}, block : Block \cup {NoData}]

ReaderState == [pc : {"idle", "read", "store", "done"},
                block : Block \cup {NoData}, data : Block \cup {NoData}]

TypeOK ==
    /\ mode \in {"up", "down"}
    /\ blockIndex \in [Block -> OneBl \cup {NoRec}]
    /\ cache \in [Block -> Block \cup {NoData}]
    /\ blocksToWrite \in Seq(Block)
    /\ writer \in WriterState
    /\ maxidxfilepos \in Nat /\ maxdatfilepos \in Nat /\ maxdatfileidx \in DatIdx
    /\ idxFile \in Seq(IdxRec)
    /\ datFile \in [DatIdx -> Seq(Block \cup {NoData})]
    /\ datDir \subseteq DatIdx /\ arcDir \subseteq DatIdx
    /\ removing \subseteq DatIdx
    /\ reader \in [Reader -> ReaderState]
    /\ crashes \in 0..MaxCrash

-----------------------------------------------------------------------------
(* Helpers *)

Known(b) == blockIndex[b] # NoRec

\* In the index, and its record not yet in blockchain.new.
Unwritten(b) == Known(b) /\ blockIndex[b].ipos = -1

\* A positioned Write: what is beyond the position stays in the file, and a
\* gap before it reads as nothing.
WriteAt(file, pos, x) ==
    [i \in 1..(IF pos + 1 > Len(file) THEN pos + 1 ELSE Len(file)) |->
        IF i = pos + 1 THEN x ELSE IF i <= Len(file) THEN file[i] ELSE NoData]

MaxOf(S) == CHOOSE m \in S : \A n \in S : n <= m
MinOf(S) == CHOOSE m \in S : \A n \in S : m <= n

Cached == {b \in Block : cache[b] # NoData}

\* Mutant of Evictions: blocks still to be written may go, too.
EvictionsOfAny(b) ==
    LET over == Cardinality(Cached) - MaxCached + 1
    IN  IF b \in Cached \/ over <= 0 THEN {{}}
        ELSE {E \in SUBSET Cached : Cardinality(E) = over}

\* What the loop of addToCache may evict when b is to be inserted: written
\* records only, just enough of them, all of them when even that is too few.
\* LastUsed picks the oldest; the model lets it be any.
Evictions(b) ==
    LET old  == {c \in Cached : ~Unwritten(c)}
        over == Cardinality(Cached) - MaxCached + 1
    IN  IF b \in Cached \/ over <= 0 THEN {{}}
        ELSE IF Cardinality(old) <= over THEN {old}
        ELSE {E \in SUBSET old : Cardinality(E) = over}

\* addToCache: a block that is there already keeps its data.
AddToCache(b, data) ==
    \E E \in Evictions(b) :
        cache' = [c \in Block |-> IF c \in E THEN NoData
                                  ELSE IF c = b /\ cache[b] = NoData THEN data
                                  ELSE cache[c]]

-----------------------------------------------------------------------------
(* Start and stop *)

Init ==
    /\ mode = "down"
    /\ blockIndex = [b \in Block |-> NoRec]
    /\ cache = [b \in Block |-> NoData]
    /\ blocksToWrite = <<>>
    /\ writer = [pc |-> "idle", block |-> NoData]
    /\ maxidxfilepos = 0 /\ maxdatfilepos = 0 /\ maxdatfileidx = 0
    /\ idxFile = <<>>
    /\ datFile = [d \in DatIdx |-> <<>>]
    /\ datDir = {} /\ arcDir = {}
    /\ removing = {}
    /\ reader = [r \in Reader |-> [pc |-> "idle", block |-> NoData, data |-> NoData]]
    /\ crashes = 0

\* The slots of blockchain.new that LoadBlockIndex does not skip.
ValidSlots == {i \in DOMAIN idxFile : ~idxFile[i].invalid}

\* The value of maxidxfilepos when LoadBlockIndex reads slot i: it is
\* advanced at the end of the loop body, which `continue` does not reach.
LoadedIpos(i) == Cardinality({j \in ValidSlots : j < i})

\* The record LoadBlockIndex leaves in the map: the last valid one wins.
LoadedRec(b) ==
    LET slots == {i \in ValidSlots : idxFile[i].block = b}
        i     == MaxOf(slots)
    IN  IF slots = {} THEN NoRec
        ELSE [ipos |-> LoadedIpos(i), dat |-> idxFile[i].dat,
              fpos |-> idxFile[i].fpos, trusted |-> idxFile[i].trusted]

LoadedDat == MaxOf({0} \cup {idxFile[i].dat : i \in ValidSlots})

\* Mutant of LoadedDatPos: writing goes on at the start of the data file.
LoadedDatPosZero == 0

\* maxdatfilepos is reset whenever a record with a higher file number shows up.
LoadedDatPos ==
    LET last == MinOf({i \in ValidSlots : idxFile[i].dat = LoadedDat})
    IN  IF ValidSlots = {} THEN 0
        ELSE MaxOf({0} \cup {idxFile[i].fpos + 1 : i \in {j \in ValidSlots : j >= last}})

\* The three data files below the kept ones, removed before going on.
LoadRemoves ==
    IF Keep # 0 /\ LoadedDat > Keep
    THEN datDir \cap {LoadedDat - Keep - k : k \in 1..3}
    ELSE {}

\* NewBlockDBExt and LoadBlockIndex: the program starts.
LoadBlockIndex ==
    /\ mode = "down"
    /\ mode' = "up"
    /\ blockIndex' = [b \in Block |-> LoadedRec(b)]
    /\ maxidxfilepos' = Cardinality(ValidSlots)
    /\ maxdatfileidx' = LoadedDat
    /\ maxdatfilepos' = LoadedDatPos
    /\ datDir' = (datDir \cup {LoadedDat}) \ LoadRemoves
    /\ arcDir' = IF Backup THEN arcDir \cup LoadRemoves ELSE arcDir
    /\ UNCHANGED <<cache, blocksToWrite, writer, idxFile, datFile, removing, reader, crashes>>

\* What the process loses when it ends.
Stop ==
    /\ mode' = "down"
    /\ blockIndex' = [b \in Block |-> NoRec]
    /\ cache' = [b \in Block |-> NoData]
    /\ blocksToWrite' = <<>>
    /\ writer' = [pc |-> "idle", block |-> NoData]
    /\ maxidxfilepos' = 0 /\ maxdatfilepos' = 0 /\ maxdatfileidx' = 0
    /\ removing' = {}
    /\ reader' = [r \in Reader |-> [pc |-> "idle", block |-> NoData, data |-> NoData]]
    /\ UNCHANGED diskVars

\* Killed between two steps.
Crash ==
    /\ mode = "up" /\ crashes < MaxCrash
    /\ crashes' = crashes + 1
    /\ Stop

\* Close: the queue is written out and the removals have ended.
Close ==
    /\ mode = "up" /\ writer.pc = "idle"
    /\ blocksToWrite = <<>> /\ removing = {}
    /\ crashes < MaxCrash
    /\ crashes' = crashes + 1
    /\ Stop

-----------------------------------------------------------------------------
(* The main thread *)

MainFree == mode = "up" /\ writer.pc = "idle"

StartWriting == writer' = [pc |-> "take", block |-> NoData]

\* Mutant of SetBlockFlag: the flag is not written to the file.
SetBlockFlagInMemory(b, fl) ==
    blockIndex' = [blockIndex EXCEPT ![b].trusted = TRUE] /\ UNCHANGED idxFile

\* Mutant of SetBlockFlag: the flag asked for is ignored.
SetBlockFlagTrusted(b, fl) ==
    LET slot == blockIndex[b].ipos + 1
    IN  /\ blockIndex' = [blockIndex EXCEPT ![b].trusted = TRUE]
        /\ idxFile' = IF slot \in DOMAIN idxFile
                      THEN [idxFile EXCEPT ![slot].trusted = TRUE] ELSE idxFile

\* setBlockFlag(cur, fl): whatever the flag, the record becomes trusted in
\* memory; the flag byte at cur.ipos is read, or'ed and written back.  At a
\* negative position both the read and the write fail and are ignored.
SetBlockFlag(b, fl) ==
    LET slot == blockIndex[b].ipos + 1
    IN  /\ blockIndex' = [blockIndex EXCEPT ![b].trusted = TRUE]
        /\ idxFile' = IF slot \in DOMAIN idxFile
                      THEN IF fl = "invalid" THEN [idxFile EXCEPT ![slot].invalid = TRUE]
                           ELSE [idxFile EXCEPT ![slot].trusted = TRUE]
                      ELSE idxFile

\* BlockAdd of a block that is not in the index.
BlockAddNew(b, trust) ==
    /\ MainFree
    /\ ~Known(b)
    /\ Len(blocksToWrite) < MaxToWrite    \* else the send would block for ever
    /\ blockIndex' = [blockIndex EXCEPT ![b] =
                        [ipos |-> -1, dat |-> 0, fpos |-> 0, trusted |-> trust]]
    /\ AddToCache(b, b)
    /\ blocksToWrite' = Append(blocksToWrite, b)
    /\ IF Len(blocksToWrite) + 1 >= MaxToWrite THEN StartWriting ELSE UNCHANGED writer
    /\ UNCHANGED <<mode, posVars, diskVars, removing, reader, crashes>>

\* BlockAdd of a block that is in the index and is now known to be good.
BlockAddTrusted(b) ==
    /\ MainFree
    /\ Known(b) /\ ~blockIndex[b].trusted
    /\ IF blockIndex[b].ipos = -1
       THEN /\ blockIndex' = [blockIndex EXCEPT ![b].trusted = TRUE]
            /\ UNCHANGED idxFile
       ELSE SetBlockFlag(b, "trusted")
    /\ UNCHANGED <<mode, cache, blocksToWrite, writer, posVars, datFile, datDir,
                   arcDir, removing, reader, crashes>>

BlockTrusted(b) ==
    /\ MainFree
    /\ Known(b) /\ ~blockIndex[b].trusted
    /\ SetBlockFlag(b, "trusted")
    /\ UNCHANGED <<mode, cache, blocksToWrite, writer, posVars, datFile, datDir,
                   arcDir, removing, reader, crashes>>

\* BlockInvalid of a block that is not on disk: it is forgotten, and its
\* entry of the queue stays behind.
BlockInvalidDrop(b) ==
    /\ MainFree
    /\ Unwritten(b) /\ ~blockIndex[b].trusted
    /\ blockIndex' = [blockIndex EXCEPT ![b] = NoRec]
    /\ cache' = [cache EXCEPT ![b] = NoData]
    /\ UNCHANGED <<mode, blocksToWrite, writer, posVars, diskVars, removing, reader, crashes>>

\* BlockInvalid of a block that is on disk.
BlockInvalidFlag(b) ==
    /\ MainFree
    /\ Known(b) /\ ~Unwritten(b) /\ ~blockIndex[b].trusted
    /\ SetBlockFlag(b, "invalid")
    /\ UNCHANGED <<mode, cache, blocksToWrite, writer, posVars, datFile, datDir,
                   arcDir, removing, reader, crashes>>

\* Mutant of Idle: only a full queue is written out.
IdleWhenFull ==
    /\ MainFree
    /\ Len(blocksToWrite) >= MaxToWrite
    /\ StartWriting
    /\ UNCHANGED <<mode, blockIndex, cache, blocksToWrite, posVars, diskVars,
                   removing, reader, crashes>>

\* Idle, or the first step of Close: start writing the queue out.
Idle ==
    /\ MainFree
    /\ blocksToWrite # <<>>
    /\ StartWriting
    /\ UNCHANGED <<mode, blockIndex, cache, blocksToWrite, posVars, diskVars,
                   removing, reader, crashes>>

\* writeOne up to the unlock of mutex: take the oldest entry of the queue;
\* discard it when its block was forgotten or has been written meanwhile.
WriteTake ==
    /\ mode = "up" /\ writer.pc = "take"
    /\ blocksToWrite # <<>>
    /\ blocksToWrite' = Tail(blocksToWrite)
    /\ writer' = IF Unwritten(Head(blocksToWrite))
                 THEN [pc |-> "data", block |-> Head(blocksToWrite)]
                 ELSE [pc |-> "take", block |-> NoData]
    /\ UNCHANGED <<mode, blockIndex, cache, posVars, diskVars, removing, reader, crashes>>

\* writeAll: the queue is empty.
WriteDone ==
    /\ mode = "up" /\ writer.pc = "take"
    /\ blocksToWrite = <<>>
    /\ writer' = [pc |-> "idle", block |-> NoData]
    /\ UNCHANGED <<mode, blockIndex, cache, blocksToWrite, posVars, diskVars,
                   removing, reader, crashes>>

RollOver == FileCap # 0 /\ maxdatfilepos + 1 > FileCap

\* The data file that a roll-over makes a goroutine remove.
Expired ==
    IF RollOver /\ Keep # 0 /\ maxdatfileidx >= Keep THEN {maxdatfileidx - Keep} ELSE {}

\* writeOne under disk_access, the data: ipos is set first, then a full data
\* file is left for a new, truncated one and the block written to it.
WriteData ==
    LET b   == writer.block
        dat == IF RollOver THEN maxdatfileidx + 1 ELSE maxdatfileidx
        pos == IF RollOver THEN 0 ELSE maxdatfilepos
    IN  /\ mode = "up" /\ writer.pc = "data"
        /\ dat \in DatIdx
        /\ blockIndex' = [blockIndex EXCEPT ![b] =
                [@ EXCEPT !.ipos = maxidxfilepos, !.dat = dat, !.fpos = pos]]
        /\ datFile' = [datFile EXCEPT ![dat] = WriteAt(IF RollOver THEN <<>> ELSE @, pos, b)]
        /\ datDir' = datDir \cup {dat}
        /\ removing' = removing \cup Expired
        /\ maxdatfileidx' = dat
        /\ maxdatfilepos' = pos
        /\ writer' = [writer EXCEPT !.pc = "index"]
        /\ UNCHANGED <<mode, cache, blocksToWrite, maxidxfilepos, idxFile, arcDir,
                       reader, crashes>>

\* Mutant of WriteIndex: maxdatfilepos is not advanced.
WriteIndexSamePos ==
    LET b   == writer.block
        rec == blockIndex[b]
    IN  /\ mode = "up" /\ writer.pc = "index"
        /\ idxFile' = WriteAt(idxFile, maxidxfilepos,
                        [block |-> b, dat |-> rec.dat, fpos |-> rec.fpos,
                         trusted |-> rec.trusted, invalid |-> FALSE])
        /\ maxidxfilepos' = maxidxfilepos + 1
        /\ writer' = [pc |-> "take", block |-> NoData]
        /\ UNCHANGED <<mode, blockIndex, cache, blocksToWrite, maxdatfilepos, maxdatfileidx,
                       datFile, datDir, arcDir, removing, reader, crashes>>

\* writeOne, the index record, up to the unlock of disk_access.
WriteIndex ==
    LET b   == writer.block
        rec == blockIndex[b]
    IN  /\ mode = "up" /\ writer.pc = "index"
        /\ idxFile' = WriteAt(idxFile, maxidxfilepos,
                        [block |-> b, dat |-> rec.dat, fpos |-> rec.fpos,
                         trusted |-> rec.trusted, invalid |-> FALSE])
        /\ maxidxfilepos' = maxidxfilepos + 1
        /\ maxdatfilepos' = maxdatfilepos + 1
        /\ writer' = [pc |-> "take", block |-> NoData]
        /\ UNCHANGED <<mode, blockIndex, cache, blocksToWrite, maxdatfileidx, datFile,
                       datDir, arcDir, removing, reader, crashes>>

-----------------------------------------------------------------------------
(* The other threads *)

\* removeDatFile: delete an old data file, or move it to oldat/.
RemoveDatFile(d) ==
    /\ mode = "up" /\ d \in removing
    /\ removing' = removing \ {d}
    /\ datDir' = datDir \ {d}
    /\ arcDir' = IF Backup THEN arcDir \cup {d} ELSE arcDir
    /\ UNCHANGED <<mode, memVars, posVars, idxFile, datFile, reader, crashes>>

\* BlockGetInternal under mutex: from the cache when it is there; a block
\* that is neither cached nor written is an error.
GetLookup(r, b) ==
    /\ mode = "up" /\ reader[r].pc = "idle"
    /\ Known(b)
    /\ reader' = [reader EXCEPT ![r] =
            IF cache[b] # NoData THEN [pc |-> "done", block |-> b, data |-> cache[b]]
            ELSE IF Unwritten(b) THEN [pc |-> "done", block |-> b, data |-> NoData]
            ELSE [pc |-> "read", block |-> b, data |-> NoData]]
    /\ UNCHANGED <<mode, memVars, posVars, diskVars, removing, crashes>>

\* BlockGetInternal under disk_access, which the writer holds in between
\* its two writes: read the data file, or its copy in oldat/.  With
\* do_not_cache the data goes straight to the caller.
GetRead(r) ==
    LET b   == reader[r].block
        rec == blockIndex[b]
    IN  /\ mode = "up" /\ reader[r].pc = "read" /\ writer.pc # "index"
        /\ \E do_not_cache \in BOOLEAN :
              reader' = [reader EXCEPT ![r] =
                IF rec.dat \in datDir \cup arcDir /\ rec.fpos + 1 \in DOMAIN datFile[rec.dat]
                THEN [@ EXCEPT !.pc = IF do_not_cache THEN "done" ELSE "store",
                               !.data = datFile[rec.dat][rec.fpos + 1]]
                ELSE [@ EXCEPT !.pc = "done"]]
        /\ UNCHANGED <<mode, memVars, posVars, diskVars, removing, crashes>>

\* BlockGetInternal under mutex again: what was read goes to the cache.
GetStore(r) ==
    LET b == reader[r].block
    IN  /\ mode = "up" /\ reader[r].pc = "store"
        /\ AddToCache(b, reader[r].data)
        /\ reader' = [reader EXCEPT ![r].pc = "done"]
        /\ UNCHANGED <<mode, blockIndex, blocksToWrite, writer, posVars, diskVars,
                       removing, crashes>>

\* The caller has used the result.
GetReturn(r) ==
    /\ mode = "up" /\ reader[r].pc = "done"
    /\ reader' = [reader EXCEPT ![r] = [pc |-> "idle", block |-> NoData, data |-> NoData]]
    /\ UNCHANGED <<mode, memVars, posVars, diskVars, removing, crashes>>

-----------------------------------------------------------------------------

\* The chain trusts only blocks it has verified, and invalidates only blocks
\* whose verification failed.
MainNext ==
    \/ \E b \in Block : \E t \in {FALSE, b \notin Bad} : BlockAddNew(b, t)
    \/ \E b \in Block \ Bad : BlockAddTrusted(b) \/ BlockTrusted(b)
    \/ \E b \in Bad : BlockInvalidDrop(b) \/ BlockInvalidFlag(b)
    \/ Idle

WriterNext == WriteTake \/ WriteDone \/ WriteData \/ WriteIndex

ReaderNext(r) ==
    \/ \E b \in Block : GetLookup(r, b)
    \/ GetRead(r) \/ GetStore(r) \/ GetReturn(r)

Next ==
    \/ LoadBlockIndex \/ Crash \/ Close
    \/ MainNext
    \/ WriterNext
    \/ \E d \in DatIdx : RemoveDatFile(d)
    \/ \E r \in Reader : ReaderNext(r)

Spec == Init /\ [][Next]_vars

(***************************************************************************)
(* The main loop calls Idle over and over (client/main.go, chain.Idle), so *)
(* the main thread keeps writing whenever there is something to write; the *)
(* runtime schedules it.  Readers, crashes and new blocks get no fairness. *)
(***************************************************************************)
FairSpec == Spec /\ WF_vars(Idle) /\ WF_vars(WriterNext)

-----------------------------------------------------------------------------
(* Properties *)

\* A block that is not in blockchain.new yet can always be served from the
\* cache and is still going to be written: BlockGetInternal's error "Block not
\* written yet and not in the cache" never happens, whatever addToCache evicts.
UnwrittenIsCached ==
    mode = "up" => \A b \in Block : Unwritten(b) =>
        /\ cache[b] = b
        /\ \/ \E i \in DOMAIN blocksToWrite : blocksToWrite[i] = b
           \/ writer.block = b

\* A block read by BlockGetInternal is the block asked for, from the cache or
\* from any data file, before and after restarts, roll-overs and evictions.
ReadReturnsTheBlock ==
    \A r \in Reader : reader[r].data \in {reader[r].block, NoData}

\* oneBl.ipos is "where at the record is stored in blockchain.idx (used to set
\* flags)": the slot it names holds the record of that very block, so that
\* setBlockFlag never flags another one.  A restart that skips an invalid record
\* (LoadedIpos) breaks it.
IposNamesItsRecord ==
    \A b \in Block :
        Known(b) /\ ~Unwritten(b) /\ ~(writer.pc = "index" /\ writer.block = b) =>
            /\ blockIndex[b].ipos + 1 \in DOMAIN idxFile
            /\ idxFile[blockIndex[b].ipos + 1].block = b

\* Data files the DataFilesKeep option lets go: not one of the Keep newest.
Purgeable(d) ==
    Keep # 0 /\ ~Backup /\ \E i \in DOMAIN idxFile : idxFile[i].dat >= d + Keep

\* b has a valid record in blockchain.new, and its data is where the record
\* says, unless the data file was due for removal.
Stored(b) ==
    \E i \in ValidSlots :
        /\ idxFile[i].block = b
        /\ LET d == idxFile[i].dat
           IN  \/ Purgeable(d)
               \/ /\ d \in datDir \cup arcDir
                  /\ idxFile[i].fpos + 1 \in DOMAIN datFile[d]
                  /\ datFile[d][idxFile[i].fpos + 1] = b

\* When writeAll has ended, every block of the index is stored, and its
\* trusted flag with it: a crash from here on loses nothing.
FlushedIsDurable ==
    MainFree /\ blocksToWrite = <<>> =>
        \A b \in Block \ Bad : Known(b) =>
            /\ Stored(b)
            /\ blockIndex[b].trusted =
                  \E i \in ValidSlots : idxFile[i].block = b /\ idxFile[i].trusted

\* No step unstores a good block or takes its trusted flag off the disk: not
\* the writes that follow a crash in the middle of writeOne, not a roll-over,
\* not the flagging of another block.
StoredIsKept ==
    [][\A b \in Block \ Bad :
          /\ Stored(b) => Stored(b)'
          /\ (\E i \in ValidSlots : idxFile[i].block = b /\ idxFile[i].trusted) =>
             (\E i \in ValidSlots : idxFile[i].block = b /\ idxFile[i].trusted)']_vars

(***************************************************************************)
(* The store the chain sees.  A block is on disk once its index record is  *)
(* written; while the process is down, what a load would find.             *)
(***************************************************************************)
StoredAs(b) ==
    LET slots == {i \in ValidSlots : idxFile[i].block = b}
        rec   == blockIndex[b]
    IN  IF mode = "down"
        THEN [st |-> IF slots = {} THEN "none" ELSE "disk", invalid |-> FALSE,
              trusted |-> \E i \in slots : idxFile[i].trusted]
        ELSE [st |-> IF rec = NoRec THEN "none"
                     ELSE IF rec.ipos = -1 \/ (writer.pc = "index" /\ writer.block = b)
                     THEN "queued" ELSE "disk",
              trusted |-> rec # NoRec /\ rec.trusted,
              invalid |-> \E i \in DOMAIN idxFile : idxFile[i].block = b /\ idxFile[i].invalid]

BS == INSTANCE BlockStore WITH
        running <- mode = "up", store <- [b \in Block |-> StoredAs(b)]

\* Every step of the files, the queue, the cache and the threads is a step of
\* the store the chain relies on: blocks appear, get written, trusted and
\* invalidated exactly once each, and a restart brings back what was written.
ImplementsBlockStore == BS!StoreSpec

\* Every block that is added gets written, unless it is dropped as invalid or
\* the process ends first.
EveryBlockIsWritten ==
    \A b \in Block : Unwritten(b) ~> ~Unwritten(b)

=============================================================================
