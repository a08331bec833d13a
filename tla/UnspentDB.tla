----------------------------- MODULE UnspentDB -----------------------------
(***************************************************************************)
(* The database of unspent outputs of lib/utxo/unspent_db.go, which lives  *)
(* in memory and is saved to a file in the background.                     *)
(*                                                                         *)
(* Three kinds of goroutines run.  The main thread commits and undoes      *)
(* blocks; it must first abort a save that is in progress.  save() walks   *)
(* the map and sends it in chunks down data_channel.  A third goroutine,   *)
(* one per save, writes the chunks to <last block>.db.tmp and renames that *)
(* file to UTXO.db; the first two never wait for it, only Close does.      *)
(*                                                                         *)
(* The unspent outputs are abstracted to two sets of blocks: made, the     *)
(* blocks whose outputs were added, and spent, the blocks whose inputs     *)
(* were taken out.  Undoing block b removes the outputs of b and puts back *)
(* the inputs recorded in the undo file - of b, if it is b's file.         *)
(***************************************************************************)
EXTENDS Integers, Sequences, FiniteSets

CONSTANTS
    Block,          \* the blocks of the tree, genesis included
    Genesis,
    Parent,         \* Block \ {Genesis} -> Block
    Height,         \* Block -> Nat
    UnwindBufLen,   \* how many undo files are kept
    SkipSave,       \* UTXO_SKIP_SAVE_BLOCKS
    Chunks,         \* the number of chunks one save consists of
    ChanCap,        \* save_buffer_cnt, the capacity of data_channel
    DiskKeepsUp,    \* TRUE: no save starts while a file is being written
    Reorgs,         \* TRUE: blocks get undone
    CreateMayFail,  \* TRUE: os.Create of the .db.tmp file may fail
    MaxSaves,       \* bound: number of saves
    MayCrash,       \* TRUE: the process may be killed
    MaxEnds,        \* bound: number of times the process ends
    None

SaveId == 1..MaxSaves

\* A chunk names the save it comes from: two saves walk the map in different
\* orders, so their chunks do not fit together even when the maps are equal.
Chunk == SaveId \X (1..Chunks)

\* The map and LastBlockHash.
UtxoMap == [last : Block, made : SUBSET Block, spent : SUBSET Block]

ASSUME UnspentDBAssumption ==
    /\ Genesis \in Block
    /\ Parent \in [Block \ {Genesis} -> Block]
    /\ Height \in [Block -> Nat] /\ Height[Genesis] = 0
    /\ \A b \in Block \ {Genesis} : Height[b] = Height[Parent[b]] + 1
    /\ UnwindBufLen \in Nat \ {0} /\ SkipSave \in Nat
    /\ Chunks \in Nat \ {0} /\ ChanCap \in Nat \ {0}
    /\ DiskKeepsUp \in BOOLEAN /\ Reorgs \in BOOLEAN /\ CreateMayFail \in BOOLEAN
    /\ MaxSaves \in Nat /\ MaxEnds \in Nat /\ MayCrash \in BOOLEAN
    /\ None \notin Block \cup Nat \cup BOOLEAN \cup Chunk \cup UtxoMap

VARIABLES
    mode,       \* "up", "down", or "panic" after panic()
    mem,        \* the map and LastBlockHash: [last, made, spent]
    DirtyDB,
    CurrentHeightOnDisk,
    main,       \* the main thread: [pc, arg, todo]
    WritingInProgress,
    abortwritingnow,    \* number of tokens in the channel (capacity 1)
    saver,      \* the save() goroutine: [pc, id, chunk, abort]
    chan,       \* chan[s]: data_channel of save s
    exit,       \* exit[s]: exit_channel of save s, None when empty
    writer,     \* writer[s]: the file goroutine of save s
    snap,       \* snap[s]: what save s is saving (the map, when it started)
    inode,      \* inode[s]: contents of the file that save s created
    tmpFile,    \* directory entries <block>.db.tmp: a number of an inode
    dbFile, oldFile,    \* directory entries UTXO.db and UTXO.old
    undoFile,   \* undoFile[h]: the block whose undo data is in undo/<h>
    ends,       \* how often the process has ended
    peak        \* history: the greatest height a block was committed at

mainVars == <<mem, DirtyDB, CurrentHeightOnDisk, main>>
saveVars == <<WritingInProgress, abortwritingnow, saver>>
fileVars == <<chan, exit, writer, snap>>
diskVars == <<inode, tmpFile, dbFile, oldFile>>
vars == <<mode, mainVars, saveVars, fileVars, diskVars, undoFile, ends, peak>>

-----------------------------------------------------------------------------


Heights == {Height[b] : b \in Block}

Inode == SaveId \cup {None}

MainState ==
    [pc : {"free", "abort", "commit", "undo", "close"},
     arg : Block \cup {None}, todo : SUBSET {"wait", "undofile", "apply"}]

SaverState ==
    [pc : {"none", "rename", "send", "last", "finito", "done", "clr"},
     id : Inode, chunk : 1..Chunks, abort : BOOLEAN]

WriterState ==
    [pc : {"none", "create", "loop", "write", "exit", "done", "failed"},
     node : Inode, pos : Nat, held : Chunk \cup {None}, last : BOOLEAN, abort : BOOLEAN]

TypeOK ==
    /\ mode \in {"up", "down", "panic"}
    /\ mem \in UtxoMap
    /\ DirtyDB \in BOOLEAN
    /\ CurrentHeightOnDisk \in Heights
    /\ main \in MainState
    /\ WritingInProgress \in BOOLEAN
    /\ abortwritingnow \in 0..1
    /\ saver \in SaverState
    /\ chan \in [SaveId -> Seq(Chunk)]
    /\ exit \in [SaveId -> BOOLEAN \cup {None}]
    /\ writer \in [SaveId -> WriterState]
    /\ snap \in [SaveId -> UtxoMap \cup {None}]
    /\ inode \in [SaveId -> Seq(Chunk \cup {None})]
    /\ tmpFile \in [Block -> Inode]
    /\ dbFile \in Inode /\ oldFile \in Inode
    /\ undoFile \in [Heights -> Block \cup {None}]
    /\ ends \in 0..MaxEnds /\ peak \in Heights

-----------------------------------------------------------------------------
(* The map and the files *)

\* The blocks from Genesis (exclusive) to b, what is applied when b is last:
\* the least set with b in it that is closed under Parent.
ChainOf ==
    [b \in Block |->
        {a \in Block \ {Genesis} :
            \A S \in SUBSET Block :
                b \in S /\ (\A x \in S \ {Genesis} : Parent[x] \in S) => a \in S}]

\* The state of the map that belongs to last block b.
MapAt(b) == [last |-> b, made |-> ChainOf[b], spent |-> ChainOf[b]]

\* The file holds all the chunks of one save, in order.
IsWhole(n) == /\ Len(inode[n]) = Chunks
              /\ \E s \in SaveId : \A k \in 1..Chunks : inode[n][k] = <<s, k>>

SavedIn(n) == snap[inode[n][1][1]]

\* What NewUnspentDb makes of a file: a missing or short one is an error, a
\* file with chunks of two saves (or a hole) is an error or a wrong map.
ReadFrom(n) ==
    IF n = None \/ Len(inode[n]) < Chunks THEN {None}
    ELSE IF IsWhole(n) THEN {SavedIn(n)}
    ELSE {None, [last |-> Genesis, made |-> {}, spent |-> Block]}

\* UTXO.db, else UTXO.old, else nothing: the map before the first block.
WouldLoad ==
    LET db  == ReadFrom(dbFile)
        old == ReadFrom(oldFile)
    IN  (db \ {None}) \cup
        (IF None \in db THEN old \ {None} ELSE {}) \cup
        (IF None \in db /\ None \in old THEN {MapAt(Genesis)} ELSE {})

-----------------------------------------------------------------------------
(* Start and stop *)

FreeMain   == [pc |-> "free", arg |-> None, todo |-> {}]
NoSaver    == [pc |-> "none", id |-> None, chunk |-> 1, abort |-> FALSE]
NoWriter   == [pc |-> "none", node |-> None, pos |-> 0, held |-> None,
               last |-> FALSE, abort |-> FALSE]

Init ==
    /\ mode = "down"
    /\ mem = MapAt(Genesis) /\ DirtyDB = FALSE /\ CurrentHeightOnDisk = 0
    /\ main = FreeMain
    /\ WritingInProgress = FALSE /\ abortwritingnow = 0 /\ saver = NoSaver
    /\ chan = [s \in SaveId |-> <<>>] /\ exit = [s \in SaveId |-> None]
    /\ writer = [s \in SaveId |-> NoWriter] /\ snap = [s \in SaveId |-> None]
    /\ inode = [s \in SaveId |-> <<>>]
    /\ tmpFile = [b \in Block |-> None] /\ dbFile = None /\ oldFile = None
    /\ undoFile = [h \in Heights |-> None]
    /\ ends = 0 /\ peak = 0

\* NewUnspentDb: unfinished files are removed, then a snapshot is loaded.
NewUnspentDb ==
    /\ mode = "down"
    /\ mode' = "up"
    /\ tmpFile' = [b \in Block |-> None]
    /\ mem' \in WouldLoad
    /\ CurrentHeightOnDisk' = Height[mem'.last]
    /\ UNCHANGED <<DirtyDB, main, saveVars, fileVars, inode, dbFile, oldFile, undoFile, ends, peak>>

\* What the process loses when it ends.
Stop ==
    /\ mem' = MapAt(Genesis) /\ DirtyDB' = FALSE /\ CurrentHeightOnDisk' = 0
    /\ main' = FreeMain
    /\ WritingInProgress' = FALSE /\ abortwritingnow' = 0 /\ saver' = NoSaver
    /\ chan' = [s \in SaveId |-> <<>>] /\ exit' = [s \in SaveId |-> None]
    /\ writer' = [s \in SaveId |-> NoWriter]
    /\ ends' = ends + 1
    /\ UNCHANGED <<snap, diskVars, undoFile, peak>>

Crash ==
    /\ mode = "up" /\ MayCrash /\ ends < MaxEnds
    /\ mode' = "down"
    /\ Stop

-----------------------------------------------------------------------------
(* The main thread *)

MainFree == mode = "up" /\ main.pc = "free"

\* Every save() is numbered.
NextSave == Cardinality({s \in SaveId : snap[s] # None}) + 1

\* lastFileClosed: Done() is called for all files.
FilesClosed == \A s \in SaveId : writer[s].pc \in {"none", "done"}

\* No file is being written; one that could not be created is not.
NoFileOpen == \A s \in SaveId : writer[s].pc \in {"none", "done", "failed"}

\* Save, when no save is in progress.
StartSave ==
    /\ ~WritingInProgress
    /\ NextSave \in SaveId
    /\ DiskKeepsUp => NoFileOpen
    /\ WritingInProgress' = TRUE
    /\ saver' = [pc |-> "rename", id |-> NextSave, chunk |-> 1, abort |-> FALSE]
    /\ snap' = [snap EXCEPT ![NextSave] = mem]
    /\ UNCHANGED <<abortwritingnow, chan, exit, writer>>

\* LastBlockHeight - CurrentHeightOnDisk > UTXO_SKIP_SAVE_BLOCKS, where the
\* difference is of uint32: a negative one wraps to more than any limit.
SaveIsDue ==
    LET diff == Height[mem.last] - CurrentHeightOnDisk
    IN  diff < 0 \/ diff > SkipSave

Idle ==
    /\ MainFree
    /\ DirtyDB /\ SaveIsDue
    /\ StartSave
    /\ UNCHANGED <<mode, mainVars, diskVars, undoFile, ends, peak>>

\* The saveutxo command.
SaveCommand ==
    /\ MainFree
    /\ StartSave
    /\ UNCHANGED <<mode, mainVars, diskVars, undoFile, ends, peak>>

\* Mutant of BeginAborting: nobody waits for save() to end.
BeginWithoutWait(op, b, work) ==
    /\ MainFree
    /\ WritingInProgress => abortwritingnow = 0
    /\ abortwritingnow' = IF WritingInProgress THEN 1 ELSE abortwritingnow
    /\ main' = [pc |-> op, arg |-> b, todo |-> work]
    /\ UNCHANGED <<mode, mem, DirtyDB, CurrentHeightOnDisk, WritingInProgress, saver,
                   fileVars, diskVars, undoFile, ends, peak>>

\* abortWriting, up to the wait: the main thread enters operation op.
BeginAborting(op, b, work) ==
    /\ MainFree
    /\ WritingInProgress => abortwritingnow = 0
    /\ abortwritingnow' = IF WritingInProgress THEN 1 ELSE abortwritingnow
    /\ main' = [pc |-> op, arg |-> b,
                todo |-> IF WritingInProgress THEN work \cup {"wait"} ELSE work]
    /\ UNCHANGED <<mode, mem, DirtyDB, CurrentHeightOnDisk, WritingInProgress, saver,
                   fileVars, diskVars, undoFile, ends, peak>>

CommitBlockTxs(b) ==
    b # Genesis /\ Parent[b] = mem.last /\ BeginAborting("commit", b, {"undofile", "apply"})

UndoBlockTxs ==
    Reorgs /\ mem.last # Genesis /\ BeginAborting("undo", mem.last, {"apply"})

\* AbortWriting as called before a block is tried, and by PurgeUnspendable.
AbortWriting == WritingInProgress /\ BeginAborting("abort", None, {})

\* Mutant of AbortWait: the token is left in the channel.
AbortWaitOnly ==
    /\ mode = "up" /\ "wait" \in main.todo
    /\ saver.pc = "none"
    /\ main' = IF main.pc = "abort" THEN FreeMain ELSE [main EXCEPT !.todo = @ \ {"wait"}]
    /\ UNCHANGED <<mode, mem, DirtyDB, CurrentHeightOnDisk, saveVars, fileVars, diskVars,
                   undoFile, ends, peak>>

\* writingDone.Wait() is over: an abort token nobody took is taken back.
AbortWait ==
    /\ mode = "up" /\ "wait" \in main.todo
    /\ saver.pc = "none"
    /\ abortwritingnow' = 0
    /\ main' = IF main.pc = "abort" THEN FreeMain ELSE [main EXCEPT !.todo = @ \ {"wait"}]
    /\ UNCHANGED <<mode, mem, DirtyDB, CurrentHeightOnDisk, WritingInProgress, saver,
                   fileVars, diskVars, undoFile, ends, peak>>

Finish(work) ==
    main' = IF main.todo = {work} THEN FreeMain ELSE [main EXCEPT !.todo = @ \ {work}]

\* CommitBlockTxs, the goroutine that writes the undo file.
CommitUndoFile ==
    /\ mode = "up" /\ main.pc = "commit" /\ "wait" \notin main.todo
    /\ "undofile" \in main.todo
    /\ undoFile' = [undoFile EXCEPT ![Height[main.arg]] = main.arg]
    /\ Finish("undofile")
    /\ UNCHANGED <<mode, mem, DirtyDB, CurrentHeightOnDisk, saveVars, fileVars, diskVars, ends, peak>>

\* Mutant of Outdated: one undo file too few is kept.
OutdatedTooEarly(h) == IF h >= UnwindBufLen THEN {h - UnwindBufLen + 1} ELSE {}

\* The height of the undo file that is dropped when block h is committed.
Outdated(h) == IF h > UnwindBufLen THEN {h - UnwindBufLen} ELSE {}

\* CommitBlockTxs, the changes of the map; an old undo file is dropped.
CommitApply ==
    LET b == main.arg
    IN  /\ mode = "up" /\ main.pc = "commit" /\ "wait" \notin main.todo
        /\ "apply" \in main.todo
        /\ mem' = [last |-> b, made |-> mem.made \cup {b}, spent |-> mem.spent \cup {b}]
        /\ DirtyDB' = TRUE
        /\ undoFile' = [h \in Heights |-> IF h \in Outdated(Height[b]) THEN None
                                          ELSE undoFile[h]]
        /\ Finish("apply")
        /\ peak' = IF Height[b] > peak THEN Height[b] ELSE peak
        /\ UNCHANGED <<mode, CurrentHeightOnDisk, saveVars, fileVars, diskVars, ends>>

\* Mutant of UndoApply: the inputs of the block are not put back.
UndoOutputsOnly ==
    LET b == main.arg
        h == Height[b]
    IN  /\ mode = "up" /\ main.pc = "undo" /\ main.todo = {"apply"}
        /\ undoFile[h] # None
        /\ mem' = [mem EXCEPT !.last = Parent[b], !.made = mem.made \ {b}]
        /\ DirtyDB' = TRUE
        /\ undoFile' = [undoFile EXCEPT ![h] = None]
        /\ Finish("apply")
        /\ UNCHANGED <<mode, CurrentHeightOnDisk, saveVars, fileVars, diskVars, ends, peak>>

\* UndoBlockTxs after the wait.  The undo file is found by its height only
\* and is removed when it has been used.
UndoApply ==
    LET b == main.arg
        h == Height[b]
    IN  /\ mode = "up" /\ main.pc = "undo" /\ main.todo = {"apply"}
        /\ undoFile[h] # None
        /\ mem' = [last |-> Parent[b], made |-> mem.made \ {b},
                   spent |-> mem.spent \ {undoFile[h]}]
        /\ DirtyDB' = TRUE
        /\ undoFile' = [undoFile EXCEPT ![h] = None]
        /\ Finish("apply")
        /\ UNCHANGED <<mode, CurrentHeightOnDisk, saveVars, fileVars, diskVars, ends, peak>>

\* ... and its panic when the file cannot be read.
UndoPanic ==
    /\ mode = "up" /\ main.pc = "undo" /\ main.todo = {"apply"}
    /\ undoFile[Height[main.arg]] = None
    /\ mode' = "panic"
    /\ UNCHANGED <<mainVars, saveVars, fileVars, diskVars, undoFile, ends, peak>>

\* Close: save if anything changed, then wait for save() and for the files.
Close ==
    /\ MainFree /\ ends < MaxEnds
    /\ main' = [pc |-> "close", arg |-> None, todo |-> {}]
    /\ IF DirtyDB /\ ~WritingInProgress
       THEN StartSave
       ELSE UNCHANGED <<saveVars, fileVars>>
    /\ UNCHANGED <<mode, mem, DirtyDB, CurrentHeightOnDisk, diskVars, undoFile, ends, peak>>

\* Mutant of ReadyToClose: Close does not wait for the files.
ReadyWhenSaved == main.pc = "close" /\ saver.pc = "none"

\* writingDone.Wait() and lastFileClosed.Wait() are over.
ReadyToClose == main.pc = "close" /\ saver.pc = "none" /\ FilesClosed

CloseDone ==
    /\ mode = "up" /\ ReadyToClose /\ ends < MaxEnds
    /\ mode' = "down"
    /\ Stop

-----------------------------------------------------------------------------
(* save(): the goroutine that walks the map *)

SaverAt(pc) == mode = "up" /\ saver.pc = pc

\* Mutant of SaverRename: UTXO.db is removed instead.
SaverRemoves ==
    /\ SaverAt("rename")
    /\ dbFile' = None
    /\ writer' = [writer EXCEPT ![saver.id] = [NoWriter EXCEPT !.pc = "create"]]
    /\ saver' = [saver EXCEPT !.pc = "send"]
    /\ UNCHANGED <<mode, mainVars, WritingInProgress, abortwritingnow, chan, exit, snap,
                   inode, tmpFile, oldFile, undoFile, ends, peak>>

\* UTXO.db becomes UTXO.old, and the writing goroutine is started.
SaverRename ==
    /\ SaverAt("rename")
    /\ oldFile' = IF dbFile # None THEN dbFile ELSE oldFile
    /\ dbFile' = None
    /\ writer' = [writer EXCEPT ![saver.id] = [NoWriter EXCEPT !.pc = "create"]]
    /\ saver' = [saver EXCEPT !.pc = "send"]
    /\ UNCHANGED <<mode, mainVars, WritingInProgress, abortwritingnow, chan, exit, snap,
                   inode, tmpFile, undoFile, ends, peak>>

HasRoom == Len(chan[saver.id]) < ChanCap

SendChunk == chan' = [chan EXCEPT ![saver.id] = Append(@, <<saver.id, saver.chunk>>)]

\* Mutant of SaverSend: the loop runs once too often.
SaverSendOneMore ==
    /\ SaverAt("send") /\ saver.chunk <= Chunks /\ HasRoom
    /\ SendChunk
    /\ saver' = [saver EXCEPT !.chunk = @ + 1]
    /\ UNCHANGED <<mode, mainVars, WritingInProgress, abortwritingnow, exit, writer, snap,
                   diskVars, undoFile, ends, peak>>

SaverSend ==
    /\ SaverAt("send") /\ saver.chunk < Chunks /\ HasRoom
    /\ SendChunk
    /\ saver' = [saver EXCEPT !.chunk = @ + 1]
    /\ UNCHANGED <<mode, mainVars, WritingInProgress, abortwritingnow, exit, writer, snap,
                   diskVars, undoFile, ends, peak>>

\* The loops look at abortwritingnow only while they are ahead of time or the
\* channel is full, so an abort may be seen late or not at all.
SaverAbort ==
    /\ SaverAt("send") /\ abortwritingnow = 1
    /\ abortwritingnow' = 0
    /\ saver' = [saver EXCEPT !.pc = "finito", !.abort = TRUE]
    /\ UNCHANGED <<mode, mainVars, WritingInProgress, fileVars, diskVars, undoFile, ends, peak>>

\* The loop looks for room before it takes a record, so that the records after
\* the last send, and the send behind the loops, find some.
SaverLoopEnd ==
    /\ SaverAt("send") /\ saver.chunk = Chunks /\ HasRoom
    /\ saver' = [saver EXCEPT !.pc = "last"]
    /\ UNCHANGED <<mode, mainVars, WritingInProgress, abortwritingnow, fileVars, diskVars,
                   undoFile, ends, peak>>

\* The rest of the buffer, after the loops: no abort here.
SaverLast ==
    /\ SaverAt("last")
    /\ SendChunk
    /\ saver' = [saver EXCEPT !.pc = "finito"]
    /\ UNCHANGED <<mode, mainVars, WritingInProgress, abortwritingnow, exit, writer, snap,
                   diskVars, undoFile, ends, peak>>

SaverFinito ==
    /\ SaverAt("finito")
    /\ exit' = [exit EXCEPT ![saver.id] = saver.abort]
    /\ saver' = [saver EXCEPT !.pc = IF saver.abort THEN "clr" ELSE "done"]
    /\ UNCHANGED <<mode, mainVars, WritingInProgress, abortwritingnow, chan, writer, snap,
                   diskVars, undoFile, ends, peak>>

SaverDone ==
    /\ SaverAt("done")
    /\ DirtyDB' = FALSE
    /\ CurrentHeightOnDisk' = Height[mem.last]
    /\ saver' = [saver EXCEPT !.pc = "clr"]
    /\ UNCHANGED <<mode, mem, main, WritingInProgress, abortwritingnow, fileVars, diskVars,
                   undoFile, ends, peak>>

\* Mutant of SaverExit: an aborted save() does not call writingDone.Done().
SaverExitUnlessAborted ==
    /\ SaverAt("clr") /\ ~saver.abort
    /\ WritingInProgress' = FALSE
    /\ saver' = NoSaver
    /\ UNCHANGED <<mode, mainVars, abortwritingnow, fileVars, diskVars, undoFile, ends, peak>>

SaverExit ==
    /\ SaverAt("clr")
    /\ WritingInProgress' = FALSE
    /\ saver' = NoSaver
    /\ UNCHANGED <<mode, mainVars, abortwritingnow, fileVars, diskVars, undoFile, ends, peak>>

-----------------------------------------------------------------------------
(* The goroutine that writes the file of save s *)

WriterAt(s, pc) == mode = "up" /\ writer[s].pc = pc

TmpName(s) == snap[s].last

\* os.Create: an existing file of that name is truncated and shared.
WriterCreate(s) ==
    LET n == IF tmpFile[TmpName(s)] # None THEN tmpFile[TmpName(s)] ELSE s
    IN  /\ WriterAt(s, "create")
        /\ tmpFile' = [tmpFile EXCEPT ![TmpName(s)] = n]
        /\ inode' = [inode EXCEPT ![n] = <<>>]
        /\ writer' = [writer EXCEPT ![s].pc = "loop", ![s].node = n]
        /\ UNCHANGED <<mode, mainVars, saveVars, chan, exit, snap, dbFile, oldFile,
                       undoFile, ends, peak>>

\* The early return, which does not call lastFileClosed.Done().
WriterCreateFails(s) ==
    /\ WriterAt(s, "create") /\ CreateMayFail
    /\ writer' = [writer EXCEPT ![s].pc = "failed"]
    /\ UNCHANGED <<mode, mainVars, saveVars, chan, exit, snap, diskVars, undoFile, ends, peak>>

\* case dat = <-data_channel, and the look at exit_channel that follows.
WriterTake(s) ==
    /\ WriterAt(s, "loop") /\ chan[s] # <<>>
    /\ chan' = [chan EXCEPT ![s] = Tail(@)]
    /\ exit' = [exit EXCEPT ![s] = None]
    /\ writer' = [writer EXCEPT ![s] =
            IF exit[s] = TRUE THEN [@ EXCEPT !.pc = "exit", !.abort = TRUE]
            ELSE [@ EXCEPT !.pc = "write", !.held = Head(chan[s]),
                           !.last = writer[s].last \/ exit[s] = FALSE]]
    /\ UNCHANGED <<mode, mainVars, saveVars, snap, diskVars, undoFile, ends, peak>>

\* case abort = <-exit_channel.
WriterExitMsg(s) ==
    /\ WriterAt(s, "loop") /\ exit[s] # None
    /\ exit' = [exit EXCEPT ![s] = None]
    /\ writer' = [writer EXCEPT ![s] =
            IF exit[s] = TRUE THEN [@ EXCEPT !.pc = "exit", !.abort = TRUE]
            ELSE [@ EXCEPT !.last = TRUE]]
    /\ UNCHANGED <<mode, mainVars, saveVars, chan, snap, diskVars, undoFile, ends, peak>>

\* of.Write: each writer has its own position in the file it opened.
WriterWrite(s) ==
    LET w == writer[s]
    IN  /\ WriterAt(s, "write")
        /\ inode' = [inode EXCEPT ![w.node] =
                [i \in 1..(IF w.pos + 1 > Len(@) THEN w.pos + 1 ELSE Len(@)) |->
                    IF i = w.pos + 1 THEN w.held
                    ELSE IF i <= Len(inode[w.node]) THEN inode[w.node][i] ELSE None]]
        /\ writer' = [writer EXCEPT ![s].pc = "loop", ![s].held = None, ![s].pos = @ + 1]
        /\ UNCHANGED <<mode, mainVars, saveVars, chan, exit, snap, tmpFile, dbFile, oldFile,
                       undoFile, ends, peak>>

\* The condition of the for loop fails.
WriterLoopEnd(s) ==
    /\ WriterAt(s, "loop") /\ writer[s].last /\ chan[s] = <<>>
    /\ writer' = [writer EXCEPT ![s].pc = "exit"]
    /\ UNCHANGED <<mode, mainVars, saveVars, chan, exit, snap, diskVars, undoFile, ends, peak>>

\* Mutant of WriterRemove: lastFileClosed.Done() is not called.
WriterRemoveOnly(s) ==
    /\ WriterAt(s, "exit") /\ writer[s].abort
    /\ tmpFile' = [tmpFile EXCEPT ![TmpName(s)] = None]
    /\ writer' = [writer EXCEPT ![s] = [NoWriter EXCEPT !.pc = "failed"]]
    /\ UNCHANGED <<mode, mainVars, saveVars, chan, exit, snap, inode, dbFile, oldFile,
                   undoFile, ends, peak>>

\* Aborted: the file name is removed, whichever file it names by now.
WriterRemove(s) ==
    /\ WriterAt(s, "exit") /\ writer[s].abort
    /\ tmpFile' = [tmpFile EXCEPT ![TmpName(s)] = None]
    /\ writer' = [writer EXCEPT ![s] = [NoWriter EXCEPT !.pc = "done"]]
    /\ UNCHANGED <<mode, mainVars, saveVars, chan, exit, snap, inode, dbFile, oldFile,
                   undoFile, ends, peak>>

\* Mutant of WriterRename: an aborted file is renamed, too.
WriterRenameAlways(s) ==
    /\ WriterAt(s, "exit")
    /\ dbFile' = IF tmpFile[TmpName(s)] # None THEN tmpFile[TmpName(s)] ELSE dbFile
    /\ tmpFile' = [tmpFile EXCEPT ![TmpName(s)] = None]
    /\ writer' = [writer EXCEPT ![s] = [NoWriter EXCEPT !.pc = "done"]]
    /\ UNCHANGED <<mode, mainVars, saveVars, chan, exit, snap, inode, oldFile, undoFile, ends, peak>>

\* Complete: the file name, if it is still there, becomes UTXO.db.
WriterRename(s) ==
    /\ WriterAt(s, "exit") /\ ~writer[s].abort
    /\ dbFile' = IF tmpFile[TmpName(s)] # None THEN tmpFile[TmpName(s)] ELSE dbFile
    /\ tmpFile' = [tmpFile EXCEPT ![TmpName(s)] = None]
    /\ writer' = [writer EXCEPT ![s] = [NoWriter EXCEPT !.pc = "done"]]
    /\ UNCHANGED <<mode, mainVars, saveVars, chan, exit, snap, inode, oldFile, undoFile, ends, peak>>

-----------------------------------------------------------------------------

\* The rest of an operation the main thread has begun.
MainWork == AbortWait \/ CommitUndoFile \/ CommitApply \/ UndoApply \/ UndoPanic \/ CloseDone

MainBegin ==
    \/ Idle \/ SaveCommand \/ AbortWriting \/ UndoBlockTxs \/ Close
    \/ \E b \in Block : CommitBlockTxs(b)

SaverNext ==
    \/ SaverRename \/ SaverSend \/ SaverAbort \/ SaverLoopEnd \/ SaverLast
    \/ SaverFinito \/ SaverDone \/ SaverExit

WriterNext(s) ==
    \/ WriterCreate(s) \/ WriterCreateFails(s) \/ WriterTake(s) \/ WriterExitMsg(s)
    \/ WriterWrite(s) \/ WriterLoopEnd(s) \/ WriterRemove(s) \/ WriterRename(s)

Next ==
    \/ NewUnspentDb \/ Crash
    \/ MainBegin \/ MainWork
    \/ SaverNext
    \/ \E s \in SaveId : WriterNext(s)

Spec == Init /\ [][Next]_vars

(***************************************************************************)
(* Goroutines that can run do run, and the main thread finishes what it    *)
(* has begun.  Nothing makes it begin anything.                            *)
(***************************************************************************)
FairSpec ==
    /\ Spec
    /\ WF_vars(MainWork)
    /\ WF_vars(SaverNext)
    /\ \A s \in SaveId : WF_vars(WriterNext(s))

-----------------------------------------------------------------------------
(* Properties *)

\* Between two operations the map is exactly the one that belongs to
\* LastBlockHash: a sequence of commits and undos never drifts.
UtxoIsExact == MainFree => mem = MapAt(mem.last)

\* UTXO.db and UTXO.old are never seen half written or mixed: whatever save()
\* and its writers are doing, the directory entries name whole snapshots of
\* maps that were exact.
SnapshotsAreWhole ==
    \A n \in {dbFile, oldFile} \ {None} :
        IsWhole(n) /\ SavedIn(n) = MapAt(SavedIn(n).last)

\* Once a snapshot can be loaded, one always can: no order of rename, abort,
\* remove and crash leaves the disk without a whole one.
Loadable == \E n \in {dbFile, oldFile} \ {None} : IsWhole(n)
SnapshotSurvives == [][Loadable => Loadable']_vars

\* The abort token is taken back: the next abortWriting never blocks on a
\* full channel, and no later save is aborted by it.
NoStaleAbort == mode = "up" /\ abortwritingnow = 1 => "wait" \in main.todo

\* The map does not change while save() walks it.
SavesWhatIsThere ==
    mode = "up" /\ saver.pc \in {"rename", "send", "last", "finito", "done"} =>
        mem = snap[saver.id]

\* "Close flushes the data and closes all the files": when it returns, a
\* restart loads the very map that is in memory.
CloseFlushes == mode = "up" /\ ReadyToClose => WouldLoad = {mem}

\* CommitBlockTxs drops one old undo file per block and UndoBlockTxs finds its
\* file by the height alone: while a reorganisation goes back less than
\* UnwindBufLen blocks from the highest there ever was, the file is there and
\* is that of the block that is undone.
UndoFindsItsFile ==
    mode = "up" /\ main.pc = "undo" /\ Height[main.arg] + UnwindBufLen > peak =>
        undoFile[Height[main.arg]] = main.arg

\* UndoBlockTxs asserts that it can read its undo file: panic(er.Error())
\* (unspent_db.go:440).
NoPanic == mode # "panic"

\* abortWriting always returns, so committing or undoing a block ends: done, or
\* in the panic of an undo that goes back further than the undo files.
AbortReturns ==
    main.pc \in {"commit", "undo", "abort"} ~>
        main.pc \notin {"commit", "undo", "abort"} \/ mode = "panic"

\* Close returns: save() ends and every file it started gets closed.
CloseReturns == main.pc = "close" ~> main.pc # "close"

=============================================================================
