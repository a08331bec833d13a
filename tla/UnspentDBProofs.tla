-------------------------- MODULE UnspentDBProofs --------------------------
(***************************************************************************)
(* Proofs about UnspentDB, for every tree of blocks, every number of saves *)
(* and chunks, and with crashes, failing files and overlapping writers.    *)
(***************************************************************************)
EXTENDS UnspentDB, FiniteSetTheorems, TLAPS

\* A chunk of a save whose map is known.
SavedChunk == {c \in Chunk : snap[c[1]] \in UtxoMap}

\* Whatever travels down a channel, is held by a writer or stands in a file
\* comes from a save that was started.
ChunksAreSaved ==
    /\ chan \in [SaveId -> Seq(SavedChunk)]
    /\ inode \in [SaveId -> Seq(SavedChunk \cup {None})]
    /\ \A s \in SaveId : writer[s].held \in SavedChunk \cup {None}

\* A goroutine that runs belongs to a save that was started, and a writer that
\* writes has a file.
RunningIsSaved ==
    /\ saver.pc # "none" => saver.id \in SaveId /\ snap[saver.id] \in UtxoMap
    /\ \A s \in SaveId : writer[s].pc # "none" => snap[s] \in UtxoMap
    /\ \A s \in SaveId : writer[s].pc \in {"loop", "write"} => writer[s].node \in SaveId

\* The main thread commits or undoes a block that has a parent.
WorksOnABlock == main.pc \in {"commit", "undo"} => main.arg \in Block \ {Genesis}

TypeInv == TypeOK /\ ChunksAreSaved /\ RunningIsSaved /\ WorksOnABlock

USE DEF Inode, MainState, SaverState, WriterState

-----------------------------------------------------------------------------
(* Facts about the operators *)

\* The map a fresh database starts with is well formed.
LEMMA GenesisMap == MapAt(Genesis) \in UtxoMap
BY UnspentDBAssumption DEF MapAt, ChainOf, UtxoMap

\* None marks the absence of a file, so it numbers no save.
LEMMA NoneIsNoSave == None \notin SaveId
BY UnspentDBAssumption DEF SaveId

\* Genesis has height 0, what CurrentHeightOnDisk starts with.
LEMMA ZeroIsAHeight == 0 \in Heights
BY UnspentDBAssumption DEF Heights

\* What NewUnspentDb may load is a map of unspent outputs.
LEMMA LoadedIsAMap ==
    ASSUME TypeInv
    PROVE  WouldLoad \subseteq UtxoMap
PROOF
<1>1. ASSUME NEW n \in Inode, NEW m \in ReadFrom(n), m # None
      PROVE  m \in UtxoMap
  <2>1. CASE n # None /\ IsWhole(n)
    <3>1. PICK s \in SaveId : \A k \in 1..Chunks : inode[n][k] = <<s, k>>
      BY <2>1 DEF IsWhole
    <3>2. inode[n][1] = <<s, 1>> /\ Len(inode[n]) = Chunks
      BY <2>1, <3>1, UnspentDBAssumption DEF IsWhole
    <3>3. inode[n] \in Seq(SavedChunk \cup {None})
      BY <2>1 DEF TypeInv, ChunksAreSaved
    <3>4. inode[n][1] \in SavedChunk \cup {None}
      BY <3>2, <3>3, UnspentDBAssumption
    <3>5. <<s, 1>> \in Chunk
      BY UnspentDBAssumption DEF Chunk
    <3>6. <<s, 1>> \in SavedChunk
      BY <3>2, <3>4, <3>5, UnspentDBAssumption
    <3>7. SavedIn(n) \in UtxoMap
      BY <3>2, <3>6 DEF SavedIn, SavedChunk
    <3> QED
      BY <1>1, <2>1, <3>2, <3>7 DEF ReadFrom
  <2>2. CASE n = None \/ ~IsWhole(n)
    <3>1. m = [last |-> Genesis, made |-> {}, spent |-> Block]
      BY <1>1, <2>2 DEF ReadFrom
    <3> QED
      BY <3>1, UnspentDBAssumption DEF UtxoMap
  <2> QED
    BY <2>1, <2>2
<1>2. dbFile \in Inode /\ oldFile \in Inode
  BY DEF TypeInv, TypeOK
<1> QED
  BY <1>1, <1>2, GenesisMap DEF WouldLoad

-----------------------------------------------------------------------------
(* Types *)

\* The invariant holds before the process is started for the first time.
LEMMA TypeInit == Init => TypeInv
<1> SUFFICES ASSUME Init PROVE TypeInv
  OBVIOUS
<1>1. writer \in [SaveId -> WriterState]
  BY DEF Init, NoWriter
<1>2. /\ main \in MainState
      /\ saver \in SaverState
  BY UnspentDBAssumption DEF Init, FreeMain, NoSaver
<1>3. ends \in 0..MaxEnds /\ abortwritingnow \in 0..1
  BY UnspentDBAssumption DEF Init
<1>4. /\ chan \in [SaveId -> Seq(Chunk)] /\ inode \in [SaveId -> Seq(Chunk \cup {None})]
      /\ exit \in [SaveId -> BOOLEAN \cup {None}] /\ snap \in [SaveId -> UtxoMap \cup {None}]
      /\ tmpFile \in [Block -> Inode] /\ undoFile \in [Heights -> Block \cup {None}]
  BY DEF Init
<1>5. TypeOK
  BY <1>1, <1>2, <1>3, <1>4, GenesisMap, ZeroIsAHeight DEF Init, TypeOK
<1>6. ChunksAreSaved
  BY DEF Init, ChunksAreSaved, NoWriter
<1>7. RunningIsSaved
  BY DEF Init, RunningIsSaved, NoSaver, NoWriter
<1>8. WorksOnABlock
  BY DEF Init, WorksOnABlock, FreeMain
<1> QED
  BY <1>5, <1>6, <1>7, <1>8 DEF TypeInv

\* A new save keeps the chunks of the others.
LEMMA StartSaveType ==
    ASSUME TypeInv, StartSave
    PROVE  /\ WritingInProgress' \in BOOLEAN /\ abortwritingnow' \in 0..1
           /\ saver' \in SaverState
           /\ snap' \in [SaveId -> UtxoMap \cup {None}]
           /\ SavedChunk \subseteq SavedChunk'
           /\ \A s \in SaveId : snap[s] \in UtxoMap => snap'[s] \in UtxoMap
           /\ saver'.id \in SaveId /\ snap'[saver'.id] \in UtxoMap
<1>1. mem \in UtxoMap /\ snap \in [SaveId -> UtxoMap \cup {None}]
  BY DEF TypeInv, TypeOK
<1>2. /\ snap' \in [SaveId -> UtxoMap \cup {None}]
      /\ \A s \in SaveId : snap[s] \in UtxoMap => snap'[s] \in UtxoMap
      /\ snap'[NextSave] \in UtxoMap
  BY <1>1 DEF StartSave
<1>3. SavedChunk \subseteq SavedChunk'
  BY <1>2 DEF SavedChunk, Chunk
<1> QED
  BY <1>2, <1>3, UnspentDBAssumption DEF StartSave, TypeInv, TypeOK

\* Sequences of old chunks are sequences of chunks.
LEMMA ChunksStaySaved ==
    ASSUME ChunksAreSaved, TypeOK, SavedChunk \subseteq SavedChunk',
           UNCHANGED <<chan, inode, writer>>
    PROVE  ChunksAreSaved'
<1>1. /\ Seq(SavedChunk) \subseteq Seq(SavedChunk')
      /\ Seq(SavedChunk \cup {None}) \subseteq Seq(SavedChunk' \cup {None})
  OBVIOUS
<1> QED
  BY <1>1 DEF ChunksAreSaved

\* The main thread begins or ends a piece of work, and no goroutine moves.
LEMMA TypeMainOnly ==
    ASSUME TypeInv, UNCHANGED <<saver, fileVars, inode>>, TypeOK', WorksOnABlock'
    PROVE  TypeInv'
BY SMTT(30) DEF TypeInv, TypeOK, ChunksAreSaved, RunningIsSaved, SavedChunk, fileVars

\* The process ends: goroutines, channels and the map are gone, files stay.
LEMMA TypeStop ==
    ASSUME TypeInv, Stop, ends < MaxEnds, mode' = "down"
    PROVE  TypeInv'
<1>1. ends' \in 0..MaxEnds
  BY UnspentDBAssumption DEF Stop, TypeInv, TypeOK
<1>2. writer' \in [SaveId -> WriterState]
  BY DEF Stop, NoWriter
<1>3. main' \in MainState /\ saver' \in SaverState
  BY UnspentDBAssumption DEF Stop, FreeMain, NoSaver
<1>4. /\ chan' \in [SaveId -> Seq(Chunk)] /\ exit' \in [SaveId -> BOOLEAN \cup {None}]
  BY DEF Stop
<1>5. /\ inode' \in [SaveId -> Seq(Chunk \cup {None})] /\ snap' \in [SaveId -> UtxoMap \cup {None}]
      /\ tmpFile' \in [Block -> Inode] /\ undoFile' \in [Heights -> Block \cup {None}]
      /\ dbFile' \in Inode /\ oldFile' \in Inode /\ peak' \in Heights
  BY DEF Stop, TypeInv, TypeOK, diskVars
<1>6. /\ mem' \in UtxoMap /\ DirtyDB' \in BOOLEAN /\ WritingInProgress' \in BOOLEAN
      /\ CurrentHeightOnDisk' \in Heights /\ abortwritingnow' \in 0..1
  <2>1. mem' \in UtxoMap /\ CurrentHeightOnDisk' \in Heights
    BY GenesisMap, ZeroIsAHeight, Zenon DEF Stop
  <2>2. DirtyDB' \in BOOLEAN /\ WritingInProgress' \in BOOLEAN
    BY Zenon DEF Stop
  <2>3. abortwritingnow' \in 0..1
    BY DEF Stop
  <2> QED
    BY <2>1, <2>2, <2>3, Zenon
<1>7. TypeOK'
  BY <1>1, <1>2, <1>3, <1>4, <1>5, <1>6 DEF TypeOK
<1>8. ChunksAreSaved'
  BY DEF Stop, TypeInv, ChunksAreSaved, SavedChunk, NoWriter, diskVars
<1>9. RunningIsSaved' /\ WorksOnABlock'
  BY DEF Stop, RunningIsSaved, WorksOnABlock, NoSaver, NoWriter, FreeMain
<1> QED
  BY <1>7, <1>8, <1>9 DEF TypeInv

\* The steps that begin an operation of the main thread.
LEMMA TypeBegin ==
    ASSUME TypeInv, MainBegin
    PROVE  TypeInv'
<1> USE UnspentDBAssumption, NoneIsNoSave
<1>1. ASSUME NEW op \in {"commit", "undo", "abort"}, NEW b \in Block \cup {None},
             NEW work \in SUBSET {"undofile", "apply"}, BeginAborting(op, b, work),
             op = "abort" \/ b \in Block \ {Genesis}
      PROVE  TypeInv'
  <2>1. TypeOK'
    BY <1>1, SMTT(30) DEF BeginAborting, TypeInv, TypeOK, fileVars, diskVars
  <2>2. WorksOnABlock'
    BY <1>1 DEF BeginAborting, WorksOnABlock
  <2> QED
    BY <1>1, <2>1, <2>2, TypeMainOnly DEF BeginAborting, diskVars
<1>2. CASE AbortWriting
  BY <1>1, <1>2 DEF AbortWriting
<1>3. CASE UndoBlockTxs
  <2>1. mem.last \in Block
    BY DEF TypeInv, TypeOK, UtxoMap
  <2> QED
    BY <1>1, <1>3, <2>1 DEF UndoBlockTxs
<1>4. ASSUME NEW b \in Block, CommitBlockTxs(b)
      PROVE  TypeInv'
  BY <1>1, <1>4 DEF CommitBlockTxs
<1>5. CASE Idle \/ SaveCommand
  <2>1. StartSave /\ UNCHANGED <<mode, mainVars, diskVars, undoFile, ends, peak>>
    BY <1>5 DEF Idle, SaveCommand
  <2>2. TypeOK'
    BY <2>1, StartSaveType DEF StartSave, TypeInv, TypeOK, mainVars, diskVars
  <2>3. ChunksAreSaved'
    BY <2>1, StartSaveType, ChunksStaySaved DEF StartSave, TypeInv, diskVars
  <2>4. RunningIsSaved' /\ WorksOnABlock'
    BY <2>1, StartSaveType DEF StartSave, TypeInv, RunningIsSaved, WorksOnABlock, mainVars
  <2> QED
    BY <2>2, <2>3, <2>4 DEF TypeInv
<1>6. CASE Close
  <2>1. main' \in MainState /\ WorksOnABlock'
    BY <1>6 DEF Close, WorksOnABlock
  <2>2. UNCHANGED <<mode, mem, DirtyDB, CurrentHeightOnDisk, inode, tmpFile, dbFile, oldFile,
                    undoFile, ends, peak>>
    BY <1>6 DEF Close, diskVars
  <2>3. CASE StartSave
    <3>1. TypeOK'
      BY <2>1, <2>2, <2>3, StartSaveType DEF StartSave, TypeInv, TypeOK
    <3>2. ChunksAreSaved'
      BY <2>2, <2>3, StartSaveType, ChunksStaySaved DEF StartSave, TypeInv
    <3>3. RunningIsSaved'
      BY <2>3, StartSaveType DEF StartSave, TypeInv, RunningIsSaved
    <3> QED
      BY <2>1, <3>1, <3>2, <3>3 DEF TypeInv
  <2>4. CASE UNCHANGED <<saveVars, fileVars>>
    <3>1. TypeOK'
      BY <2>1, <2>2, <2>4, SMTT(30) DEF TypeInv, TypeOK, saveVars, fileVars
    <3> QED
      BY <2>1, <2>2, <2>4, <3>1, TypeMainOnly DEF saveVars
  <2> QED
    BY <1>6, <2>3, <2>4 DEF Close
<1> QED
  BY <1>2, <1>3, <1>4, <1>5, <1>6 DEF MainBegin

\* The steps that go on with, or end, an operation of the main thread.
LEMMA TypeWork ==
    ASSUME TypeInv, MainWork
    PROVE  TypeInv'
<1> USE UnspentDBAssumption, NoneIsNoSave
<1>1. CASE AbortWait
  <2>1. main' \in MainState /\ WorksOnABlock'
    BY <1>1 DEF AbortWait, FreeMain, TypeInv, TypeOK, WorksOnABlock
  <2>2. abortwritingnow' \in 0..1
    BY <1>1 DEF AbortWait
  <2>3. UNCHANGED <<mode, mem, DirtyDB, CurrentHeightOnDisk, WritingInProgress, saver,
                    fileVars, inode, tmpFile, dbFile, oldFile, undoFile, ends, peak>>
    BY <1>1 DEF AbortWait, diskVars
  <2>4. TypeOK'
    BY <2>1, <2>2, <2>3, SMTT(30) DEF TypeInv, TypeOK, fileVars
  <2> QED
    BY <2>1, <2>3, <2>4, TypeMainOnly
<1>2. ASSUME NEW work, Finish(work)
      PROVE  main' \in MainState /\ WorksOnABlock'
  BY <1>2 DEF Finish, FreeMain, TypeInv, TypeOK, WorksOnABlock
<1>3. CASE CommitUndoFile
  <2>1. TypeOK'
    BY <1>2, <1>3, ZenonT(60) DEF CommitUndoFile, TypeInv, TypeOK, saveVars, fileVars, diskVars
  <2> QED
    BY <1>2, <1>3, <2>1, TypeMainOnly DEF CommitUndoFile, saveVars, diskVars
<1>4. CASE CommitApply
  <2>1. main.arg \in Block
    BY <1>4 DEF CommitApply, TypeInv, WorksOnABlock
  <2>2. mem' \in UtxoMap
    BY <1>4, <2>1, SMTT(30) DEF CommitApply, TypeInv, TypeOK, UtxoMap
  <2>3. undoFile' \in [Heights -> Block \cup {None}]
    BY <1>4 DEF CommitApply, TypeInv, TypeOK
  <2>4. main' \in MainState /\ WorksOnABlock'
    BY <1>2, <1>4 DEF CommitApply
  <2>6. peak' \in Heights
    BY <1>4, <2>1 DEF CommitApply, TypeInv, TypeOK, Heights
  <2>7. UNCHANGED <<mode, CurrentHeightOnDisk, saveVars, fileVars, diskVars, ends>> /\ DirtyDB' = TRUE
    BY <1>4 DEF CommitApply
  <2>5. TypeOK'
    BY <2>2, <2>3, <2>4, <2>6, <2>7, ZenonT(60) DEF TypeInv, TypeOK, saveVars, fileVars, diskVars
  <2> QED
    BY <1>4, <2>4, <2>5, TypeMainOnly DEF CommitApply, saveVars, diskVars
<1>5. CASE UndoApply
  <2>1. Parent[main.arg] \in Block
    BY <1>5 DEF UndoApply, TypeInv, WorksOnABlock
  <2>2. mem' \in UtxoMap
    BY <1>5, <2>1 DEF UndoApply, TypeInv, TypeOK, UtxoMap
  <2>3. undoFile' \in [Heights -> Block \cup {None}]
    BY <1>5 DEF UndoApply, TypeInv, TypeOK
  <2>4. main' \in MainState /\ WorksOnABlock'
    BY <1>2, <1>5 DEF UndoApply
  <2>5. TypeOK'
    BY <1>5, <2>2, <2>3, <2>4 DEF UndoApply, TypeInv, TypeOK, saveVars, fileVars, diskVars
  <2> QED
    BY <1>5, <2>4, <2>5, TypeMainOnly DEF UndoApply, saveVars, diskVars
<1>6. CASE UndoPanic
  <2>1. TypeOK' /\ WorksOnABlock'
    BY <1>6, SMTT(30) DEF UndoPanic, TypeInv, TypeOK, WorksOnABlock, mainVars, saveVars, fileVars, diskVars
  <2> QED
    BY <1>6, <2>1, TypeMainOnly DEF UndoPanic, saveVars, diskVars
<1>7. CASE CloseDone
  BY <1>7, TypeStop DEF CloseDone
<1> QED
  BY <1>1, <1>3, <1>4, <1>5, <1>6, <1>7 DEF MainWork
\* The steps of save().
LEMMA TypeSaver ==
    ASSUME TypeInv, SaverNext
    PROVE  TypeInv'
<1> USE UnspentDBAssumption, NoneIsNoSave
<1>1. /\ saver.id \in SaveId /\ snap[saver.id] \in UtxoMap
      /\ saver \in SaverState
  BY DEF SaverNext, SaverRename, SaverSend, SaverAbort, SaverLoopEnd, SaverLast, SaverFinito,
         SaverDone, SaverExit, SaverAt, TypeInv, TypeOK, RunningIsSaved
<1>2. CASE SaverRename
  <2>1. saver' \in SaverState /\ saver'.id = saver.id
    BY <1>1, <1>2 DEF SaverRename
  <2>2. /\ writer' \in [SaveId -> WriterState]
        /\ \A s \in SaveId : writer'[s] = IF s = saver.id THEN [NoWriter EXCEPT !.pc = "create"]
                                          ELSE writer[s]
    BY <1>1, <1>2, ZenonT(60) DEF SaverRename, NoWriter, TypeInv, TypeOK
  <2>3. dbFile' \in Inode /\ oldFile' \in Inode
    BY <1>2 DEF SaverRename, TypeInv, TypeOK
  <2>4. UNCHANGED <<mode, mainVars, WritingInProgress, abortwritingnow, chan, exit, snap,
                    inode, tmpFile, undoFile, ends, peak>>
    BY <1>2 DEF SaverRename
  <2>5. TypeOK'
    BY <2>1, <2>2, <2>3, <2>4 DEF TypeInv, TypeOK, mainVars
  <2>6. ChunksAreSaved'
    <3>1. SavedChunk' = SavedChunk
      BY <2>4 DEF SavedChunk
    <3>2. \A s \in SaveId : writer'[s].held \in SavedChunk \cup {None}
      <4>1. [NoWriter EXCEPT !.pc = "create"].held = None
        BY DEF NoWriter
      <4>2. \A s \in SaveId : writer[s].held \in SavedChunk \cup {None}
        BY DEF TypeInv, ChunksAreSaved
      <4> QED
        BY <2>2, <4>1, <4>2
    <3> QED
      BY <2>4, <3>1, <3>2 DEF TypeInv, ChunksAreSaved
  <2>7. RunningIsSaved' /\ WorksOnABlock'
    BY <1>1, <2>1, <2>2, <2>4 DEF TypeInv, RunningIsSaved, WorksOnABlock, NoWriter, mainVars
  <2> QED
    BY <2>5, <2>6, <2>7 DEF TypeInv
<1>3. CASE SaverSend \/ SaverLast
  <2>1. saver' \in SaverState /\ saver'.id = saver.id
    <3>1. CASE SaverSend
      BY <1>1, <3>1 DEF SaverSend
    <3>2. CASE SaverLast
      BY <1>1, <3>2 DEF SaverLast
    <3> QED
      BY <1>3, <3>1, <3>2
  <2>2. /\ SendChunk
        /\ UNCHANGED <<mode, mainVars, WritingInProgress, abortwritingnow, exit, writer, snap,
                       diskVars, undoFile, ends, peak>>
    BY <1>3 DEF SaverSend, SaverLast
  <2>3. <<saver.id, saver.chunk>> \in SavedChunk
    BY <1>1 DEF SavedChunk, Chunk
  <2>4. chan' \in [SaveId -> Seq(SavedChunk)]
    BY <1>1, <2>2, <2>3 DEF SendChunk, TypeInv, ChunksAreSaved
  <2>5. chan' \in [SaveId -> Seq(Chunk)]
    BY <1>1, <2>2, <2>3 DEF SavedChunk, SendChunk, TypeInv, TypeOK
  <2>6. TypeOK'
    BY <2>1, <2>2, <2>5, ZenonT(60) DEF TypeInv, TypeOK, mainVars, diskVars
  <2>7. ChunksAreSaved'
    BY <2>2, <2>4 DEF TypeInv, ChunksAreSaved, SavedChunk, diskVars
  <2>8. RunningIsSaved' /\ WorksOnABlock'
    BY <1>1, <2>1, <2>2 DEF TypeInv, RunningIsSaved, WorksOnABlock, mainVars
  <2> QED
    BY <2>6, <2>7, <2>8 DEF TypeInv
<1>4. CASE SaverFinito
  <2>1. saver' \in SaverState /\ saver'.id = saver.id
    BY <1>1, <1>4 DEF SaverFinito
  <2>2. exit' \in [SaveId -> BOOLEAN \cup {None}]
    BY <1>1, <1>4 DEF SaverFinito, TypeInv, TypeOK
  <2>3. UNCHANGED <<mode, mainVars, WritingInProgress, abortwritingnow, chan, writer, snap,
                    diskVars, undoFile, ends, peak>>
    BY <1>4 DEF SaverFinito
  <2>4. TypeOK'
    BY <2>1, <2>2, <2>3, SMTT(30) DEF TypeInv, TypeOK, mainVars, diskVars
  <2>5. ChunksAreSaved' /\ RunningIsSaved' /\ WorksOnABlock'
    BY <1>1, <2>1, <2>3 DEF TypeInv, ChunksAreSaved, RunningIsSaved, WorksOnABlock, SavedChunk,
                            mainVars, diskVars
  <2> QED
    BY <2>4, <2>5 DEF TypeInv
<1>5. CASE SaverAbort \/ SaverLoopEnd \/ SaverDone \/ SaverExit
  <2>1. saver' \in SaverState /\ (saver'.pc # "none" => saver'.id = saver.id)
    <3>1. CASE SaverAbort
      BY <1>1, <3>1 DEF SaverAbort
    <3>2. CASE SaverLoopEnd
      BY <1>1, <3>2 DEF SaverLoopEnd
    <3>3. CASE SaverDone
      BY <1>1, <3>3 DEF SaverDone
    <3>4. CASE SaverExit
      BY <3>4 DEF SaverExit, NoSaver
    <3> QED
      BY <1>5, <3>1, <3>2, <3>3, <3>4
  <2>2. UNCHANGED <<mode, mem, main, fileVars, diskVars, undoFile, ends, peak>>
    BY <1>5 DEF SaverAbort, SaverLoopEnd, SaverDone, SaverExit, mainVars
  <2>3. DirtyDB' \in BOOLEAN /\ WritingInProgress' \in BOOLEAN
    BY <1>5 DEF SaverAbort, SaverLoopEnd, SaverDone, SaverExit, mainVars, TypeInv, TypeOK
  <2>4. CurrentHeightOnDisk' \in Heights /\ abortwritingnow' \in 0..1
    BY <1>5 DEF SaverAbort, SaverLoopEnd, SaverDone, SaverExit, mainVars, TypeInv, TypeOK,
                Heights, UtxoMap
  <2>5. TypeOK'
    BY <2>1, <2>2, <2>3, <2>4 DEF TypeInv, TypeOK, fileVars, diskVars
  <2>6. ChunksAreSaved' /\ RunningIsSaved' /\ WorksOnABlock'
    BY <1>1, <2>1, <2>2 DEF TypeInv, ChunksAreSaved, RunningIsSaved, WorksOnABlock, SavedChunk,
                            fileVars, diskVars
  <2> QED
    BY <2>5, <2>6 DEF TypeInv
<1> QED
  BY <1>2, <1>3, <1>4, <1>5 DEF SaverNext
\* The steps of the goroutine that writes a file.
LEMMA TypeWriter ==
    ASSUME TypeInv, NEW s \in SaveId, WriterNext(s)
    PROVE  TypeInv'
<1> USE UnspentDBAssumption, NoneIsNoSave
<1>1. /\ writer \in [SaveId -> WriterState] /\ snap[s] \in UtxoMap /\ TmpName(s) \in Block
      /\ writer[s].pc \in {"loop", "write"} => writer[s].node \in SaveId
      /\ chan \in [SaveId -> Seq(Chunk)] /\ chan[s] \in Seq(SavedChunk)
      /\ writer[s].held \in SavedChunk \cup {None}
  BY DEF WriterNext, WriterCreate, WriterCreateFails, WriterTake, WriterExitMsg, WriterWrite,
         WriterLoopEnd, WriterRemove, WriterRename, WriterAt, TypeInv, TypeOK, RunningIsSaved,
         ChunksAreSaved, TmpName, UtxoMap
<1>11. writer[s] \in WriterState
  BY <1>1
<1>2. UNCHANGED <<mode, mainVars, saveVars, snap, undoFile, ends, peak, oldFile>>
  BY DEF WriterNext, WriterCreate, WriterCreateFails, WriterTake, WriterExitMsg, WriterWrite,
         WriterLoopEnd, WriterRemove, WriterRename, diskVars
<1>3. SavedChunk' = SavedChunk
  BY <1>2 DEF SavedChunk
<1>4. SUFFICES
        /\ \E w \in WriterState :
             /\ writer' = [writer EXCEPT ![s] = w]
             /\ w.held \in SavedChunk \cup {None}
             /\ w.pc \in {"loop", "write"} => w.node \in SaveId
        /\ chan' \in [SaveId -> Seq(Chunk)] /\ chan' \in [SaveId -> Seq(SavedChunk)]
        /\ exit' \in [SaveId -> BOOLEAN \cup {None}]
        /\ inode' \in [SaveId -> Seq(SavedChunk \cup {None})]
        /\ inode' \in [SaveId -> Seq(Chunk \cup {None})]
        /\ tmpFile' \in [Block -> Inode] /\ dbFile' \in Inode
  <2>1. PICK w \in WriterState :
             /\ writer' = [writer EXCEPT ![s] = w]
             /\ w.held \in SavedChunk \cup {None}
             /\ w.pc \in {"loop", "write"} => w.node \in SaveId
    BY <1>4
  <2>2. writer' \in [SaveId -> WriterState]
    BY <1>1, <2>1
  <2>3. TypeOK'
    <3>1. /\ chan' \in [SaveId -> Seq(Chunk)] /\ exit' \in [SaveId -> BOOLEAN \cup {None}]
          /\ inode' \in [SaveId -> Seq(Chunk \cup {None})]
          /\ tmpFile' \in [Block -> Inode] /\ dbFile' \in Inode
      BY <1>4
    <3>2. /\ mode' = mode /\ mem' = mem /\ DirtyDB' = DirtyDB /\ main' = main
          /\ CurrentHeightOnDisk' = CurrentHeightOnDisk
          /\ WritingInProgress' = WritingInProgress /\ abortwritingnow' = abortwritingnow
          /\ saver' = saver /\ snap' = snap /\ undoFile' = undoFile /\ ends' = ends /\ peak' = peak
          /\ oldFile' = oldFile
      BY <1>2 DEF mainVars, saveVars
    <3>3. TypeOK
      BY DEF TypeInv
    <3> HIDE DEF MainState, SaverState, WriterState, Inode
    <3> QED
      BY <2>2, <3>1, <3>2, <3>3 DEF TypeOK
  <2>4. ChunksAreSaved'
    BY <1>1, <1>3, <1>4, <2>1 DEF TypeInv, ChunksAreSaved
  <2>5. RunningIsSaved' /\ WorksOnABlock'
    BY <1>1, <1>2, <2>1 DEF TypeInv, RunningIsSaved, WorksOnABlock, mainVars, saveVars
  <2> QED
    BY <2>3, <2>4, <2>5 DEF TypeInv
<1>5. CASE WriterCreate(s)
  <2> DEFINE n == IF tmpFile[TmpName(s)] # None THEN tmpFile[TmpName(s)] ELSE s
             w == [writer[s] EXCEPT !.pc = "loop", !.node = n]
  <2>1. n \in SaveId
    BY <1>1 DEF TypeInv, TypeOK
  <2>2. w \in WriterState /\ w.held = writer[s].held /\ w.node \in SaveId
    <3> HIDE DEF n
    <3> QED
      BY <1>11, <2>1
  <2>3. writer' = [writer EXCEPT ![s] = w]
    BY <1>1, <1>5 DEF WriterCreate
  <2>4. /\ inode' \in [SaveId -> Seq(SavedChunk \cup {None})]
        /\ inode' \in [SaveId -> Seq(Chunk \cup {None})]
    <3>1. inode' = [inode EXCEPT ![n] = <<>>]
      BY <1>5 DEF WriterCreate
    <3> HIDE DEF n
    <3> QED
      BY <2>1, <3>1, SMTT(30) DEF TypeInv, TypeOK, ChunksAreSaved
  <2>5. tmpFile' \in [Block -> Inode]
    BY <1>5, <2>1 DEF WriterCreate, TypeInv, TypeOK
  <2> HIDE DEF w
  <2> QED
    BY <1>1, <1>5, <2>2, <2>3, <2>4, <2>5 DEF WriterCreate, TypeInv, TypeOK, ChunksAreSaved
<1>6. CASE WriterCreateFails(s) \/ WriterLoopEnd(s)
  <2>1. PICK pc \in {"failed", "exit"} : writer' = [writer EXCEPT ![s].pc = pc]
    BY <1>6 DEF WriterCreateFails, WriterLoopEnd
  <2> DEFINE w == [writer[s] EXCEPT !.pc = pc]
  <2>2. w \in WriterState /\ w.held = writer[s].held /\ w.pc \notin {"loop", "write"}
    BY <1>11
  <2>3. writer' = [writer EXCEPT ![s] = w]
    BY <1>1, <2>1
  <2>4. UNCHANGED <<chan, exit, inode, tmpFile, dbFile>>
    BY <1>6 DEF WriterCreateFails, WriterLoopEnd, diskVars
  <2> HIDE DEF w
  <2> QED
    BY <1>1, <2>2, <2>3, <2>4 DEF TypeInv, TypeOK, ChunksAreSaved
<1>7. CASE WriterTake(s)
  <2>1. Head(chan[s]) \in SavedChunk /\ Tail(chan[s]) \in Seq(SavedChunk)
    BY <1>1, <1>7 DEF WriterTake
  <2>2. Head(chan[s]) \in Chunk /\ Tail(chan[s]) \in Seq(Chunk)
    BY <1>1, <1>7 DEF WriterTake
  <2>3. chan' \in [SaveId -> Seq(SavedChunk)] /\ chan' \in [SaveId -> Seq(Chunk)]
    BY <1>7, <2>1, <2>2 DEF WriterTake, TypeInv, TypeOK, ChunksAreSaved
  <2>4. exit' \in [SaveId -> BOOLEAN \cup {None}]
    BY <1>7 DEF WriterTake, TypeInv, TypeOK
  <2> DEFINE w == IF exit[s] = TRUE THEN [writer[s] EXCEPT !.pc = "exit", !.abort = TRUE]
                  ELSE [writer[s] EXCEPT !.pc = "write", !.held = Head(chan[s]),
                                         !.last = writer[s].last \/ exit[s] = FALSE]
  <2>5. w \in WriterState /\ w.held \in SavedChunk \cup {None} /\ w.node = writer[s].node
    BY <1>1, <1>11, <2>1, <2>2
  <2>6. writer' = [writer EXCEPT ![s] = w]
    BY <1>7 DEF WriterTake
  <2>7. UNCHANGED <<inode, tmpFile, dbFile>>
    BY <1>7 DEF WriterTake, diskVars
  <2>8. writer[s].node \in SaveId
    BY <1>1, <1>7 DEF WriterTake, WriterAt
  <2> HIDE DEF w
  <2> QED
    BY <2>3, <2>4, <2>5, <2>6, <2>7, <2>8 DEF TypeInv, TypeOK, ChunksAreSaved
<1>8. CASE WriterExitMsg(s)
  <2> DEFINE w == IF exit[s] = TRUE THEN [writer[s] EXCEPT !.pc = "exit", !.abort = TRUE]
                  ELSE [writer[s] EXCEPT !.last = TRUE]
  <2>1. w \in WriterState /\ w.held = writer[s].held /\ w.node = writer[s].node
    BY <1>11
  <2>2. writer' = [writer EXCEPT ![s] = w]
    BY <1>1, <1>8 DEF WriterExitMsg
  <2>3. exit' \in [SaveId -> BOOLEAN \cup {None}]
    BY <1>8 DEF WriterExitMsg, TypeInv, TypeOK
  <2>4. UNCHANGED <<chan, inode, tmpFile, dbFile>>
    BY <1>8 DEF WriterExitMsg, diskVars
  <2>5. writer[s].node \in SaveId
    BY <1>1, <1>8 DEF WriterExitMsg, WriterAt
  <2> HIDE DEF w
  <2> QED
    BY <1>1, <2>1, <2>2, <2>3, <2>4, <2>5 DEF TypeInv, TypeOK, ChunksAreSaved
<1>9. CASE WriterWrite(s)
  <2> DEFINE n == writer[s].node
             p == writer[s].pos
             old == inode[n]
             len == IF p + 1 > Len(old) THEN p + 1 ELSE Len(old)
             new == [i \in 1..len |-> IF i = p + 1 THEN writer[s].held
                                      ELSE IF i <= Len(old) THEN old[i] ELSE None]
             w == [writer[s] EXCEPT !.pc = "loop", !.held = None, !.pos = @ + 1]
  <2>1. n \in SaveId /\ p \in Nat
    BY <1>1, <1>9 DEF WriterWrite, WriterAt
  <2>2. old \in Seq(SavedChunk \cup {None}) /\ old \in Seq(Chunk \cup {None})
    BY <2>1 DEF TypeInv, TypeOK, ChunksAreSaved
  <2>3. len \in Nat
    BY <2>1, <2>2
  <2>4. new \in [1..len -> SavedChunk \cup {None}] /\ new \in [1..len -> Chunk \cup {None}]
    BY <1>1, <2>1, <2>2, <2>3
  <2>5. new \in Seq(SavedChunk \cup {None}) /\ new \in Seq(Chunk \cup {None})
    <3> HIDE DEF new, len
    <3> QED
      BY <2>3, <2>4
  <2>6. inode' = [inode EXCEPT ![n] = new]
    BY <1>9, <2>1 DEF WriterWrite, TypeInv, TypeOK
  <2>7. w \in WriterState /\ w.held = None /\ w.node = n
    <3>1. p + 1 \in Nat /\ w = [writer[s] EXCEPT !.pc = "loop", !.held = None, !.pos = p + 1]
      BY <2>1
    <3> QED
      BY <1>11, <3>1, Zenon
  <2>8. writer' = [writer EXCEPT ![s] = w]
    BY <1>1, <1>9 DEF WriterWrite
  <2>9. UNCHANGED <<chan, exit, tmpFile, dbFile>>
    BY <1>9 DEF WriterWrite
  <2>10. /\ inode' \in [SaveId -> Seq(SavedChunk \cup {None})]
         /\ inode' \in [SaveId -> Seq(Chunk \cup {None})]
    <3> HIDE DEF n, new
    <3> QED
      BY <2>1, <2>5, <2>6 DEF TypeInv, TypeOK, ChunksAreSaved
  <2> HIDE DEF w
  <2> QED
    BY <2>1, <2>7, <2>8, <2>9, <2>10 DEF TypeInv, TypeOK, ChunksAreSaved
<1>10. CASE WriterRemove(s) \/ WriterRename(s)
  <2> DEFINE w == [NoWriter EXCEPT !.pc = "done"]
  <2>1. w \in WriterState /\ w.held = None /\ w.pc \notin {"loop", "write"}
    BY DEF NoWriter
  <2>2. writer' = [writer EXCEPT ![s] = w]
    BY <1>10 DEF WriterRemove, WriterRename
  <2>3. UNCHANGED <<chan, exit, inode>>
    BY <1>10 DEF WriterRemove, WriterRename
  <2>4. tmpFile' \in [Block -> Inode] /\ dbFile' \in Inode
    <3>1. tmpFile \in [Block -> Inode] /\ dbFile \in Inode /\ tmpFile[TmpName(s)] \in Inode
      BY <1>1 DEF TypeInv, TypeOK
    <3>2. tmpFile' = [tmpFile EXCEPT ![TmpName(s)] = None]
      BY <1>10 DEF WriterRemove, WriterRename
    <3>3. dbFile' \in {dbFile, tmpFile[TmpName(s)]}
      BY <1>10 DEF WriterRemove, WriterRename
    <3> QED
      BY <3>1, <3>2, <3>3
  <2> HIDE DEF w
  <2> QED
    BY <2>1, <2>2, <2>3, <2>4 DEF TypeInv, TypeOK, ChunksAreSaved
<1> QED
  BY <1>5, <1>6, <1>7, <1>8, <1>9, <1>10 DEF WriterNext
\* Every step keeps the invariant.
LEMMA TypeNext ==
    ASSUME TypeInv, [Next]_vars
    PROVE  TypeInv'
<1>1. CASE NewUnspentDb
  <2>1. mem' \in UtxoMap /\ CurrentHeightOnDisk' \in Heights
    BY <1>1, LoadedIsAMap DEF NewUnspentDb, UtxoMap, Heights
  <2>2. TypeOK' /\ WorksOnABlock'
    BY <1>1, <2>1, SMTT(30) DEF NewUnspentDb, TypeInv, TypeOK, WorksOnABlock, saveVars, fileVars
  <2> QED
    BY <1>1, <2>2, TypeMainOnly DEF NewUnspentDb, saveVars
<1>2. CASE Crash
  BY <1>2, TypeStop DEF Crash
<1>3. CASE UNCHANGED vars
  <2>1. TypeOK' /\ WorksOnABlock'
    BY <1>3, SMTT(30) DEF vars, mainVars, saveVars, fileVars, diskVars, TypeInv, TypeOK, WorksOnABlock
  <2> QED
    BY <1>3, <2>1, TypeMainOnly DEF vars, saveVars, diskVars
<1> QED
  BY <1>1, <1>2, <1>3, TypeBegin, TypeWork, TypeSaver, TypeWriter DEF Next

\* The state of the database, of its goroutines and of its files keeps its
\* type: in particular no file, channel or loaded snapshot ever refers to a save
\* that was not started, and a writer never writes without an open file.
THEOREM TypeCorrect == Spec => []TypeOK
<1>1. TypeInv => TypeOK
  BY DEF TypeInv
<1> QED
  BY <1>1, TypeInit, TypeNext, PTL DEF Spec

-----------------------------------------------------------------------------
(* save() and the main thread *)

\* Why the map stands still under save(): the flag WritingInProgress is up
\* exactly while the goroutine runs, the main thread gets past abortWriting only
\* when it does not, and a token is in the channel only while it waits.
SaveInv ==
    /\ WritingInProgress <=> saver.pc # "none"
    /\ saver.pc \in {"rename", "send", "last", "finito", "done"} => mem = snap[saver.id]
    /\ main.pc \in {"commit", "undo"} /\ "wait" \notin main.todo => saver.pc = "none"
    /\ abortwritingnow = 1 => "wait" \in main.todo
    /\ main.pc \in {"free", "close"} => "wait" \notin main.todo
    /\ mode = "down" => saver.pc = "none" /\ main = FreeMain

\* It holds before the process is started.
LEMMA SaveInit == Init => SaveInv
BY DEF Init, SaveInv, NoSaver, FreeMain

\* Every step keeps it.
LEMMA SaveNext ==
    ASSUME TypeInv, SaveInv, [Next]_vars
    PROVE  SaveInv'
<1> USE UnspentDBAssumption
<1>1. /\ main \in MainState /\ saver \in SaverState /\ abortwritingnow \in 0..1
      /\ snap \in [SaveId -> UtxoMap \cup {None}]
      /\ saver.pc # "none" => saver.id \in SaveId /\ snap[saver.id] \in UtxoMap
  BY DEF TypeInv, TypeOK, RunningIsSaved
<1>2. CASE NewUnspentDb
  BY <1>2 DEF NewUnspentDb, SaveInv, saveVars, fileVars, FreeMain
<1>3. CASE Crash \/ CloseDone
  BY <1>3 DEF Crash, CloseDone, Stop, SaveInv, NoSaver, FreeMain
<1>4. ASSUME StartSave, UNCHANGED <<mode, mem>>, mode = "up",
             main.pc \in {"free", "close"}, main'.pc \in {"free", "close"},
             "wait" \notin main'.todo
      PROVE  SaveInv'
  BY <1>1, <1>4 DEF StartSave, SaveInv
<1>5. CASE Idle \/ SaveCommand
  BY <1>1, <1>4, <1>5 DEF Idle, SaveCommand, MainFree, SaveInv, mainVars
<1>6. CASE Close
  BY <1>1, <1>4, <1>6 DEF Close, MainFree, SaveInv, saveVars, fileVars
<1>7. ASSUME NEW op \in {"commit", "undo", "abort"}, NEW b, NEW work, "wait" \notin work,
             BeginAborting(op, b, work), op = "abort" => WritingInProgress
      PROVE  SaveInv'
  BY <1>1, <1>7 DEF BeginAborting, MainFree, SaveInv, fileVars
<1>8. CASE AbortWriting
  BY <1>7, <1>8 DEF AbortWriting
<1>9. CASE UndoBlockTxs
  BY <1>7, <1>9 DEF UndoBlockTxs
<1>10. ASSUME NEW b \in Block, CommitBlockTxs(b)
       PROVE  SaveInv'
  BY <1>7, <1>10 DEF CommitBlockTxs
<1>11. CASE AbortWait
  BY <1>1, <1>11 DEF AbortWait, SaveInv, FreeMain, fileVars
<1>12. CASE CommitUndoFile \/ CommitApply \/ UndoApply \/ UndoPanic
  BY <1>1, <1>12 DEF CommitUndoFile, CommitApply, UndoApply, UndoPanic, Finish, FreeMain,
                     SaveInv, mainVars, saveVars, fileVars
<1>13. CASE SaverNext
  <2>1. CASE SaverRename
    BY <1>1, <2>1 DEF SaverRename, SaverAt, SaveInv, mainVars
  <2>2. CASE SaverSend \/ SaverLast
    BY <1>1, <2>2 DEF SaverSend, SaverLast, SaverAt, SaveInv, mainVars
  <2>3. CASE SaverAbort
    BY <1>1, <2>3 DEF SaverAbort, SaverAt, SaveInv, mainVars, fileVars
  <2>4. CASE SaverLoopEnd
    BY <1>1, <2>4 DEF SaverLoopEnd, SaverAt, SaveInv, mainVars, fileVars
  <2>5. CASE SaverFinito
    BY <1>1, <2>5 DEF SaverFinito, SaverAt, SaveInv, mainVars
  <2>6. CASE SaverDone
    BY <1>1, <2>6 DEF SaverDone, SaverAt, SaveInv, fileVars
  <2>7. CASE SaverExit
    BY <1>1, <2>7 DEF SaverExit, SaverAt, SaveInv, NoSaver, mainVars, fileVars
  <2> QED
    BY <1>13, <2>1, <2>2, <2>3, <2>4, <2>5, <2>6, <2>7 DEF SaverNext
<1>14. ASSUME NEW s \in SaveId, WriterNext(s)
       PROVE  SaveInv'
  <2>1. UNCHANGED <<mode, mainVars, saveVars, snap>>
    BY <1>14 DEF WriterNext, WriterCreate, WriterCreateFails, WriterTake, WriterExitMsg,
                 WriterWrite, WriterLoopEnd, WriterRemove, WriterRename
  <2> QED
    BY <2>1 DEF SaveInv, mainVars, saveVars
<1>15. CASE UNCHANGED vars
  BY <1>15 DEF vars, SaveInv, mainVars, saveVars, fileVars
<1> QED
  BY <1>2, <1>3, <1>5, <1>6, <1>8, <1>9, <1>10, <1>11, <1>12, <1>13, <1>14, <1>15
     DEF Next, MainBegin, MainWork

\* What save() writes in the background is one state of the map: no block is
\* committed or undone under it, so the snapshot needs no lock over the map.
THEOREM SaveSeesOneMap == Spec => []SavesWhatIsThere
<1>1. SaveInv => SavesWhatIsThere
  BY DEF SaveInv, SavesWhatIsThere
<1> QED
  BY <1>1, TypeInit, TypeNext, SaveInit, SaveNext, PTL DEF Spec

\* A token left in abortwritingnow by an abort that save() did not see is taken
\* back before the main thread goes on: it cannot abort a later save or block a
\* later abortWriting.
THEOREM AbortTokenIsTakenBack == Spec => []NoStaleAbort
<1>1. SaveInv => NoStaleAbort
  BY DEF SaveInv, NoStaleAbort
<1> QED
  BY <1>1, TypeInit, TypeNext, SaveInit, SaveNext, PTL DEF Spec

-----------------------------------------------------------------------------
(* The files of a save *)

Pipe == {"create", "loop", "write", "exit"}

\* The file of save s is being written, or will be.
Busy(s) == writer[s].pc \in Pipe \/ (saver.pc = "rename" /\ saver.id = s)

\* A file could not be created: what save() sends for it is lost, and Close
\* waits for it for ever.
Failed == \E s \in SaveId : writer[s].pc = "failed"

\* The chunks of save s that were sent and not dropped.
Sent(s) == writer[s].pos + (IF writer[s].pc = "write" THEN 1 ELSE 0) + Len(chan[s])

\* Saves are numbered in the order in which they start; one that did not has no
\* traces.
NumbersInv ==
    \A s \in SaveId :
        /\ snap[s] # None => \A t \in 1..s : snap[t] # None
        /\ snap[s] = None \/ (saver.pc = "rename" /\ saver.id = s) =>
              chan[s] = <<>> /\ exit[s] = None /\ writer[s] = NoWriter

\* While save() works on it, its writer has not seen the end of it.
SaverInv ==
    /\ saver.pc \in {"rename", "send", "last", "finito"} =>
          exit[saver.id] = None /\ ~writer[saver.id].last /\ ~writer[saver.id].abort
    /\ saver.pc \in {"send", "last", "finito"} => writer[saver.id].pc \in (Pipe \ {"exit"}) \cup {"failed"}
    /\ saver.pc = "rename" => saver.chunk = 1
    /\ saver.pc = "last" => saver.chunk = Chunks
    /\ \A s \in SaveId : exit[s] # None => ~writer[s].last
    /\ mode = "down" => \A s \in SaveId : writer[s] = NoWriter /\ chan[s] = <<>> /\ exit[s] = None

\* Only one file is written at a time.
OneFileInv ==
    /\ \A s, t \in SaveId : Busy(s) /\ Busy(t) => s = t
    /\ saver.pc # "none" => \A s \in SaveId : Busy(s) => s = saver.id
    /\ mode = "up" => \A b \in Block : tmpFile[b] # None =>
          \E s \in SaveId : tmpFile[b] = s /\ TmpName(s) = b /\ writer[s].pc \in Pipe \ {"create"}

\* From save() through the channel to the file the chunks keep their order, and
\* a file is closed without an abort only when it has them all.
PipeOf(s) ==
    LET w == writer[s] IN
    /\ w.pc = "create" => w.pos = 0 /\ ~w.last /\ ~w.abort
    /\ w.pc \in {"create", "loop", "write"} =>
          /\ ~w.abort
          /\ \A k \in 1..Len(chan[s]) :
                chan[s][k] = <<s, w.pos + (IF w.pc = "write" THEN 1 ELSE 0) + k>>
          /\ saver.id = s /\ saver.pc \in {"send", "last"} => Sent(s) = saver.chunk - 1
          /\ saver.id = s /\ saver.pc = "finito" /\ ~saver.abort => Sent(s) = Chunks
          /\ exit[s] = FALSE \/ w.last => Sent(s) = Chunks
    /\ w.pc = "write" => w.held = <<s, w.pos + 1>>
    /\ w.pc \in {"loop", "write", "exit"} =>
          /\ w.node = s /\ tmpFile[TmpName(s)] = s
          /\ Len(inode[s]) = w.pos /\ \A k \in 1..w.pos : inode[s][k] = <<s, k>>
    /\ w.pc = "exit" /\ ~w.abort => w.pos = Chunks

PipeInv == \A s \in SaveId : PipeOf(s)

\* UTXO.db and UTXO.old are whole and closed.
FilesInv ==
    \A n \in {dbFile, oldFile} \ {None} :
        /\ Len(inode[n]) = Chunks /\ \A k \in 1..Chunks : inode[n][k] = <<n, k>>
        /\ snap[n] # None /\ ~Busy(n)

DiskInv == NumbersInv /\ SaverInv /\ OneFileInv /\ PipeInv /\ FilesInv

\* UTXO.db, else UTXO.old, else the map before the first block.
OnDisk ==
    IF dbFile # None THEN snap[dbFile]
    ELSE IF oldFile # None THEN snap[oldFile] ELSE MapAt(Genesis)

\* The file of save s will be whole when it is closed.
Coming(s) == Busy(s) /\ ~writer[s].abort /\ (exit[s] = FALSE \/ writer[s].last)

\* DirtyDB is clear only if the map is on disk or on its way there, unless a
\* file could not be created.
FlushInv ==
    /\ mode = "up" /\ ~DirtyDB =>
          Failed \/ OnDisk = mem \/ \E s \in SaveId : Coming(s) /\ snap[s] = mem
    /\ mode = "up" => \A s \in SaveId : Busy(s) => DirtyDB \/ snap[s] = mem
    /\ saver.pc = "done" => Failed \/ Coming(saver.id) \/ dbFile = saver.id
    /\ saver.pc = "clr" /\ ~saver.abort => ~DirtyDB
    /\ saver.pc \in {"none", "rename", "send", "last", "done"} => ~saver.abort
    /\ saver.abort => "wait" \in main.todo
    /\ main.pc = "close" => ~DirtyDB \/ saver.pc \in {"rename", "send", "last", "finito", "done"}

\* The undo file of a block is its own, or was dropped as outdated.
UndoIs(a) ==
    \/ undoFile[Height[a]] = a
    \/ undoFile[Height[a]] = None /\ Height[a] + UnwindBufLen <= peak

Recording(a) == main.pc = "commit" /\ "undofile" \in main.todo /\ main.arg = a

\* The undo files that are there belong to the blocks of the map m.
UndoFits(m) == \A a \in ChainOf[m.last] : UndoIs(a) \/ Recording(a)

ExactInv ==
    /\ mem = MapAt(mem.last)
    /\ \A s \in SaveId : snap[s] # None => snap[s] = MapAt(snap[s].last)
    /\ mode # "down" => UndoFits(mem)
    /\ mode = "down" => UndoFits(OnDisk)
    /\ main.pc = "commit" =>
          /\ IF "apply" \in main.todo THEN Parent[main.arg] = mem.last ELSE mem.last = main.arg
          /\ "undofile" \notin main.todo => UndoIs(main.arg)
    /\ main.pc = "undo" => main.arg = mem.last

-----------------------------------------------------------------------------
(* Facts about saves and files *)

\* The number of the next save is the first one that was not used.
LEMMA FreshNumber ==
    ASSUME TypeInv, NumbersInv, NextSave \in SaveId
    PROVE  /\ snap[NextSave] = None
           /\ \A t \in 1..(NextSave - 1) : t \in SaveId /\ snap[t] # None
<1> DEFINE A == {s \in SaveId : snap[s] # None}
           n == Cardinality(A)
<1>1. IsFiniteSet(SaveId) /\ IsFiniteSet(A) /\ n \in Nat
  <2>1. IsFiniteSet(SaveId)
    <3>1. 1 \in Int /\ MaxSaves \in Int
      BY UnspentDBAssumption
    <3> QED
      BY <3>1, FS_Interval DEF SaveId
  <2> QED
    BY <2>1, FS_Subset, FS_CardinalityType
<1>2. NextSave = n + 1
  BY DEF NextSave
<1>3. \A s \in A : 1..s \subseteq A
  BY UnspentDBAssumption DEF NumbersInv, SaveId
<1>4. n + 1 \notin A
  <2> SUFFICES ASSUME n + 1 \in A PROVE FALSE
    OBVIOUS
  <2>1. 1..(n + 1) \subseteq A
    BY <1>3
  <2>2. Cardinality(1..(n + 1)) = n + 1
    BY <1>1, FS_Interval
  <2>3. Cardinality(1..(n + 1)) <= n
    BY <1>1, <2>1, FS_Subset
  <2> QED
    BY <1>1, <2>2, <2>3
<1>5. \A t \in 1..n : t \in A
  <2> SUFFICES ASSUME NEW t \in 1..n, t \notin A PROVE FALSE
    OBVIOUS
  <2>1. A \subseteq 1..(t - 1)
    <3> SUFFICES ASSUME NEW s \in A PROVE s \in 1..(t - 1)
      OBVIOUS
    <3>1. s \in Nat /\ s >= 1
      BY UnspentDBAssumption DEF SaveId
    <3>2. ~(t \in 1..s)
      BY <1>3
    <3> QED
      BY <1>1, <3>1, <3>2
  <2>2. IsFiniteSet(1..(t - 1)) /\ Cardinality(1..(t - 1)) = t - 1
    <3>1. t - 1 \in Int /\ t - 1 >= 0
      BY <1>1
    <3> QED
      BY <3>1, FS_Interval
  <2>3. n <= t - 1
    BY <2>1, <2>2, FS_Subset
  <2> QED
    BY <1>1, <2>3
<1>6. snap[NextSave] = None
  BY <1>2, <1>4
<1> QED
  BY <1>1, <1>2, <1>5, <1>6

\* A whole file is read back as what was saved.
LEMMA ReadsBack ==
    ASSUME NEW n \in SaveId, Len(inode[n]) = Chunks, \A k \in 1..Chunks : inode[n][k] = <<n, k>>
    PROVE  IsWhole(n) /\ SavedIn(n) = snap[n] /\ ReadFrom(n) = {snap[n]}
<1>1. IsWhole(n)
  BY DEF IsWhole
<1>2. inode[n][1] = <<n, 1>>
  BY UnspentDBAssumption
<1>3. SavedIn(n) = snap[n]
  BY <1>2 DEF SavedIn
<1>4. ~(n = None \/ Len(inode[n]) < Chunks)
  BY NoneIsNoSave, UnspentDBAssumption
<1> QED
  BY <1>1, <1>3, <1>4 DEF ReadFrom

\* The map that a start loads.
LEMMA Loads == TypeInv /\ FilesInv => WouldLoad = {OnDisk}
<1> SUFFICES ASSUME TypeInv, FilesInv PROVE WouldLoad = {OnDisk}
  OBVIOUS
<1>1. dbFile \in Inode /\ oldFile \in Inode
  BY DEF TypeInv, TypeOK
<1>2. \A n \in {dbFile, oldFile} \ {None} : ReadFrom(n) = {snap[n]} /\ snap[n] # None
  BY <1>1, ReadsBack DEF FilesInv
<1>3. ReadFrom(None) = {None}
  BY DEF ReadFrom
<1> QED
  BY <1>2, <1>3 DEF WouldLoad, OnDisk

-----------------------------------------------------------------------------
(* One file at a time *)

LEMMA DiskInit == Init => DiskInv
BY DEF Init, DiskInv, NumbersInv, SaverInv, OneFileInv, PipeInv, PipeOf, FilesInv, Busy, Pipe,
       NoSaver, NoWriter

\* What the main thread does to the map does not touch the files.
LEMMA DiskMain ==
    ASSUME DiskInv, UNCHANGED <<saver, fileVars, diskVars>>, mode' \in {mode, "panic"}
    PROVE  DiskInv'
BY SMTT(30) DEF DiskInv, NumbersInv, SaverInv, OneFileInv, PipeInv, PipeOf, FilesInv, Busy, Sent, TmpName,
                fileVars, diskVars

\* When the process ends, the goroutines are gone and the files stay.
LEMMA DiskStop ==
    ASSUME TypeInv, DiskInv, Stop, mode' = "down"
    PROVE  DiskInv'
<1>1. \A s \in SaveId : writer'[s] = NoWriter /\ chan'[s] = <<>> /\ exit'[s] = None
  BY DEF Stop
<1>2. saver'.pc = "none" /\ UNCHANGED <<snap, inode, dbFile, oldFile>>
  BY DEF Stop, NoSaver, diskVars
<1>3. NumbersInv'
  BY <1>1, <1>2 DEF NumbersInv, NoWriter, DiskInv
<1>4. SaverInv'
  BY <1>1, <1>2 DEF SaverInv, NoWriter
<1>5. \A s \in SaveId : ~Busy(s)'
  BY <1>1, <1>2 DEF Busy, NoWriter, Pipe
<1>6. OneFileInv'
  BY <1>2, <1>5 DEF OneFileInv
<1>7. PipeInv'
  BY <1>1 DEF PipeInv, PipeOf, NoWriter
<1>8. FilesInv'
  <2>1. dbFile \in Inode /\ oldFile \in Inode
    BY DEF TypeInv, TypeOK
  <2> QED
    BY <1>2, <1>5, <2>1 DEF FilesInv, DiskInv
<1> QED
  BY <1>3, <1>4, <1>6, <1>7, <1>8 DEF DiskInv

\* NewUnspentDb removes the unfinished files.
LEMMA DiskLoad ==
    ASSUME TypeInv, SaveInv, DiskInv, NewUnspentDb
    PROVE  DiskInv'
<1>1. /\ mode' = "up" /\ tmpFile' = [b \in Block |-> None] /\ saver.pc = "none"
      /\ UNCHANGED <<saver, chan, exit, writer, snap, inode, dbFile, oldFile>>
      /\ \A s \in SaveId : writer[s] = NoWriter
  BY DEF NewUnspentDb, saveVars, fileVars, SaveInv, DiskInv, SaverInv
<1>2. NumbersInv' /\ SaverInv' /\ FilesInv'
  BY <1>1 DEF DiskInv, NumbersInv, SaverInv, FilesInv, Busy
<1>3. OneFileInv'
  BY <1>1 DEF DiskInv, OneFileInv, Busy
<1>4. PipeInv'
  BY <1>1 DEF PipeInv, PipeOf, NoWriter
<1> QED
  BY <1>2, <1>3, <1>4 DEF DiskInv

\* A save starts when the file of the one before is closed.
LEMMA DiskStartSave ==
    ASSUME DiskKeepsUp, TypeInv, SaveInv, DiskInv, StartSave, mode = "up",
           UNCHANGED <<mode, diskVars>>
    PROVE  DiskInv'
<1> DEFINE n == NextSave
<1>1. /\ n \in SaveId /\ snap[n] = None /\ \A t \in 1..(n - 1) : snap[t] # None
      /\ NoFileOpen /\ saver.pc = "none"
  BY FreshNumber DEF StartSave, SaveInv, DiskInv
<1>2. /\ saver' = [pc |-> "rename", id |-> n, chunk |-> 1, abort |-> FALSE]
      /\ snap' = [snap EXCEPT ![n] = mem] /\ UNCHANGED <<chan, exit, writer>>
      /\ UNCHANGED <<mode, inode, tmpFile, dbFile, oldFile>>
  BY DEF StartSave, diskVars
<1>3. snap \in [SaveId -> UtxoMap \cup {None}] /\ mem \in UtxoMap /\ mem # None
  <2>1. snap \in [SaveId -> UtxoMap \cup {None}] /\ mem \in UtxoMap
    BY DEF TypeInv, TypeOK
  <2> QED
    BY <2>1, UnspentDBAssumption, Zenon
<1>4. \A s \in SaveId : ~Busy(s)
  BY <1>1 DEF Busy, NoFileOpen, Pipe
<1>5. \A s \in SaveId : Busy(s)' => s = n
  BY <1>1, <1>2 DEF Busy, NoFileOpen, Pipe
<1>6. dbFile # n /\ oldFile # n
  BY <1>1, <1>3, NoneIsNoSave DEF DiskInv, FilesInv
<1>7. \A s \in SaveId : s # n => snap'[s] = snap[s]
  BY <1>2, <1>3
<1>8. snap'[n] = mem
  BY <1>1, <1>2, <1>3
<1>9. NumbersInv'
  <2> SUFFICES ASSUME NEW s \in SaveId
               PROVE  /\ snap'[s] # None => \A t \in 1..s : snap'[t] # None
                      /\ snap'[s] = None \/ s = n =>
                            chan[s] = <<>> /\ exit[s] = None /\ writer[s] = NoWriter
    BY <1>2 DEF NumbersInv
  <2>1. \A t \in 1..n : snap'[t] # None
    <3> SUFFICES ASSUME NEW t \in 1..n PROVE snap'[t] # None
      OBVIOUS
    <3>1. t \in SaveId /\ (t # n => t \in 1..(n - 1))
      BY <1>1, UnspentDBAssumption DEF SaveId
    <3> QED
      BY <1>1, <1>3, <1>7, <1>8, <3>1
  <2>2. ASSUME s # n, snap[s] # None, NEW t \in 1..s
        PROVE  snap'[t] # None
    <3>1. t \in SaveId /\ snap[t] # None
      BY <2>2, UnspentDBAssumption DEF SaveId, DiskInv, NumbersInv
    <3> QED
      BY <1>3, <1>7, <1>8, <3>1
  <2>3. snap'[s] = None \/ s = n => chan[s] = <<>> /\ exit[s] = None /\ writer[s] = NoWriter
    BY <1>1, <1>3, <1>7, <1>8 DEF DiskInv, NumbersInv
  <2> QED
    BY <1>7, <2>1, <2>2, <2>3
<1>10. ~writer[n].last /\ ~writer[n].abort
  BY <1>1 DEF DiskInv, NumbersInv, NoWriter
<1>11. SaverInv'
  BY <1>1, <1>2, <1>10 DEF DiskInv, NumbersInv, SaverInv
<1>12. OneFileInv'
  <2>1. \A b \in Block : tmpFile[b] = None
    BY <1>1 DEF DiskInv, OneFileInv, NoFileOpen, Pipe
  <2> QED
    BY <1>2, <1>5, <2>1 DEF OneFileInv
<1>13. PipeInv'
  BY <1>1, <1>2 DEF NoFileOpen, PipeInv, PipeOf
<1>14. FilesInv'
  <2>1. dbFile \in Inode /\ oldFile \in Inode
    BY DEF TypeInv, TypeOK
  <2> QED
    BY <1>2, <1>5, <1>6, <1>7, <2>1, NoneIsNoSave DEF FilesInv, DiskInv
<1> QED
  BY <1>9, <1>11, <1>12, <1>13, <1>14 DEF DiskInv

\* save() starts its writer and feeds it.
LEMMA DiskSaver ==
    ASSUME TypeInv, SaveInv, DiskInv, SaverNext
    PROVE  DiskInv'
<1>a. PICK s : s = saver.id
  OBVIOUS
<1>1. /\ mode = "up" /\ mode' = "up" /\ saver.pc # "none" /\ s \in SaveId
      /\ snap[s] \in UtxoMap /\ snap[s] # None
      /\ UNCHANGED <<snap, inode, tmpFile>>
  <2>1. mode = "up" /\ mode' = "up" /\ saver.pc # "none" /\ UNCHANGED <<snap, inode, tmpFile>>
    BY DEF SaverNext, SaverRename, SaverSend, SaverAbort, SaverLoopEnd, SaverLast, SaverFinito,
           SaverDone, SaverExit, SaverAt, fileVars, diskVars
  <2>2. s \in SaveId /\ snap[s] \in UtxoMap
    BY <1>a, <2>1 DEF TypeInv, RunningIsSaved
  <2>3. snap[s] # None
    BY <2>2, UnspentDBAssumption, Zenon
  <2> QED
    BY <2>1, <2>2, <2>3
<1>2. \A t \in SaveId : t # s => ~Busy(t) /\ writer[t].pc \notin Pipe
  BY <1>a, <1>1 DEF DiskInv, OneFileInv, Busy
<1>3. /\ saver \in SaverState /\ writer \in [SaveId -> WriterState]
      /\ chan \in [SaveId -> Seq(Chunk)] /\ exit \in [SaveId -> BOOLEAN \cup {None}]
      /\ dbFile \in Inode /\ oldFile \in Inode
      /\ Chunks \in Nat \ {0} /\ None \notin BOOLEAN
  BY UnspentDBAssumption DEF TypeInv, TypeOK
<1>4. ASSUME UNCHANGED <<writer, dbFile, oldFile>>, saver.pc # "rename", saver'.pc # "rename",
             saver'.pc = "none" \/ saver'.id = s,
             \A t \in SaveId : t # s => chan'[t] = chan[t] /\ exit'[t] = exit[t],
             SaverInv', PipeOf(s)'
      PROVE  DiskInv'
  <2>1. \A t \in SaveId : Busy(t)' = Busy(t)
    BY <1>4 DEF Busy
  <2>2. NumbersInv'
    BY <1>1, <1>4 DEF DiskInv, NumbersInv
  <2>3. OneFileInv'
    BY <1>1, <1>2, <1>4, <2>1 DEF DiskInv, OneFileInv, TmpName
  <2>4. PipeInv'
    <3> SUFFICES ASSUME NEW t \in SaveId, t # s PROVE PipeOf(t)'
      BY <1>4 DEF PipeInv
    <3> QED
      BY <1>2, <1>4 DEF PipeOf, Pipe
  <2>5. FilesInv'
    BY <1>1, <1>3, <1>4, <2>1 DEF DiskInv, FilesInv
  <2> QED
    BY <1>4, <2>2, <2>3, <2>4, <2>5 DEF DiskInv
<1>5. CASE SaverRename
  <2>1. /\ saver.pc = "rename" /\ saver' = [saver EXCEPT !.pc = "send"]
        /\ writer' = [writer EXCEPT ![s] = [NoWriter EXCEPT !.pc = "create"]]
        /\ oldFile' = (IF dbFile # None THEN dbFile ELSE oldFile) /\ dbFile' = None
        /\ UNCHANGED <<chan, exit>>
    BY <1>a, <1>5 DEF SaverRename, SaverAt
  <2>2. chan[s] = <<>> /\ exit[s] = None /\ writer[s] = NoWriter
    BY <1>a, <1>1, <2>1 DEF DiskInv, NumbersInv
  <2>3. /\ saver'.id = s /\ saver'.pc = "send" /\ saver'.chunk = saver.chunk
        /\ saver'.abort = saver.abort
    BY <1>a, <1>3, <2>1
  <2>4. /\ writer'[s].pc = "create" /\ writer'[s].pos = 0 /\ ~writer'[s].last /\ ~writer'[s].abort
        /\ \A t \in SaveId : t # s => writer'[t] = writer[t]
    BY <1>1, <1>3, <2>1 DEF NoWriter
  <2>5. \A t \in SaveId : Busy(t)' <=> t = s
    BY <1>2, <2>3, <2>4 DEF Busy, Pipe
  <2>6. NumbersInv'
    BY <1>1, <2>1, <2>3, <2>4 DEF DiskInv, NumbersInv
  <2>7. SaverInv'
    BY <1>1, <2>1, <2>2, <2>3, <2>4 DEF DiskInv, SaverInv, Pipe
  <2>8. OneFileInv'
    <3>1. \A b \in Block : tmpFile[b] = None
      BY <1>1, <1>2, <2>2 DEF DiskInv, OneFileInv, NoWriter, Pipe
    <3> QED
      BY <1>1, <2>3, <2>5, <3>1 DEF OneFileInv
  <2>9. PipeInv'
    <3>1. PipeOf(s)'
      <4>1. saver.chunk = 1
        BY <2>1 DEF DiskInv, SaverInv
      <4>2. Len(chan'[s]) = 0 /\ exit'[s] # FALSE
        BY <1>3, <2>1, <2>2
      <4>3. saver'.chunk = 1 /\ Sent(s)' = 0
        BY <2>3, <2>4, <4>1, <4>2 DEF Sent
      <4>4. /\ \A k \in 1..Len(chan'[s]) : FALSE
            /\ Sent(s)' = saver'.chunk - 1
        BY <4>2, <4>3
      <4> QED
        BY <2>3, <2>4, <4>2, <4>4 DEF PipeOf
    <3>2. ASSUME NEW t \in SaveId, t # s PROVE PipeOf(t)'
      BY <1>2, <2>4, <3>2 DEF PipeOf, Pipe
    <3> QED
      BY <3>1, <3>2 DEF PipeInv
  <2>10. FilesInv'
    <3>1. dbFile # s /\ oldFile # s
      BY <1>a, <1>1, <2>1, NoneIsNoSave DEF DiskInv, FilesInv, Busy
    <3> QED
      BY <1>1, <1>3, <2>1, <2>5, <3>1 DEF DiskInv, FilesInv
  <2> QED
    BY <2>6, <2>7, <2>8, <2>9, <2>10 DEF DiskInv
<1>6. ASSUME UNCHANGED <<chan, exit, writer, dbFile, oldFile>>, saver.pc # "rename",
             saver'.pc \notin {"rename", "send"}, saver'.pc = "none" \/ saver'.id = s,
             saver'.pc = "last" => saver.pc = "send" /\ saver.chunk = Chunks
                                   /\ saver'.chunk = Chunks,
             saver'.pc = "finito" => saver.pc = "send" /\ saver'.abort
      PROVE  DiskInv'
  <2>1. SaverInv'
    BY <1>a, <1>1, <1>6 DEF DiskInv, SaverInv
  <2>2. PipeOf(s)
    BY <1>1 DEF DiskInv, PipeInv
  <2>3. Sent(s)' = Sent(s) /\ TmpName(s)' = TmpName(s)
    BY <1>1, <1>6 DEF Sent, TmpName
  <2>4. PipeOf(s)'
    BY <1>a, <1>1, <1>6, <2>2, <2>3 DEF PipeOf
  <2> QED
    BY <1>4, <1>6, <2>1, <2>4
<1>7. CASE SaverAbort \/ SaverLoopEnd \/ SaverDone \/ SaverExit
  <2>1. UNCHANGED <<chan, exit, writer, dbFile, oldFile>> /\ saver.pc # "rename"
    BY <1>7 DEF SaverAbort, SaverLoopEnd, SaverDone, SaverExit, SaverAt, fileVars, diskVars
  <2>2. CASE SaverAbort
    <3>1. saver'.pc = "finito" /\ saver'.abort /\ saver'.id = s /\ saver.pc = "send"
      BY <1>a, <1>3, <2>2 DEF SaverAbort, SaverAt
    <3> QED
      BY <1>6, <2>1, <3>1
  <2>3. CASE SaverLoopEnd
    <3>1. saver'.pc = "last" /\ saver'.id = s /\ saver.pc = "send" /\ saver.chunk = Chunks
          /\ saver'.chunk = Chunks
      BY <1>a, <1>3, <2>3 DEF SaverLoopEnd, SaverAt
    <3> QED
      BY <1>6, <2>1, <3>1
  <2>4. CASE SaverDone
    <3>1. saver'.pc = "clr" /\ saver'.id = s
      BY <1>a, <1>3, <2>4 DEF SaverDone, SaverAt
    <3> QED
      BY <1>6, <2>1, <3>1
  <2>5. CASE SaverExit
    <3>1. saver'.pc = "none"
      BY <2>5 DEF SaverExit, NoSaver
    <3> QED
      BY <1>6, <2>1, <3>1
  <2> QED
    BY <1>7, <2>2, <2>3, <2>4, <2>5
<1>8. CASE SaverFinito
  <2>1. /\ saver.pc = "finito" /\ exit' = [exit EXCEPT ![s] = saver.abort]
        /\ saver' = [saver EXCEPT !.pc = IF saver.abort THEN "clr" ELSE "done"]
        /\ UNCHANGED <<chan, writer, dbFile, oldFile>>
    BY <1>a, <1>8 DEF SaverFinito, SaverAt, diskVars
  <2>2. saver'.pc \in {"clr", "done"} /\ saver'.id = s /\ exit'[s] = saver.abort
        /\ \A t \in SaveId : t # s => exit'[t] = exit[t]
    BY <1>a, <1>1, <1>3, <2>1
  <2>3. SaverInv'
    BY <1>a, <1>1, <2>1, <2>2 DEF DiskInv, SaverInv
  <2>4. PipeOf(s)
    BY <1>1 DEF DiskInv, PipeInv
  <2>5. Sent(s)' = Sent(s) /\ TmpName(s)' = TmpName(s)
    BY <1>1, <2>1 DEF Sent, TmpName
  <2>6. ~writer[s].last
    BY <1>a, <2>1 DEF DiskInv, SaverInv
  <2>7. PipeOf(s)'
    BY <1>a, <1>1, <1>3, <2>1, <2>2, <2>4, <2>5, <2>6 DEF PipeOf
  <2> QED
    BY <1>4, <2>1, <2>2, <2>3, <2>7
<1>9. CASE SaverSend \/ SaverLast
  <2>1. /\ saver.pc \in {"send", "last"} /\ chan' = [chan EXCEPT ![s] = Append(@, <<s, saver.chunk>>)]
        /\ UNCHANGED <<exit, writer, dbFile, oldFile>>
        /\ saver'.id = s /\ saver'.abort = saver.abort
        /\ \/ /\ saver.pc = "send" /\ saver'.pc = "send" /\ saver'.chunk = saver.chunk + 1
           \/ /\ saver.pc = "last" /\ saver'.pc = "finito"
    BY <1>a, <1>3, <1>9 DEF SaverSend, SaverLast, SaverAt, SendChunk, diskVars
  <2>2. /\ chan'[s] = Append(chan[s], <<s, saver.chunk>>) /\ chan[s] \in Seq(Chunk)
        /\ \A t \in SaveId : t # s => chan'[t] = chan[t]
    BY <1>1, <1>3, <2>1
  <2>3. SaverInv'
    BY <1>a, <1>1, <2>1, <2>2 DEF DiskInv, SaverInv
  <2>4. PipeOf(s) /\ ~writer[s].last /\ exit[s] = None
    BY <1>a, <1>1, <2>1 DEF DiskInv, PipeInv, SaverInv
  <2>5. /\ writer[s].pc \in {"create", "loop", "write", "failed"} /\ writer[s].pos \in Nat
        /\ saver.pc = "last" => saver.chunk = Chunks
    BY <1>a, <1>1, <1>3, <2>1 DEF DiskInv, SaverInv, Pipe
  <2>6. CASE writer[s].pc = "failed"
    <3>1. PipeOf(s)'
      BY <2>1, <2>4, <2>6 DEF PipeOf
    <3> QED
      BY <1>4, <2>1, <2>2, <2>3, <3>1
  <2>7. CASE writer[s].pc # "failed"
    <3>a. PICK h \in {0, 1} : h = IF writer[s].pc = "write" THEN 1 ELSE 0
      OBVIOUS
    <3>1. Sent(s) = saver.chunk - 1 /\ saver.chunk \in Nat
      BY <1>a, <1>3, <2>1, <2>4, <2>5, <2>7 DEF PipeOf
    <3>2. Len(chan[s]) \in Nat /\ Len(chan'[s]) = Len(chan[s]) + 1
          /\ chan'[s][Len(chan[s]) + 1] = <<s, saver.chunk>>
          /\ \A k \in 1..Len(chan[s]) : chan'[s][k] = chan[s][k]
      BY <2>2
    <3>3. Sent(s) = writer[s].pos + h + Len(chan[s]) /\ Sent(s)' = writer[s].pos + h + Len(chan'[s])
      BY <2>1, <3>a DEF Sent
    <3>4. Sent(s)' = saver.chunk /\ saver.chunk = writer[s].pos + h + (Len(chan[s]) + 1)
      <4>1. saver.chunk - 1 = writer[s].pos + h + Len(chan[s])
        BY <3>1, <3>3
      <4>2. saver.chunk = writer[s].pos + h + (Len(chan[s]) + 1)
        <5>1. PICK l \in Nat : l = Len(chan[s])
          BY <3>2
        <5>2. saver.chunk - 1 = writer[s].pos + h + l
          BY <4>1, <5>1
        <5>3. saver.chunk = writer[s].pos + h + (l + 1)
          BY <2>5, <3>1, <3>a, <5>2
        <5> QED
          BY <5>1, <5>3
      <4> QED
        BY <3>2, <3>3, <4>2
    <3>5. \A k \in 1..Len(chan'[s]) : chan'[s][k] = <<s, writer[s].pos + h + k>>
      <4>1. \A k \in 1..Len(chan[s]) : chan[s][k] = <<s, writer[s].pos + h + k>>
        BY <2>4, <2>5, <2>7, <3>a DEF PipeOf
      <4> QED
        BY <3>2, <3>4, <4>1, SMTT(30)
    <3>6. TmpName(s)' = TmpName(s) /\ exit'[s] # FALSE
      BY <1>1, <1>3, <2>1, <2>4 DEF TmpName
    <3>7. saver'.pc \in {"send", "last"} => Sent(s)' = saver'.chunk - 1
      BY <2>1, <3>1, <3>4
    <3>8. saver'.pc = "finito" => Sent(s)' = Chunks
      BY <2>1, <2>5, <3>4
    <3>9. PipeOf(s)'
      BY <1>1, <2>1, <2>4, <2>5, <2>7, <3>5, <3>6, <3>7, <3>8, <3>a, ZenonT(40) DEF PipeOf
    <3> QED
      BY <1>4, <2>1, <2>2, <2>3, <3>9
  <2> QED
    BY <2>6, <2>7
<1> QED
  BY <1>5, <1>7, <1>8, <1>9 DEF SaverNext

\* The writer of a save, the only one at work.
LEMMA DiskWriter ==
    ASSUME TypeInv, SaveInv, DiskInv, NEW s \in SaveId, WriterNext(s)
    PROVE  DiskInv'
<1>1. /\ mode = "up" /\ writer[s].pc \in Pipe /\ UNCHANGED <<mode, saver, snap, oldFile>>
      /\ \A t \in SaveId : t # s => chan'[t] = chan[t] /\ exit'[t] = exit[t] /\ writer'[t] = writer[t]
  <2>1. mode = "up" /\ writer[s].pc \in Pipe /\ UNCHANGED <<mode, saver, snap, oldFile>>
    BY DEF WriterNext, WriterCreate, WriterCreateFails, WriterTake, WriterExitMsg, WriterWrite,
           WriterLoopEnd, WriterRemove, WriterRename, WriterAt, saveVars, diskVars, Pipe
  <2>2. /\ chan \in [SaveId -> Seq(Chunk)] /\ exit \in [SaveId -> BOOLEAN \cup {None}]
        /\ writer \in [SaveId -> WriterState]
    BY DEF TypeInv, TypeOK
  <2>3. \A t \in SaveId : t # s => chan'[t] = chan[t] /\ exit'[t] = exit[t] /\ writer'[t] = writer[t]
    BY <2>2, SMTT(30) DEF WriterNext, WriterCreate, WriterCreateFails, WriterTake, WriterExitMsg,
           WriterWrite, WriterLoopEnd, WriterRemove, WriterRename, diskVars
  <2> QED
    BY <2>1, <2>3
<1>2. Busy(s) /\ \A t \in SaveId : t # s => ~Busy(t) /\ writer[t].pc \notin Pipe
  BY <1>1 DEF DiskInv, OneFileInv, Busy
<1>3. saver.pc # "rename" /\ (saver.pc # "none" => saver.id = s)
  <2>1. saver.pc # "none" => saver.id = s
    BY <1>2 DEF DiskInv, OneFileInv
  <2>2. saver.pc = "rename" => writer[s].pc = "none"
    BY <2>1 DEF DiskInv, NumbersInv, NoWriter
  <2> QED
    BY <1>1, <2>1, <2>2 DEF Pipe
<1>4. /\ snap[s] \in UtxoMap /\ snap[s] # None /\ TmpName(s) \in Block /\ TmpName(s)' = TmpName(s)
  <2>1. snap[s] \in UtxoMap
    BY <1>1 DEF TypeInv, RunningIsSaved, Pipe
  <2>2. snap[s] # None
    BY <2>1, UnspentDBAssumption, Zenon
  <2> QED
    BY <1>1, <2>1, <2>2 DEF UtxoMap, TmpName
<1>5. /\ saver \in SaverState /\ writer \in [SaveId -> WriterState]
      /\ chan \in [SaveId -> Seq(Chunk)] /\ exit \in [SaveId -> BOOLEAN \cup {None}]
      /\ inode \in [SaveId -> Seq(Chunk \cup {None})] /\ tmpFile \in [Block -> Inode]
      /\ dbFile \in Inode /\ oldFile \in Inode
      /\ Chunks \in Nat \ {0} /\ None \notin BOOLEAN
  BY UnspentDBAssumption DEF TypeInv, TypeOK
<1>6. PipeOf(s) /\ dbFile # s /\ oldFile # s
  BY <1>2, NoneIsNoSave DEF DiskInv, PipeInv, FilesInv
<1>7. \A b \in Block : tmpFile[b] # None => b = TmpName(s) /\ tmpFile[b] = s
  BY <1>1, <1>2 DEF DiskInv, OneFileInv
<1>8. NumbersInv'
  BY <1>1, <1>3, <1>4 DEF DiskInv, NumbersInv
<1>9. \A t \in SaveId : Busy(t)' => t = s
  BY <1>1, <1>2, <1>3 DEF Busy
<1>10. ASSUME SaverInv', PipeOf(s)',
              \A b \in Block : tmpFile'[b] # None =>
                  b = TmpName(s) /\ tmpFile'[b] = s /\ writer'[s].pc \in Pipe \ {"create"},
              \A t \in SaveId : t # s => inode'[t] = inode[t],
              \/ dbFile' = dbFile
              \/ /\ dbFile' = s /\ ~Busy(s)'
                 /\ Len(inode'[s]) = Chunks /\ \A k \in 1..Chunks : inode'[s][k] = <<s, k>>
       PROVE  DiskInv'
  <2>1. OneFileInv'
    BY <1>1, <1>3, <1>4, <1>9, <1>10 DEF OneFileInv
  <2>2. PipeInv'
    <3>1. ASSUME NEW t \in SaveId, t # s PROVE PipeOf(t)'
      BY <1>1, <1>2, <3>1 DEF PipeOf, Pipe
    <3> QED
      BY <1>10, <3>1 DEF PipeInv
  <2>3. FilesInv'
    BY <1>1, <1>4, <1>5, <1>6, <1>9, <1>10, SMTT(30) DEF DiskInv, FilesInv
  <2> QED
    BY <1>8, <1>10, <2>1, <2>2, <2>3 DEF DiskInv
<1>11. ASSUME saver.pc \in {"send", "last", "finito"} =>
                 /\ exit'[s] = None /\ ~writer'[s].last /\ ~writer'[s].abort
                 /\ writer'[s].pc \in (Pipe \ {"exit"}) \cup {"failed"},
              exit'[s] # None => ~writer'[s].last
       PROVE  SaverInv'
  BY <1>1, <1>3, <1>11 DEF DiskInv, SaverInv
<1>12. saver.pc \in {"send", "last", "finito"} =>
          /\ exit[s] = None /\ ~writer[s].last /\ ~writer[s].abort
          /\ writer[s].pc \in (Pipe \ {"exit"}) \cup {"failed"}
  BY <1>3 DEF DiskInv, SaverInv
<1>13. exit[s] # None => ~writer[s].last
  BY DEF DiskInv, SaverInv
<1>14. CASE WriterCreate(s)
  <2>1. /\ writer[s].pc = "create" /\ tmpFile' = [tmpFile EXCEPT ![TmpName(s)] = s]
        /\ inode' = [inode EXCEPT ![s] = <<>>]
        /\ writer' = [writer EXCEPT ![s].pc = "loop", ![s].node = s]
        /\ UNCHANGED <<chan, exit, dbFile>>
    BY <1>4, <1>7, <1>14 DEF WriterCreate, WriterAt
  <2>2. /\ writer'[s].pc = "loop" /\ writer'[s].node = s /\ writer'[s].pos = writer[s].pos
        /\ writer'[s].last = writer[s].last /\ writer'[s].abort = writer[s].abort
    BY <1>5, <2>1
  <2>3. inode'[s] = <<>> /\ tmpFile'[TmpName(s)] = s /\ Len(inode'[s]) = 0
    BY <1>4, <1>5, <2>1
  <2>4. SaverInv'
    BY <1>11, <1>12, <1>13, <2>1, <2>2 DEF Pipe
  <2>5. writer[s].pos = 0 /\ ~writer[s].last
    BY <1>6, <2>1 DEF PipeOf
  <2>6. Sent(s)' = Sent(s)
    BY <2>1, <2>2 DEF Sent
  <2>7. PipeOf(s)'
    <3>1. \A k \in 1..writer'[s].pos : FALSE
      BY <2>2, <2>5
    <3> QED
      BY <1>1, <1>4, <1>6, <2>1, <2>2, <2>3, <2>5, <2>6, <3>1 DEF PipeOf
  <2>8. \A b \in Block : tmpFile'[b] # None => b = TmpName(s) /\ tmpFile'[b] = s
    BY <1>5, <1>7, <2>1
  <2> QED
    BY <1>5, <1>10, <2>1, <2>2, <2>4, <2>7, <2>8 DEF Pipe
<1>15. CASE WriterCreateFails(s)
  <2>1. /\ writer[s].pc = "create" /\ writer' = [writer EXCEPT ![s].pc = "failed"]
        /\ UNCHANGED <<chan, exit, inode, tmpFile, dbFile>>
    BY <1>15 DEF WriterCreateFails, WriterAt, diskVars
  <2>2. /\ writer'[s].pc = "failed" /\ writer'[s].pos = writer[s].pos
        /\ writer'[s].last = writer[s].last /\ writer'[s].abort = writer[s].abort
    BY <1>5, <2>1
  <2>3. SaverInv'
    BY <1>11, <1>12, <1>13, <2>1, <2>2 DEF Pipe
  <2>4. PipeOf(s)'
    BY <1>6, <2>1, <2>2 DEF PipeOf
  <2>5. \A b \in Block : tmpFile[b] = None
    BY <1>1, <1>2, <2>1 DEF DiskInv, OneFileInv
  <2> QED
    BY <1>10, <2>1, <2>3, <2>4, <2>5
<1>16. CASE WriterLoopEnd(s)
  <2>1. /\ writer[s].pc = "loop" /\ writer[s].last /\ chan[s] = <<>>
        /\ writer' = [writer EXCEPT ![s].pc = "exit"]
        /\ UNCHANGED <<chan, exit, inode, tmpFile, dbFile>>
    BY <1>16 DEF WriterLoopEnd, WriterAt, diskVars
  <2>2. /\ writer'[s].pc = "exit" /\ writer'[s].pos = writer[s].pos /\ writer'[s].node = writer[s].node
        /\ writer'[s].last = writer[s].last /\ writer'[s].abort = writer[s].abort
        /\ writer[s].pos \in Nat
    BY <1>5, <2>1
  <2>3. SaverInv'
    BY <1>11, <1>12, <1>13, <2>1, <2>2 DEF Pipe
  <2>4. Sent(s) = Chunks /\ Len(chan[s]) = 0
    BY <1>6, <2>1 DEF PipeOf
  <2>5. writer[s].pos = Chunks
    BY <2>1, <2>2, <2>4 DEF Sent
  <2>6. PipeOf(s)'
    BY <1>1, <1>4, <1>6, <2>1, <2>2, <2>5 DEF PipeOf
  <2> QED
    BY <1>7, <1>10, <2>1, <2>2, <2>3, <2>6 DEF Pipe
<1>17. CASE WriterRemove(s) \/ WriterRename(s)
  <2>1. /\ writer[s].pc = "exit" /\ tmpFile' = [tmpFile EXCEPT ![TmpName(s)] = None]
        /\ writer' = [writer EXCEPT ![s] = [NoWriter EXCEPT !.pc = "done"]]
        /\ UNCHANGED <<chan, exit, inode>>
        /\ dbFile' = dbFile \/ (~writer[s].abort /\ dbFile' = tmpFile[TmpName(s)])
    BY <1>17 DEF WriterRemove, WriterRename, WriterAt
  <2>2. writer'[s].pc = "done" /\ ~writer'[s].last
    BY <1>5, <2>1 DEF NoWriter
  <2>3. SaverInv'
    BY <1>11, <1>12, <2>1, <2>2 DEF Pipe
  <2>4. PipeOf(s)'
    BY <2>2 DEF PipeOf
  <2>5. ~Busy(s)'
    BY <1>1, <1>3, <2>2 DEF Busy, Pipe
  <2>6. tmpFile[TmpName(s)] = s /\ Len(inode[s]) = writer[s].pos
        /\ (\A k \in 1..writer[s].pos : inode[s][k] = <<s, k>>)
        /\ (~writer[s].abort => writer[s].pos = Chunks)
    BY <1>6, <2>1 DEF PipeOf
  <2>7. \A b \in Block : tmpFile'[b] = None
    BY <1>5, <1>7, <2>1
  <2> QED
    BY <1>10, <2>1, <2>3, <2>4, <2>5, <2>6, <2>7
<1>18. ASSUME writer[s].pc = "loop", exit[s] = TRUE, exit'[s] = None,
              writer' = [writer EXCEPT ![s] = [@ EXCEPT !.pc = "exit", !.abort = TRUE]],
              UNCHANGED <<inode, tmpFile, dbFile>>
       PROVE  DiskInv'
  <2>1. /\ writer'[s].pc = "exit" /\ writer'[s].abort /\ writer'[s].pos = writer[s].pos
        /\ writer'[s].node = writer[s].node /\ writer'[s].last = writer[s].last
    BY <1>5, <1>18
  <2>2. SaverInv'
    BY <1>5, <1>11, <1>12, <1>18
  <2>3. PipeOf(s)'
    BY <1>1, <1>4, <1>6, <1>18, <2>1 DEF PipeOf
  <2> QED
    BY <1>7, <1>10, <1>18, <2>1, <2>2, <2>3 DEF Pipe
<1>19. CASE WriterTake(s)
  <2>1. /\ writer[s].pc = "loop" /\ chan[s] # <<>> /\ chan' = [chan EXCEPT ![s] = Tail(@)]
        /\ exit' = [exit EXCEPT ![s] = None] /\ UNCHANGED <<inode, tmpFile, dbFile>>
        /\ writer' = [writer EXCEPT ![s] =
                IF exit[s] = TRUE THEN [@ EXCEPT !.pc = "exit", !.abort = TRUE]
                ELSE [@ EXCEPT !.pc = "write", !.held = Head(chan[s]),
                               !.last = writer[s].last \/ exit[s] = FALSE]]
    BY <1>19 DEF WriterTake, WriterAt, diskVars
  <2>2. exit'[s] = None /\ chan'[s] = Tail(chan[s]) /\ chan[s] \in Seq(Chunk)
    BY <1>5, <2>1
  <2>3. CASE exit[s] = TRUE
    BY <1>18, <2>1, <2>2, <2>3
  <2>4. CASE exit[s] # TRUE
    <3>1. /\ writer'[s].pc = "write" /\ writer'[s].held = Head(chan[s])
          /\ writer'[s].pos = writer[s].pos /\ writer'[s].node = writer[s].node
          /\ writer'[s].abort = writer[s].abort /\ writer[s].pos \in Nat
          /\ writer'[s].last <=> writer[s].last \/ exit[s] = FALSE
      BY <1>5, <2>1, <2>4
    <3>2. PICK l \in Nat : l + 1 = Len(chan[s])
      <4>1. Len(chan[s]) \in Nat /\ Len(chan[s]) # 0
        BY <2>1, <2>2
      <4>2. Len(chan[s]) - 1 \in Nat
        BY <4>1
      <4> QED
        BY <4>1, <4>2
    <3>3. Len(chan'[s]) = l /\ Head(chan[s]) = chan[s][1]
          /\ \A k \in 1..l : chan'[s][k] = chan[s][k + 1]
      BY <2>2, <3>2
    <3>4. \A k \in 1..(l + 1) : chan[s][k] = <<s, writer[s].pos + 0 + k>>
      BY <1>6, <2>1, <3>2 DEF PipeOf
    <3>5. \A k \in 1..l : chan'[s][k] = <<s, writer[s].pos + 1 + k>>
      <4> SUFFICES ASSUME NEW k \in 1..l PROVE chan'[s][k] = <<s, writer[s].pos + 1 + k>>
        OBVIOUS
      <4>1. k + 1 \in 1..(l + 1) /\ writer[s].pos + 0 + (k + 1) = writer[s].pos + 1 + k
        BY <3>1
      <4> QED
        BY <3>3, <3>4, <4>1
    <3>6. writer'[s].held = <<s, writer[s].pos + 1>>
      <4>1. 1 \in 1..(l + 1) /\ writer[s].pos + 0 + 1 = writer[s].pos + 1
        BY <3>1
      <4> QED
        BY <3>1, <3>3, <3>4, <4>1
    <3>7. Sent(s) = writer[s].pos + 0 + (l + 1) /\ Sent(s)' = writer[s].pos + 1 + l
      BY <2>1, <3>1, <3>2, <3>3 DEF Sent
    <3>8. Sent(s)' = Sent(s)
      BY <3>1, <3>7
    <3>9. SaverInv'
      BY <1>5, <1>11, <1>12, <2>2, <3>1 DEF Pipe
    <3>10. PipeOf(s)'
      BY <1>1, <1>4, <1>5, <1>6, <2>1, <2>2, <3>1, <3>3, <3>5, <3>6, <3>8, SMTT(30) DEF PipeOf
    <3> QED
      BY <1>7, <1>10, <2>1, <3>1, <3>9, <3>10 DEF Pipe
  <2> QED
    BY <2>3, <2>4
<1>20. CASE WriterExitMsg(s)
  <2>1. /\ writer[s].pc = "loop" /\ exit[s] # None /\ exit' = [exit EXCEPT ![s] = None]
        /\ UNCHANGED <<chan, inode, tmpFile, dbFile>>
        /\ writer' = [writer EXCEPT ![s] =
                IF exit[s] = TRUE THEN [@ EXCEPT !.pc = "exit", !.abort = TRUE]
                ELSE [@ EXCEPT !.last = TRUE]]
    BY <1>20 DEF WriterExitMsg, WriterAt, diskVars
  <2>2. exit'[s] = None
    BY <1>5, <2>1
  <2>3. CASE exit[s] = TRUE
    BY <1>18, <2>1, <2>2, <2>3
  <2>4. CASE exit[s] # TRUE
    <3>1. /\ writer'[s].pc = "loop" /\ writer'[s].last
          /\ writer'[s].pos = writer[s].pos /\ writer'[s].node = writer[s].node
          /\ writer'[s].abort = writer[s].abort
      BY <1>5, <2>1, <2>4
    <3>2. exit[s] = FALSE
      BY <1>5, <2>1, <2>4
    <3>3. Sent(s) = Chunks /\ Sent(s)' = Chunks
      BY <1>6, <2>1, <3>1, <3>2 DEF PipeOf, Sent
    <3>4. SaverInv'
      BY <1>11, <1>12, <2>1, <2>2
    <3>5. PipeOf(s)'
      BY <1>1, <1>4, <1>6, <1>12, <2>1, <2>2, <3>1, <3>3 DEF PipeOf
    <3> QED
      BY <1>7, <1>10, <2>1, <3>1, <3>4, <3>5 DEF Pipe
  <2> QED
    BY <2>3, <2>4
<1>21. CASE WriterWrite(s)
  <2> DEFINE w == writer[s]
             n == IF w.pos + 1 > Len(inode[s]) THEN w.pos + 1 ELSE Len(inode[s])
  <2>1. w.pc = "write" /\ w.node = s /\ w.pos \in Nat /\ Len(inode[s]) = w.pos /\ n = w.pos + 1
        /\ w.held = <<s, w.pos + 1>> /\ \A k \in 1..w.pos : inode[s][k] = <<s, k>>
    BY <1>5, <1>6, <1>21 DEF WriterWrite, WriterAt, PipeOf
  <2>2. /\ inode' = [inode EXCEPT ![s] =
                [i \in 1..n |-> IF i = w.pos + 1 THEN w.held
                                ELSE IF i <= Len(inode[s]) THEN inode[s][i] ELSE None]]
        /\ writer' = [writer EXCEPT ![s].pc = "loop", ![s].held = None, ![s].pos = @ + 1]
        /\ UNCHANGED <<chan, exit, tmpFile, dbFile>>
    BY <1>5, <1>21, <2>1 DEF WriterWrite
  <2>3. inode'[s] = [i \in 1..(w.pos + 1) |-> IF i = w.pos + 1 THEN w.held
                                ELSE IF i <= Len(inode[s]) THEN inode[s][i] ELSE None]
    BY <1>5, <2>1, <2>2
  <2>4. \A k \in 1..(w.pos + 1) : inode'[s][k] = <<s, k>>
    BY <2>1, <2>3
  <2>5. Len(inode'[s]) = w.pos + 1
    BY <2>1, <2>3
  <2>6. /\ writer'[s].pc = "loop" /\ writer'[s].pos = w.pos + 1 /\ writer'[s].node = s
        /\ writer'[s].last = w.last /\ writer'[s].abort = w.abort
    BY <1>5, <2>1, <2>2
  <2>7. SaverInv'
    BY <1>11, <1>12, <1>13, <2>2, <2>6 DEF Pipe
  <2>8. Sent(s)' = Sent(s)
    <3>1. PICK l \in Nat : l = Len(chan[s])
      BY <1>5
    <3>2. Sent(s) = w.pos + 1 + l /\ Sent(s)' = w.pos + 1 + 0 + l
      BY <2>1, <2>2, <2>6, <3>1 DEF Sent
    <3> QED
      BY <2>1, <3>2
  <2>9. \A k \in 1..Len(chan[s]) : chan[s][k] = <<s, w.pos + 1 + k>> /\ w.pos + 1 + 0 + k = w.pos + 1 + k
    BY <1>6, <2>1 DEF PipeOf
  <2>10. PipeOf(s)'
    <3>1. /\ Len(inode'[s]) = writer'[s].pos
          /\ \A k \in 1..writer'[s].pos : inode'[s][k] = <<s, k>>
      BY <2>4, <2>5, <2>6, Zenon
    <3>2. \A k \in 1..Len(chan'[s]) : chan'[s][k] = <<s, writer'[s].pos + 0 + k>>
      BY <2>2, <2>6, <2>9
    <3>3. ~writer'[s].abort /\ tmpFile'[TmpName(s)] = s
      BY <1>6, <2>1, <2>2, <2>6 DEF PipeOf
    <3>4. /\ saver.id = s /\ saver.pc \in {"send", "last"} => Sent(s) = saver.chunk - 1
          /\ saver.id = s /\ saver.pc = "finito" /\ ~saver.abort => Sent(s) = Chunks
          /\ exit[s] = FALSE \/ w.last => Sent(s) = Chunks
      BY <1>6, <2>1 DEF PipeOf
    <3> HIDE DEF w
    <3> QED
      BY <1>1, <1>4, <2>2, <2>6, <2>8, <3>1, <3>2, <3>3, <3>4 DEF PipeOf
  <2> QED
    BY <1>5, <1>7, <1>10, <2>2, <2>6, <2>7, <2>10 DEF Pipe
<1> QED
  BY <1>14, <1>15, <1>16, <1>17, <1>19, <1>20, <1>21 DEF WriterNext

\* Every step keeps the files in order.
LEMMA DiskNext ==
    ASSUME DiskKeepsUp, TypeInv, SaveInv, DiskInv, [Next]_vars
    PROVE  DiskInv'
<1>1. CASE NewUnspentDb
  BY <1>1, DiskLoad
<1>2. CASE Crash \/ CloseDone
  BY <1>2, DiskStop DEF Crash, CloseDone
<1>3. CASE Idle \/ SaveCommand
  BY <1>3, DiskStartSave DEF Idle, SaveCommand, MainFree
<1>4. CASE Close
  <2>1. CASE DirtyDB /\ ~WritingInProgress
    BY <1>4, <2>1, DiskStartSave DEF Close, MainFree
  <2>2. CASE ~(DirtyDB /\ ~WritingInProgress)
    BY <1>4, <2>2, DiskMain DEF Close, saveVars
  <2> QED
    BY <2>1, <2>2
<1>5. CASE AbortWriting \/ UndoBlockTxs \/ \E b \in Block : CommitBlockTxs(b)
  BY <1>5, DiskMain DEF AbortWriting, UndoBlockTxs, CommitBlockTxs, BeginAborting
<1>6. CASE AbortWait \/ CommitUndoFile \/ CommitApply \/ UndoApply \/ UndoPanic
  BY <1>6, DiskMain DEF AbortWait, CommitUndoFile, CommitApply, UndoApply, UndoPanic, saveVars
<1>7. CASE UNCHANGED vars
  BY <1>7, DiskMain DEF vars, saveVars
<1> QED
  BY <1>1, <1>2, <1>3, <1>4, <1>5, <1>6, <1>7, DiskSaver, DiskWriter DEF Next, MainBegin, MainWork

\* A snapshot that is there can be loaded.
LEMMA LoadableIs == TypeInv /\ FilesInv => (Loadable <=> dbFile # None \/ oldFile # None)
<1> SUFFICES ASSUME TypeInv, FilesInv PROVE Loadable <=> dbFile # None \/ oldFile # None
  OBVIOUS
<1>1. dbFile \in Inode /\ oldFile \in Inode
  BY DEF TypeInv, TypeOK
<1>2. \A n \in {dbFile, oldFile} \ {None} : IsWhole(n)
  BY <1>1, ReadsBack DEF FilesInv
<1> QED
  BY <1>2 DEF Loadable

\* save() renames UTXO.db before its successor exists, an aborted writer removes
\* its file and a crash may come at any time; yet as long as no save overtakes the
\* file of the one before, a node that once had a snapshot always has a whole one.
THEOREM SnapshotStays ==
    ASSUME DiskKeepsUp
    PROVE  Spec => SnapshotSurvives
<1>1. Init => TypeInv /\ SaveInv /\ DiskInv
  BY TypeInit, SaveInit, DiskInit
<1>2. TypeInv /\ SaveInv /\ DiskInv /\ [Next]_vars => (TypeInv /\ SaveInv /\ DiskInv)'
  BY TypeNext, SaveNext, DiskNext
<1>3. TypeInv /\ DiskInv /\ (TypeInv /\ DiskInv)' /\ [Next]_vars => [Loadable => Loadable']_vars
  <2> SUFFICES ASSUME TypeInv, DiskInv, (TypeInv /\ DiskInv)', Next, Loadable PROVE Loadable'
    BY DEF vars, Loadable, IsWhole, diskVars
  <2>1. dbFile # None \/ oldFile # None
    BY LoadableIs DEF DiskInv
  <2>2. dbFile' # None \/ oldFile' # None
    BY <2>1 DEF Next, NewUnspentDb, Crash, Stop, MainBegin, Idle, SaveCommand, AbortWriting,
       UndoBlockTxs, CommitBlockTxs, BeginAborting, Close, MainWork, AbortWait, CommitUndoFile,
       CommitApply, UndoApply, UndoPanic, CloseDone, SaverNext, SaverRename, SaverSend, SaverAbort,
       SaverLoopEnd, SaverLast, SaverFinito, SaverDone, SaverExit, WriterNext, WriterCreate,
       WriterCreateFails, WriterTake, WriterExitMsg, WriterWrite, WriterLoopEnd, WriterRemove,
       WriterRename, diskVars
  <2>3. (TypeInv /\ FilesInv)' => (Loadable <=> dbFile # None \/ oldFile # None)'
    BY LoadableIs, PTL
  <2> QED
    BY <2>2, <2>3 DEF DiskInv
<1> QED
  BY <1>1, <1>2, <1>3, PTL DEF Spec, SnapshotSurvives

-----------------------------------------------------------------------------
(* What Close leaves behind *)

LEMMA FlushInit == Init => FlushInv
BY DEF Init, FlushInv, OnDisk, MapAt, NoSaver, NoWriter, FreeMain, Busy, Pipe

\* What the main thread does before, between and after its changes of the map.
LEMMA FlushMain ==
    ASSUME TypeInv, SaveInv, FlushInv, UNCHANGED <<saver, fileVars, diskVars>>,
           mode' \in {mode, "panic"}, main'.pc = "close" => main.pc = "close",
           \/ UNCHANGED <<mem, DirtyDB>>
           \/ DirtyDB' = TRUE /\ saver.pc = "none" /\ main'.pc # "close",
           saver.abort => "wait" \in main'.todo
    PROVE  FlushInv'
<1>1. UNCHANGED <<saver, chan, exit, writer, snap, inode, dbFile, oldFile>>
  BY DEF fileVars, diskVars
<1>2. /\ OnDisk' = OnDisk /\ (Failed' <=> Failed)
      /\ \A s \in SaveId : (Busy(s)' <=> Busy(s)) /\ (Coming(s)' <=> Coming(s))
  BY <1>1 DEF OnDisk, Failed, Busy, Coming, MapAt
<1>3. CASE UNCHANGED <<mem, DirtyDB>>
  <2>1. mode' = "up" => mode = "up"
    OBVIOUS
  <2>2. saver.pc = "done" => saver.id \in SaveId
    BY DEF TypeInv, RunningIsSaved
  <2> QED
    BY <1>1, <1>2, <1>3, <2>1, <2>2 DEF FlushInv
<1>4. CASE DirtyDB' = TRUE /\ saver.pc = "none" /\ main'.pc # "close"
  BY <1>1, <1>4 DEF FlushInv
<1> QED
  BY <1>3, <1>4

\* A save starts: the map is not on its way to the disk by another one.
LEMMA FlushStartSave ==
    ASSUME DiskKeepsUp, TypeInv, SaveInv, DiskInv, FlushInv, StartSave, mode = "up",
           "wait" \notin main.todo, UNCHANGED <<mode, mem, DirtyDB, diskVars>>
    PROVE  FlushInv'
<1>a. PICK n : n = NextSave
  OBVIOUS
<1>1. /\ n \in SaveId /\ snap[n] = None /\ NoFileOpen /\ saver.pc = "none"
  BY <1>a, FreshNumber DEF StartSave, SaveInv, DiskInv
<1>2. /\ saver' = [pc |-> "rename", id |-> n, chunk |-> 1, abort |-> FALSE]
      /\ snap' = [snap EXCEPT ![n] = mem] /\ UNCHANGED <<chan, exit, writer, dbFile, oldFile>>
  BY <1>a DEF StartSave, diskVars
<1>3. \A s \in SaveId : ~Busy(s) /\ (Busy(s)' => s = n)
  BY <1>1, <1>2 DEF Busy, NoFileOpen, Pipe
<1>4. dbFile # n /\ oldFile # n
  BY <1>1, NoneIsNoSave DEF DiskInv, FilesInv
<1>5. snap \in [SaveId -> UtxoMap \cup {None}] /\ dbFile \in Inode /\ oldFile \in Inode
  BY DEF TypeInv, TypeOK
<1>6. OnDisk' = OnDisk /\ snap'[n] = mem
  BY <1>1, <1>2, <1>4, <1>5 DEF OnDisk, MapAt
<1>7. ~DirtyDB => Failed \/ OnDisk = mem
  BY <1>3 DEF FlushInv, Coming
<1>8. Failed' <=> Failed
  BY <1>2 DEF Failed
<1> QED
  BY <1>1, <1>2, <1>3, <1>6, <1>7, <1>8 DEF FlushInv

\* save() tells its writer that all was sent before it clears DirtyDB.
LEMMA FlushSaver ==
    ASSUME TypeInv, SaveInv, DiskInv, FlushInv, SaverNext
    PROVE  FlushInv'
<1>a. PICK s : s = saver.id
  OBVIOUS
<1>1. /\ mode = "up" /\ saver.pc # "none" /\ UNCHANGED <<mode, mem, main, snap>>
  BY DEF SaverNext, SaverRename, SaverSend, SaverAbort, SaverLoopEnd, SaverLast, SaverFinito,
         SaverDone, SaverExit, SaverAt, fileVars, mainVars
<1>2. s \in SaveId /\ saver \in SaverState /\ writer \in [SaveId -> WriterState]
      /\ exit \in [SaveId -> BOOLEAN \cup {None}] /\ dbFile \in Inode /\ None \notin BOOLEAN
      /\ DirtyDB \in BOOLEAN
  BY <1>a, <1>1, UnspentDBAssumption DEF TypeInv, TypeOK, RunningIsSaved
<1>3. \A t \in SaveId : Busy(t) => t = s
  BY <1>a, <1>1 DEF DiskInv, OneFileInv
<1>4. saver.abort => main.pc # "close"
  BY DEF FlushInv, SaveInv
<1>5. saver.pc \in {"rename", "send", "last", "finito"} => ~Coming(s)
  BY <1>a, <1>2 DEF DiskInv, SaverInv, Coming
<1>6. ASSUME UNCHANGED <<writer, dbFile, oldFile>>, saver.pc # "rename", saver'.pc # "rename"
      PROVE  OnDisk' = OnDisk /\ (Failed' <=> Failed) /\ \A t \in SaveId : Busy(t)' <=> Busy(t)
  BY <1>1, <1>6 DEF OnDisk, Failed, Busy, MapAt
<1>7. CASE SaverRename
  <2>1. /\ saver.pc = "rename" /\ saver' = [saver EXCEPT !.pc = "send"]
        /\ writer' = [writer EXCEPT ![s] = [NoWriter EXCEPT !.pc = "create"]]
        /\ oldFile' = (IF dbFile # None THEN dbFile ELSE oldFile) /\ dbFile' = None
        /\ UNCHANGED <<exit, DirtyDB>>
    BY <1>a, <1>7 DEF SaverRename, SaverAt, mainVars
  <2>2. OnDisk' = OnDisk
    BY <1>1, <2>1 DEF OnDisk, MapAt
  <2>3. \A t \in SaveId : Busy(t)' => t = s
    BY <1>2, <1>3, <2>1 DEF Busy
  <2>4. Busy(s)
    BY <1>a, <2>1 DEF Busy
  <2>5. ~DirtyDB => Failed \/ OnDisk = mem
    BY <1>1, <1>3, <1>5, <2>1 DEF FlushInv, Coming
  <2>6. saver'.pc = "send" /\ saver'.abort = saver.abort
    BY <1>2, <2>1
  <2>7. Failed => Failed'
    <3>1. \A t \in SaveId : writer[t].pc = "failed" => t # s
      BY <1>a, <2>1 DEF DiskInv, NumbersInv, NoWriter
    <3> QED
      BY <1>2, <2>1, <3>1 DEF Failed
  <2> QED
    BY <1>1, <2>1, <2>2, <2>3, <2>4, <2>5, <2>6, <2>7 DEF FlushInv
<1>8. CASE SaverSend \/ SaverLoopEnd \/ SaverLast \/ SaverAbort
  <2>1. /\ UNCHANGED <<exit, writer, dbFile, oldFile, DirtyDB>>
        /\ saver.pc \in {"send", "last"} /\ saver'.pc \in {"send", "last", "finito"}
        /\ saver'.abort = saver.abort \/ (abortwritingnow = 1 /\ saver'.pc = "finito")
    BY <1>2, <1>8 DEF SaverSend, SaverLoopEnd, SaverLast, SaverAbort, SaverAt, mainVars, fileVars,
                      diskVars
  <2>2. OnDisk' = OnDisk /\ (Failed' <=> Failed) /\ \A t \in SaveId : (Busy(t)' <=> Busy(t)) /\ (Coming(t)' <=> Coming(t))
    BY <1>6, <2>1 DEF Coming
  <2>3. saver'.abort => saver.abort \/ "wait" \in main.todo
    BY <2>1 DEF SaveInv
  <2> QED
    BY <1>1, <2>1, <2>2, <2>3 DEF FlushInv
<1>9. CASE SaverFinito
  <2>1. /\ saver.pc = "finito" /\ exit' = [exit EXCEPT ![s] = saver.abort]
        /\ saver' = [saver EXCEPT !.pc = IF saver.abort THEN "clr" ELSE "done"]
        /\ UNCHANGED <<writer, dbFile, oldFile, DirtyDB>>
    BY <1>a, <1>9 DEF SaverFinito, SaverAt, diskVars, mainVars
  <2>2. /\ saver'.pc = (IF saver.abort THEN "clr" ELSE "done") /\ saver'.id = s
        /\ saver'.abort = saver.abort /\ exit'[s] = saver.abort /\ saver.abort \in BOOLEAN
    BY <1>a, <1>2, <2>1
  <2>3. OnDisk' = OnDisk /\ (Failed' <=> Failed) /\ \A t \in SaveId : Busy(t)' <=> Busy(t)
    BY <1>6, <2>1, <2>2
  <2>4. ~DirtyDB => Failed \/ OnDisk = mem
    BY <1>1, <1>3, <1>5, <2>1 DEF FlushInv, Coming
  <2>5. ~saver.abort => Failed \/ Coming(s)'
    <3>1. (Failed \/ Busy(s)) /\ ~writer[s].abort
      BY <1>a, <1>2, <2>1 DEF DiskInv, SaverInv, Busy, Failed
    <3> QED
      BY <1>2, <2>1, <2>2, <2>3, <3>1 DEF Coming
  <2>6. CASE saver.abort
    BY <1>1, <1>4, <2>1, <2>2, <2>3, <2>4, <2>6 DEF FlushInv
  <2>7. CASE ~saver.abort
    BY <1>1, <2>1, <2>2, <2>3, <2>4, <2>5, <2>7 DEF FlushInv
  <2> QED
    BY <2>6, <2>7
<1>10. CASE SaverDone
  <2>1. /\ saver.pc = "done" /\ saver' = [saver EXCEPT !.pc = "clr"] /\ DirtyDB' = FALSE
        /\ UNCHANGED <<exit, writer, dbFile, oldFile>>
    BY <1>10 DEF SaverDone, SaverAt, fileVars, diskVars
  <2>2. saver'.pc = "clr" /\ saver'.abort = saver.abort
    BY <1>2, <2>1
  <2>3. OnDisk' = OnDisk /\ (Failed' <=> Failed) /\ \A t \in SaveId : (Busy(t)' <=> Busy(t)) /\ (Coming(t)' <=> Coming(t))
    BY <1>6, <2>1, <2>2 DEF Coming
  <2>4. snap[s] = mem /\ (Failed \/ Coming(s) \/ dbFile = s)
    BY <1>a, <2>1 DEF SaveInv, FlushInv
  <2>5. dbFile = s => OnDisk = mem
    BY <1>2, <2>4, NoneIsNoSave DEF OnDisk
  <2> QED
    BY <1>1, <1>2, <1>3, <2>1, <2>2, <2>3, <2>4, <2>5 DEF FlushInv
<1>11. CASE SaverExit
  <2>1. /\ saver.pc = "clr" /\ saver' = NoSaver /\ UNCHANGED <<exit, writer, dbFile, oldFile, DirtyDB>>
    BY <1>11 DEF SaverExit, SaverAt, fileVars, diskVars, mainVars
  <2>2. saver'.pc = "none" /\ ~saver'.abort
    BY <2>1 DEF NoSaver
  <2>3. OnDisk' = OnDisk /\ (Failed' <=> Failed) /\ \A t \in SaveId : (Busy(t)' <=> Busy(t)) /\ (Coming(t)' <=> Coming(t))
    BY <1>6, <2>1, <2>2 DEF Coming
  <2>4. main.pc = "close" => ~DirtyDB
    BY <1>4, <2>1 DEF FlushInv
  <2> QED
    BY <1>1, <2>1, <2>2, <2>3, <2>4 DEF FlushInv
<1> QED
  BY <1>7, <1>8, <1>9, <1>10, <1>11 DEF SaverNext

\* The writer brings the map to the disk, unless it is aborted.
LEMMA FlushWriter ==
    ASSUME TypeInv, SaveInv, DiskInv, FlushInv, NEW s \in SaveId, WriterNext(s)
    PROVE  FlushInv'
<1>1. /\ mode = "up" /\ writer[s].pc \in Pipe
      /\ UNCHANGED <<mode, saver, snap, oldFile, mem, DirtyDB, main>>
  BY DEF WriterNext, WriterCreate, WriterCreateFails, WriterTake, WriterExitMsg, WriterWrite,
         WriterLoopEnd, WriterRemove, WriterRename, WriterAt, saveVars, diskVars, mainVars, Pipe
<1>2. writer \in [SaveId -> WriterState] /\ exit \in [SaveId -> BOOLEAN \cup {None}]
      /\ None \notin BOOLEAN
  BY UnspentDBAssumption DEF TypeInv, TypeOK
<1>3. \A t \in SaveId : t # s => writer'[t] = writer[t]
  BY <1>2, SMTT(30) DEF WriterNext, WriterCreate, WriterCreateFails, WriterTake, WriterExitMsg,
     WriterWrite, WriterLoopEnd, WriterRemove, WriterRename
<1>4. Busy(s) /\ \A t \in SaveId : (Busy(t) => t = s) /\ (Busy(t)' => t = s)
  <2>1. Busy(s) /\ \A t \in SaveId : Busy(t) => t = s
    BY <1>1 DEF DiskInv, OneFileInv, Busy
  <2>2. \A t \in SaveId : Busy(t)' => t = s
    BY <1>1, <1>3, <2>1 DEF Busy
  <2> QED
    BY <2>1, <2>2
<1>5. PipeOf(s) /\ dbFile # s /\ (exit[s] # None => ~writer[s].last)
  BY <1>4, NoneIsNoSave DEF DiskInv, PipeInv, FilesInv, SaverInv
<1>6. dbFile' = dbFile \/ dbFile' = s
  <2>1. writer[s].pc = "exit" => tmpFile[TmpName(s)] = s
    BY <1>5 DEF PipeOf
  <2> QED
    BY <2>1 DEF WriterNext, WriterCreate, WriterCreateFails, WriterTake, WriterExitMsg, WriterWrite,
       WriterLoopEnd, WriterRemove, WriterRename, WriterAt, diskVars
<1>7. dbFile' = s => OnDisk' = snap[s]
  BY <1>1, NoneIsNoSave DEF OnDisk
<1>8. dbFile' = dbFile => OnDisk' = OnDisk
  BY <1>1 DEF OnDisk, MapAt
<1>9. Coming(s) => Failed' \/ Coming(s)' \/ dbFile' = s
  <2> SUFFICES ASSUME Coming(s) PROVE Failed' \/ Coming(s)' \/ dbFile' = s
    OBVIOUS
  <2>1. ~writer[s].abort /\ (exit[s] = FALSE \/ writer[s].last)
    BY DEF Coming
  <2>2. exit[s] # TRUE
    BY <1>2, <1>5, <2>1
  <2>3. CASE WriterCreate(s)
    <3>1. /\ writer'[s].pc = "loop" /\ writer'[s].last = writer[s].last
          /\ writer'[s].abort = writer[s].abort /\ exit' = exit
      BY <1>2, <2>3 DEF WriterCreate
    <3> QED
      BY <2>1, <3>1 DEF Coming, Busy, Pipe
  <2>4. CASE WriterCreateFails(s)
    BY <1>2, <2>4 DEF WriterCreateFails, Failed
  <2>5. CASE WriterTake(s)
    <3>1. writer' = [writer EXCEPT ![s] = [@ EXCEPT !.pc = "write", !.held = Head(chan[s]),
                                                    !.last = writer[s].last \/ exit[s] = FALSE]]
      BY <2>2, <2>5 DEF WriterTake
    <3>2. writer'[s].pc = "write" /\ writer'[s].last /\ writer'[s].abort = writer[s].abort
      BY <1>2, <2>1, <3>1
    <3> QED
      BY <2>1, <3>2 DEF Coming, Busy, Pipe
  <2>9. CASE WriterExitMsg(s)
    <3>1. writer' = [writer EXCEPT ![s] = [@ EXCEPT !.last = TRUE]] /\ writer[s].pc = "loop"
      BY <2>2, <2>9 DEF WriterExitMsg, WriterAt
    <3>2. writer'[s].pc = "loop" /\ writer'[s].last /\ writer'[s].abort = writer[s].abort
      BY <1>2, <3>1
    <3> QED
      BY <2>1, <3>2 DEF Coming, Busy, Pipe
  <2>6. CASE WriterWrite(s) \/ WriterLoopEnd(s)
    <3>1. /\ writer'[s].pc \in {"loop", "exit"} /\ writer'[s].last = writer[s].last
          /\ writer'[s].abort = writer[s].abort /\ exit' = exit
      BY <1>2, <2>6 DEF WriterWrite, WriterLoopEnd
    <3> QED
      BY <2>1, <3>1 DEF Coming, Busy, Pipe
  <2>7. CASE WriterRemove(s)
    BY <2>1, <2>7 DEF WriterRemove
  <2>8. CASE WriterRename(s)
    BY <1>5, <2>8, NoneIsNoSave DEF WriterRename, WriterAt, PipeOf
  <2> QED
    BY <2>3, <2>4, <2>5, <2>6, <2>7, <2>8, <2>9 DEF WriterNext
<1>12. Failed => Failed'
  BY <1>1, <1>3 DEF Failed, Pipe
<1>10. ~DirtyDB => Failed' \/ OnDisk' = mem \/ (Coming(s)' /\ snap[s] = mem)
  <2> SUFFICES ASSUME ~DirtyDB PROVE Failed' \/ OnDisk' = mem \/ (Coming(s)' /\ snap[s] = mem)
    OBVIOUS
  <2>1. snap[s] = mem
    BY <1>1, <1>4 DEF FlushInv
  <2>2. Failed \/ OnDisk = mem \/ Coming(s)
    BY <1>1, <1>4 DEF FlushInv, Coming
  <2> QED
    BY <1>6, <1>7, <1>8, <1>9, <1>12, <2>1, <2>2
<1>11. saver.pc = "done" => Failed' \/ Coming(saver.id)' \/ dbFile' = saver.id
  <2> SUFFICES ASSUME saver.pc = "done" PROVE Failed' \/ Coming(saver.id)' \/ dbFile' = saver.id
    OBVIOUS
  <2>1. saver.id = s
    BY <1>4 DEF DiskInv, OneFileInv
  <2>2. Failed \/ Coming(s)
    BY <1>5, <2>1 DEF FlushInv
  <2>3. saver'.id = s
    BY <1>1, <2>1
  <2> QED
    BY <1>9, <1>12, <2>1, <2>2, <2>3 DEF Coming, Busy
<1> QED
  BY <1>1, <1>4, <1>10, <1>11 DEF FlushInv

\* Every step keeps it.
LEMMA FlushNext ==
    ASSUME DiskKeepsUp, TypeInv, SaveInv, DiskInv, FlushInv, [Next]_vars
    PROVE  FlushInv'
<1>1. CASE NewUnspentDb
  <2>1. /\ mode = "down" /\ mem' = OnDisk /\ saver.pc = "none"
        /\ UNCHANGED <<DirtyDB, main, saver, chan, exit, writer, snap, dbFile, oldFile>>
    BY <1>1, Loads DEF NewUnspentDb, DiskInv, SaveInv, saveVars, fileVars
  <2>2. OnDisk' = OnDisk
    BY <2>1 DEF OnDisk, MapAt
  <2>3. \A s \in SaveId : ~Busy(s)'
    BY <2>1 DEF DiskInv, SaverInv, Busy, NoWriter, Pipe
  <2> QED
    BY <2>1, <2>2, <2>3 DEF FlushInv
<1>2. CASE Crash \/ CloseDone
  BY <1>2 DEF Crash, CloseDone, Stop, FlushInv, NoSaver, FreeMain
<1>3. CASE Idle \/ SaveCommand
  BY <1>3, FlushStartSave DEF Idle, SaveCommand, MainFree, SaveInv, mainVars
<1>4. CASE Close
  <2>1. /\ mode = "up" /\ main.pc = "free" /\ "wait" \notin main.todo /\ ~saver.abort
        /\ UNCHANGED <<mode, mem, DirtyDB, diskVars>>
        /\ main' = [pc |-> "close", arg |-> None, todo |-> {}]
    BY <1>4 DEF Close, MainFree, SaveInv, FlushInv
  <2>2. CASE DirtyDB /\ ~WritingInProgress
    BY <1>4, <2>1, <2>2, FlushStartSave DEF Close
  <2>3. CASE ~(DirtyDB /\ ~WritingInProgress)
    <3>1. UNCHANGED <<saver, fileVars>>
      BY <1>4, <2>3 DEF Close, saveVars
    <3>2. ~DirtyDB \/ saver.pc \in {"rename", "send", "last", "finito", "done"}
      BY <2>1, <2>3 DEF TypeInv, TypeOK, SaveInv, FlushInv
    <3>3. UNCHANGED <<chan, exit, writer, snap, dbFile, oldFile>>
      BY <2>1, <3>1 DEF fileVars, diskVars
    <3>4. /\ OnDisk' = OnDisk /\ (Failed' <=> Failed)
          /\ \A s \in SaveId : (Busy(s)' <=> Busy(s)) /\ (Coming(s)' <=> Coming(s))
      BY <3>1, <3>3 DEF OnDisk, Failed, Busy, Coming, MapAt
    <3>5. saver.pc = "done" => saver.id \in SaveId
      BY DEF TypeInv, RunningIsSaved
    <3> QED
      BY <2>1, <3>1, <3>2, <3>3, <3>4, <3>5 DEF FlushInv
  <2> QED
    BY <2>2, <2>3
<1>5. CASE AbortWriting \/ UndoBlockTxs \/ \E b \in Block : CommitBlockTxs(b)
  <2>1. /\ UNCHANGED <<mode, saver, fileVars, diskVars, mem, DirtyDB>> /\ main'.pc # "close"
        /\ main.pc = "free"
    BY <1>5 DEF AbortWriting, UndoBlockTxs, CommitBlockTxs, BeginAborting, MainFree
  <2> QED
    BY <2>1, FlushMain DEF FlushInv, SaveInv
<1>6. CASE AbortWait
  <2>1. /\ UNCHANGED <<mode, saver, fileVars, diskVars, mem, DirtyDB>> /\ saver.pc = "none"
        /\ main'.pc = "close" => main.pc = "close"
    BY <1>6 DEF AbortWait, FreeMain, TypeInv, TypeOK
  <2> QED
    BY <2>1, FlushMain DEF FlushInv
<1>7. CASE CommitUndoFile \/ CommitApply \/ UndoApply \/ UndoPanic
  <2>1. /\ UNCHANGED <<saver, fileVars, diskVars>> /\ mode' \in {mode, "panic"}
        /\ main.pc \in {"commit", "undo"} /\ "wait" \notin main.todo
        /\ UNCHANGED <<mem, DirtyDB>> \/ DirtyDB' = TRUE
    BY <1>7 DEF CommitUndoFile, CommitApply, UndoApply, UndoPanic, saveVars, mainVars
  <2>2. main'.pc # "close"
    <3>1. main' = main \/ \E work : Finish(work)
      BY <1>7 DEF CommitUndoFile, CommitApply, UndoApply, UndoPanic, mainVars
    <3>2. main \in MainState
      BY DEF TypeInv, TypeOK
    <3>3. ASSUME NEW work, Finish(work) PROVE main'.pc # "close"
      BY <2>1, <3>2, <3>3 DEF Finish, FreeMain
    <3> QED
      BY <2>1, <3>1, <3>3
  <2>3. saver.pc = "none" /\ ~saver.abort
    BY <2>1 DEF SaveInv, FlushInv
  <2> QED
    BY <2>1, <2>2, <2>3, FlushMain
<1>8. CASE UNCHANGED vars
  BY <1>8, FlushMain DEF vars, saveVars, mainVars, FlushInv
<1> QED
  BY <1>1, <1>2, <1>3, <1>4, <1>5, <1>6, <1>7, <1>8, FlushSaver, FlushWriter
     DEF Next, MainBegin, MainWork

\* "Close flushes the data and closes all the files": when it returns, the next
\* start loads the very map that was in memory, whatever was saved, aborted or
\* killed before, as long as no save overtakes the file of the one before.
THEOREM CloseSaves ==
    ASSUME DiskKeepsUp
    PROVE  Spec => []CloseFlushes
<1>1. Init => TypeInv /\ SaveInv /\ DiskInv /\ FlushInv
  BY TypeInit, SaveInit, DiskInit, FlushInit
<1>2. TypeInv /\ SaveInv /\ DiskInv /\ FlushInv /\ [Next]_vars
        => (TypeInv /\ SaveInv /\ DiskInv /\ FlushInv)'
  BY TypeNext, SaveNext, DiskNext, FlushNext
<1>3. TypeInv /\ DiskInv /\ FlushInv => CloseFlushes
  <2> SUFFICES ASSUME TypeInv, DiskInv, FlushInv, mode = "up", ReadyToClose PROVE WouldLoad = {mem}
    BY DEF CloseFlushes
  <2>1. ~DirtyDB /\ ~Failed /\ \A s \in SaveId : ~Busy(s)
    BY DEF ReadyToClose, FilesClosed, FlushInv, Busy, Failed, Pipe
  <2>2. OnDisk = mem
    BY <2>1 DEF FlushInv, Coming
  <2> QED
    BY <2>2, Loads DEF DiskInv
<1> QED
  BY <1>1, <1>2, <1>3, PTL DEF Spec

-----------------------------------------------------------------------------
(* The map and the undo files *)

\* The blocks of a chain are no higher than its last one.
LEMMA ChainHeights ==
    ASSUME NEW b \in Block, NEW a \in ChainOf[b]
    PROVE  a \in Block \ {Genesis} /\ Height[a] \in Nat /\ Height[a] <= Height[b]
<1> DEFINE S == {x \in Block : Height[x] <= Height[b]}
<1>1. /\ a \in Block \ {Genesis}
      /\ \A T \in SUBSET Block : b \in T /\ (\A x \in T \ {Genesis} : Parent[x] \in T) => a \in T
  BY DEF ChainOf
<1>2. \A x \in Block : Height[x] \in Nat
  BY UnspentDBAssumption
<1>3. b \in S
  BY <1>2
<1>4. \A x \in S \ {Genesis} : Parent[x] \in S
  <2> SUFFICES ASSUME NEW x \in S \ {Genesis} PROVE Parent[x] \in S
    OBVIOUS
  <2>1. Parent[x] \in Block /\ Height[x] = Height[Parent[x]] + 1
    BY UnspentDBAssumption
  <2> QED
    BY <1>2, <2>1
<1>5. a \in S
  <2> HIDE DEF S
  <2>1. S \in SUBSET Block
    BY DEF S
  <2> QED
    BY <1>1, <1>3, <1>4, <2>1
<1> QED
  BY <1>1, <1>2, <1>5

\* A block extends the chain of its parent by itself.
LEMMA ChainStep ==
    ASSUME NEW b \in Block \ {Genesis}
    PROVE  /\ ChainOf[b] = ChainOf[Parent[b]] \cup {b}
           /\ \A a \in ChainOf[Parent[b]] : Height[a] # Height[b]
           /\ b \notin ChainOf[Parent[b]]
<1> DEFINE Closed(S) == \A x \in S \ {Genesis} : Parent[x] \in S
           p == Parent[b]
<1>1. p \in Block /\ Height[b] = Height[p] + 1 /\ Height[p] \in Nat
  BY UnspentDBAssumption
<1>2. \A c \in Block : \A a : a \in ChainOf[c] <=>
          a \in Block \ {Genesis} /\ \A S \in SUBSET Block : c \in S /\ Closed(S) => a \in S
  BY DEF ChainOf
<1>3. ChainOf[p] \subseteq ChainOf[b]
  BY <1>1, <1>2
<1>4. b \in ChainOf[b]
  BY <1>2
<1>5. ASSUME NEW a \in ChainOf[b], a # b PROVE a \in ChainOf[p]
  <2>1. ASSUME NEW S \in SUBSET Block, p \in S, Closed(S) PROVE a \in S
    <3>1. Closed(S \cup {b})
      BY <2>1
    <3>2. S \cup {b} \in SUBSET Block /\ b \in S \cup {b}
      OBVIOUS
    <3> HIDE DEF Closed
    <3>3. a \in S \cup {b}
      BY <1>2, <1>5, <3>1, <3>2
    <3> QED
      BY <1>5, <3>3
  <2>2. a \in Block \ {Genesis}
    BY <1>2, <1>5
  <2> HIDE DEF Closed
  <2> QED
    BY <1>1, <1>2, <2>1, <2>2
<1>6. \A a \in ChainOf[p] : Height[a] # Height[b]
  BY <1>1, ChainHeights
<1> HIDE DEF p
<1>7. b \notin ChainOf[p]
  BY <1>6
<1> USE DEF p
<1> QED
  BY <1>3, <1>4, <1>5, <1>6, <1>7

LEMMA GenesisChain == ChainOf[Genesis] = {}
<1>1. \A a \in ChainOf[Genesis] : a \in {Genesis} /\ a # Genesis
  <2>1. {Genesis} \in SUBSET Block /\ \A x \in {Genesis} \ {Genesis} : Parent[x] \in {Genesis}
    BY UnspentDBAssumption
  <2> QED
    BY <2>1, UnspentDBAssumption DEF ChainOf
<1> QED
  BY <1>1

\* Committing and undoing a block move between the maps of the block and of its
\* parent.
LEMMA MapStep ==
    ASSUME NEW b \in Block \ {Genesis}
    PROVE  /\ MapAt(b) = [last |-> b, made |-> MapAt(Parent[b]).made \cup {b},
                          spent |-> MapAt(Parent[b]).spent \cup {b}]
           /\ MapAt(Parent[b]) = [last |-> Parent[b], made |-> MapAt(b).made \ {b},
                                  spent |-> MapAt(b).spent \ {b}]
<1>1. ChainOf[Parent[b]] = ChainOf[b] \ {b}
  BY ChainStep
<1> QED
  BY <1>1, ChainStep DEF MapAt

LEMMA ExactInit == Init => ExactInv
<1> SUFFICES ASSUME Init PROVE ExactInv
  OBVIOUS
<1>1. mem = MapAt(Genesis) /\ OnDisk = MapAt(Genesis) /\ MapAt(Genesis).last = Genesis
  BY DEF Init, OnDisk, MapAt
<1>2. UndoFits(OnDisk)
  BY <1>1, GenesisChain DEF UndoFits
<1> QED
  BY <1>1, <1>2 DEF Init, ExactInv, FreeMain

\* Steps of the goroutines, and a save that starts.
LEMMA ExactFrame ==
    ASSUME TypeInv, ExactInv, mode # "down", UNCHANGED <<mode, mem, undoFile, peak>>,
           \/ main' = main
           \/ main.pc = "free" /\ main'.pc = "close",
           \A s \in SaveId : snap'[s] \in {snap[s], mem}
    PROVE  ExactInv'
<1>1. \A a : UndoIs(a)' <=> UndoIs(a)
  BY DEF UndoIs
<1>2. \A a : main' = main => (Recording(a)' <=> Recording(a))
  BY DEF Recording
<1>3. main.pc = "free" => \A a : ~Recording(a)
  BY DEF Recording
<1>4. UndoFits(mem)'
  BY <1>1, <1>2, <1>3 DEF ExactInv, UndoFits
<1>5. \A s \in SaveId : snap'[s] # None => snap'[s] = MapAt(snap'[s].last)
  BY DEF ExactInv
<1>6. CASE main' = main
  BY <1>1, <1>4, <1>5, <1>6 DEF ExactInv
<1>7. CASE main.pc = "free" /\ main'.pc = "close"
  BY <1>4, <1>5, <1>7 DEF ExactInv
<1> QED
  BY <1>6, <1>7

\* Every step of a process that is not killed keeps the map exact.
LEMMA ExactNext ==
    ASSUME DiskKeepsUp, ~MayCrash, TypeInv, SaveInv, DiskInv, FlushInv, ExactInv, [Next]_vars
    PROVE  ExactInv'
<1> USE UnspentDBAssumption
<1>1. /\ main \in MainState /\ mem \in UtxoMap /\ undoFile \in [Heights -> Block \cup {None}]
      /\ snap \in [SaveId -> UtxoMap \cup {None}] /\ dbFile \in Inode /\ oldFile \in Inode
      /\ main.pc \in {"commit", "undo"} => main.arg \in Block \ {Genesis}
      /\ \A b \in Block : Height[b] \in Heights /\ Height[b] \in Nat
      /\ peak \in Nat
  BY DEF TypeInv, TypeOK, WorksOnABlock, Heights
<1>2. CASE NewUnspentDb
  <2>1. /\ mode = "down" /\ mode' = "up" /\ mem' = OnDisk /\ main = FreeMain
        /\ UNCHANGED <<main, snap, undoFile, peak>>
    BY <1>2, Loads DEF NewUnspentDb, DiskInv, SaveInv, fileVars
  <2>2. OnDisk = MapAt(OnDisk.last)
    <3>1. MapAt(Genesis) = MapAt(MapAt(Genesis).last)
      BY DEF MapAt
    <3>2. \A n \in {dbFile, oldFile} \ {None} : snap[n] # None /\ n \in SaveId
      BY <1>1 DEF DiskInv, FilesInv
    <3> QED
      BY <3>1, <3>2 DEF OnDisk, ExactInv
  <2>3. UndoFits(OnDisk)
    BY <2>1 DEF ExactInv
  <2>4. UndoFits(mem)'
    BY <2>1, <2>3 DEF UndoFits, UndoIs, Recording
  <2> QED
    BY <2>1, <2>2, <2>4 DEF ExactInv, FreeMain
<1>3. CASE CloseDone
  <2>1. /\ mode = "up" /\ mode' = "down" /\ main.pc = "close" /\ mem' = MapAt(Genesis)
        /\ main' = FreeMain /\ UNCHANGED <<snap, dbFile, oldFile, undoFile, peak>> /\ ReadyToClose
    BY <1>3 DEF CloseDone, Stop, ReadyToClose, diskVars
  <2>2. ~DirtyDB /\ ~Failed /\ \A s \in SaveId : ~Busy(s)
    BY <2>1 DEF ReadyToClose, FilesClosed, FlushInv, Busy, Failed, Pipe
  <2>3. OnDisk = mem /\ OnDisk' = OnDisk
    BY <2>1, <2>2 DEF FlushInv, Coming, OnDisk, MapAt
  <2>4. UndoFits(OnDisk)'
    BY <2>1, <2>3 DEF ExactInv, UndoFits, UndoIs, Recording
  <2>5. mem' = MapAt(mem'.last)
    BY <2>1 DEF MapAt
  <2> QED
    BY <2>1, <2>4, <2>5 DEF ExactInv, FreeMain
<1>4. CASE Idle \/ SaveCommand \/ Close
  <2>1. /\ mode = "up" /\ UNCHANGED <<mode, mem, undoFile, peak>>
        /\ main' = main \/ (main.pc = "free" /\ main'.pc = "close")
    BY <1>4 DEF Idle, SaveCommand, Close, MainFree, mainVars
  <2>2. \A s \in SaveId : snap'[s] \in {snap[s], mem}
    BY <1>1, <1>4 DEF Idle, SaveCommand, Close, StartSave, fileVars
  <2> QED
    BY <2>1, <2>2, ExactFrame
<1>5. CASE SaverNext
  <2>1. mode = "up" /\ UNCHANGED <<mode, mem, undoFile, peak, main, snap>>
    BY <1>5 DEF SaverNext, SaverRename, SaverSend, SaverAbort, SaverLoopEnd, SaverLast, SaverFinito,
         SaverDone, SaverExit, SaverAt, fileVars, mainVars
  <2> QED
    BY <2>1, ExactFrame
<1>6. ASSUME NEW s \in SaveId, WriterNext(s) PROVE ExactInv'
  <2>1. mode = "up" /\ UNCHANGED <<mode, mem, undoFile, peak, main, snap>>
    BY <1>6 DEF WriterNext, WriterCreate, WriterCreateFails, WriterTake, WriterExitMsg, WriterWrite,
         WriterLoopEnd, WriterRemove, WriterRename, WriterAt, mainVars
  <2> QED
    BY <2>1, ExactFrame
<1>7. ASSUME UNCHANGED <<mem, snap, undoFile, peak>>, mode = "up",
             mode' \in {"up", "panic"}, \A a : Recording(a) => Recording(a)',
             main'.pc = "commit" =>
               /\ IF "apply" \in main'.todo THEN Parent[main'.arg] = mem.last ELSE mem.last = main'.arg
               /\ "undofile" \notin main'.todo => UndoIs(main'.arg),
             main'.pc = "undo" => main'.arg = mem.last
      PROVE  ExactInv'
  <2>1. \A a : UndoIs(a)' <=> UndoIs(a)
    BY <1>7 DEF UndoIs
  <2>2. UndoFits(mem)'
    BY <1>7, <2>1 DEF ExactInv, UndoFits
  <2>3. UndoIs(main'.arg) => UndoIs(main.arg)'
    BY <1>7 DEF UndoIs
  <2> QED
    BY <1>7, <2>2, <2>3 DEF ExactInv
<1>8. CASE AbortWriting \/ UndoBlockTxs \/ \E b \in Block : CommitBlockTxs(b)
  <2>1. /\ mode = "up" /\ mode' = "up" /\ main.pc = "free" /\ UNCHANGED <<mem, snap, undoFile, peak>>
        /\ main'.pc = "commit" => /\ {"apply", "undofile"} \subseteq main'.todo
                                  /\ Parent[main'.arg] = mem.last
        /\ main'.pc = "undo" => main'.arg = mem.last
    BY <1>8 DEF AbortWriting, UndoBlockTxs, CommitBlockTxs, BeginAborting, MainFree, fileVars
  <2> QED
    BY <1>7, <2>1 DEF Recording
<1>9. CASE AbortWait
  <2>1. /\ mode = "up" /\ mode' = "up" /\ UNCHANGED <<mem, snap, undoFile, peak>>
        /\ main' = IF main.pc = "abort" THEN FreeMain ELSE [main EXCEPT !.todo = @ \ {"wait"}]
    BY <1>9 DEF AbortWait, fileVars
  <2>2. main.pc # "abort" => /\ main'.pc = main.pc /\ main'.arg = main.arg
                             /\ main'.todo = main.todo \ {"wait"}
    BY <1>1, <2>1
  <2>3. main.pc = "abort" => main'.pc = "free"
    BY <2>1 DEF FreeMain
  <2> QED
    BY <1>7, <2>1, <2>2, <2>3 DEF Recording, ExactInv
<1>10. ASSUME NEW b \in Block \ {Genesis}, main.pc = "commit", main.arg = b,
              NEW a \in ChainOf[Parent[b]], mode = "up", ChainOf[Parent[b]] \subseteq ChainOf[mem.last]
       PROVE  UndoIs(a) /\ a # b /\ Height[a] # Height[b] /\ a \in Block
  <2>1. a # b /\ Height[a] # Height[b]
    BY ChainStep
  <2>2. Parent[b] \in Block
    OBVIOUS
  <2>3. a \in Block
    BY <2>2, ChainHeights
  <2>4. UndoIs(a) \/ Recording(a)
    BY <1>10 DEF ExactInv, UndoFits
  <2> QED
    BY <1>10, <2>1, <2>3, <2>4 DEF Recording
<1>11. CASE CommitUndoFile
  <2>1. PICK b \in Block \ {Genesis} : b = main.arg
    BY <1>1, <1>11 DEF CommitUndoFile
  <2>2. /\ mode = "up" /\ mode' = "up" /\ main.pc = "commit" /\ "undofile" \in main.todo
        /\ "wait" \notin main.todo /\ UNCHANGED <<mem, snap, peak>>
        /\ undoFile' = [undoFile EXCEPT ![Height[b]] = b]
        /\ main' = IF main.todo = {"undofile"} THEN FreeMain
                   ELSE [main EXCEPT !.todo = @ \ {"undofile"}]
    BY <1>11, <2>1 DEF CommitUndoFile, Finish, fileVars
  <2>3. UndoIs(b)'
    BY <1>1, <2>2 DEF UndoIs
  <2>4. mem.last \in {b, Parent[b]} /\ ("apply" \in main.todo => mem.last = Parent[b])
        /\ ("apply" \notin main.todo => mem.last = b)
    BY <2>1, <2>2 DEF ExactInv
  <2>5. ChainOf[b] = ChainOf[Parent[b]] \cup {b}
    BY ChainStep
  <2>6. \A a \in ChainOf[Parent[b]] : UndoIs(a)'
    <3> SUFFICES ASSUME NEW a \in ChainOf[Parent[b]] PROVE UndoIs(a)'
      OBVIOUS
    <3>1. UndoIs(a) /\ Height[a] # Height[b] /\ a \in Block
      BY <1>10, <2>1, <2>2, <2>4, <2>5
    <3>2. undoFile'[Height[a]] = undoFile[Height[a]]
      BY <1>1, <2>2, <3>1
    <3> QED
      BY <2>2, <3>1, <3>2 DEF UndoIs
  <2>7. UndoFits(mem)'
    BY <2>2, <2>3, <2>4, <2>5, <2>6 DEF UndoFits
  <2>8. main'.pc = "commit" =>
          /\ main'.arg = b /\ "apply" \in main'.todo /\ "apply" \in main.todo
    BY <1>1, <2>1, <2>2 DEF FreeMain
  <2>9. main'.pc \in {"commit", "free"}
    BY <1>1, <2>2 DEF FreeMain
  <2>10. main'.pc = "commit" => UndoIs(main.arg)'
    BY <2>3, <2>8 DEF UndoIs
  <2> QED
    BY <2>2, <2>4, <2>7, <2>8, <2>9, <2>10 DEF ExactInv
<1>12. CASE CommitApply
  <2>1. PICK b \in Block \ {Genesis} : b = main.arg
    BY <1>1, <1>12 DEF CommitApply
  <2>2. /\ mode = "up" /\ mode' = "up" /\ main.pc = "commit" /\ "apply" \in main.todo
        /\ "wait" \notin main.todo /\ snap' = snap
        /\ peak' = IF Height[b] > peak THEN Height[b] ELSE peak
        /\ mem' = [last |-> b, made |-> mem.made \cup {b}, spent |-> mem.spent \cup {b}]
        /\ undoFile' = [h \in Heights |-> IF h \in Outdated(Height[b]) THEN None ELSE undoFile[h]]
        /\ main' = IF main.todo = {"apply"} THEN FreeMain ELSE [main EXCEPT !.todo = @ \ {"apply"}]
    BY <1>12, <2>1 DEF CommitApply, Finish, fileVars
  <2>3. mem = MapAt(Parent[b]) /\ mem.last = Parent[b]
    BY <2>1, <2>2 DEF ExactInv
  <2>4. mem' = MapAt(b)
    BY <2>2, <2>3, MapStep
  <2>5. \A a \in Block :
          /\ Height[a] + UnwindBufLen <= peak => Height[a] + UnwindBufLen <= peak'
          /\ Height[a] \in Outdated(Height[b]) => Height[a] + UnwindBufLen <= peak'
    BY <1>1, <2>2 DEF Outdated
  <2>6. \A a \in Block : UndoIs(a) => UndoIs(a)'
    <3> SUFFICES ASSUME NEW a \in Block, UndoIs(a) PROVE UndoIs(a)'
      OBVIOUS
    <3>1. undoFile'[Height[a]] \in {undoFile[Height[a]], None}
          /\ (undoFile'[Height[a]] # undoFile[Height[a]] => Height[a] \in Outdated(Height[b]))
      BY <1>1, <2>2
    <3> QED
      BY <2>5, <3>1 DEF UndoIs
  <2>7. ChainOf[b] = ChainOf[Parent[b]] \cup {b}
    BY ChainStep
  <2>8. \A a \in ChainOf[Parent[b]] : UndoIs(a)'
    BY <1>10, <2>1, <2>2, <2>3, <2>6
  <2>9. "undofile" \notin main.todo => UndoIs(b)'
    BY <2>1, <2>2, <2>6 DEF ExactInv
  <2>10. "undofile" \in main.todo => Recording(b)'
    <3> SUFFICES ASSUME "undofile" \in main.todo PROVE Recording(b)'
      OBVIOUS
    <3>1. main' = [main EXCEPT !.todo = @ \ {"apply"}]
      BY <2>2
    <3>2. main'.pc = "commit" /\ main'.arg = b /\ "undofile" \in main'.todo
      BY <1>1, <2>1, <2>2, <3>1
    <3> QED
      BY <3>2 DEF Recording
  <2>11. UndoFits(mem)'
    <3>1. mem'.last = b
      BY <2>2
    <3> QED
      BY <2>7, <2>8, <2>9, <2>10, <3>1 DEF UndoFits
  <2>12. main'.pc = "commit" =>
           /\ main'.arg = b /\ "apply" \notin main'.todo
           /\ "undofile" \notin main'.todo => "undofile" \notin main.todo
    BY <1>1, <2>1, <2>2 DEF FreeMain
  <2>13. main'.pc \in {"commit", "free"}
    BY <1>1, <2>2 DEF FreeMain
  <2>14. main'.pc = "commit" /\ "undofile" \notin main'.todo => UndoIs(main.arg)'
    BY <2>9, <2>12 DEF UndoIs
  <2>15. mem' = MapAt(mem'.last) /\ mem'.last = b
    BY <2>2, <2>4
  <2> QED
    BY <2>2, <2>11, <2>12, <2>13, <2>14, <2>15 DEF ExactInv
<1>13. ASSUME main.pc = "undo", mode = "up"
       PROVE  /\ main.arg \in Block \ {Genesis} /\ mem = MapAt(main.arg)
              /\ UndoIs(main.arg) /\ \A a \in ChainOf[Parent[main.arg]] : UndoIs(a)
  <2>1. PICK b \in Block \ {Genesis} : b = main.arg
    BY <1>1, <1>13
  <2>2. mem.last = b /\ mem = MapAt(b)
    BY <1>13, <2>1 DEF ExactInv
  <2>3. \A a \in ChainOf[b] : UndoIs(a)
    BY <1>13, <2>2 DEF ExactInv, UndoFits, Recording
  <2>4. ChainOf[b] = ChainOf[Parent[b]] \cup {b}
    BY ChainStep
  <2> QED
    BY <2>1, <2>2, <2>3, <2>4
<1>14. CASE UndoApply
  <2>1. PICK b \in Block \ {Genesis} : b = main.arg
    BY <1>1, <1>14 DEF UndoApply
  <2>2. /\ mode = "up" /\ mode' = "up" /\ main.pc = "undo" /\ main.todo = {"apply"}
        /\ undoFile[Height[b]] # None /\ UNCHANGED <<snap, peak>>
        /\ mem' = [last |-> Parent[b], made |-> mem.made \ {b},
                   spent |-> mem.spent \ {undoFile[Height[b]]}]
        /\ undoFile' = [undoFile EXCEPT ![Height[b]] = None]
        /\ main' = FreeMain
    BY <1>14, <2>1 DEF UndoApply, Finish, fileVars
  <2>3. undoFile[Height[b]] = b /\ mem = MapAt(b)
    BY <1>13, <2>1, <2>2 DEF UndoIs
  <2>4. mem' = MapAt(Parent[b]) /\ mem'.last = Parent[b]
    BY <2>2, <2>3, MapStep
  <2>5. \A a \in ChainOf[Parent[b]] : UndoIs(a)'
    <3> SUFFICES ASSUME NEW a \in ChainOf[Parent[b]] PROVE UndoIs(a)'
      OBVIOUS
    <3>1. UndoIs(a) /\ Height[a] # Height[b]
      BY <1>13, <2>1, <2>2, ChainStep
    <3>2. Parent[b] \in Block
      OBVIOUS
    <3>3. a \in Block
      BY <3>2, ChainHeights
    <3>4. undoFile'[Height[a]] = undoFile[Height[a]]
      BY <1>1, <2>2, <3>1, <3>3
    <3> QED
      BY <2>2, <3>1, <3>4 DEF UndoIs
  <2>6. UndoFits(mem)'
    BY <2>4, <2>5 DEF UndoFits
  <2> QED
    BY <2>2, <2>4, <2>6 DEF ExactInv, FreeMain
<1>15. CASE UndoPanic
  <2>1. /\ mode = "up" /\ mode' = "panic" /\ main.pc = "undo" /\ undoFile[Height[main.arg]] = None
        /\ UNCHANGED <<mem, snap, undoFile, peak, main>>
    BY <1>15 DEF UndoPanic, fileVars, mainVars
  <2> QED
    BY <1>7, <2>1 DEF Recording, ExactInv
<1>16. CASE UNCHANGED vars
  <2>1. UNCHANGED <<mode, mem, snap, undoFile, peak, main, dbFile, oldFile>>
    BY <1>16 DEF vars, mainVars, fileVars, diskVars
  <2>2. OnDisk' = OnDisk
    BY <2>1 DEF OnDisk, MapAt
  <2>3. \A a : (UndoIs(a)' <=> UndoIs(a)) /\ (Recording(a)' <=> Recording(a))
    BY <2>1 DEF UndoIs, Recording
  <2>4. (UndoFits(mem)' <=> UndoFits(mem)) /\ (UndoFits(OnDisk)' <=> UndoFits(OnDisk))
    BY <2>1, <2>2, <2>3 DEF UndoFits
  <2>5. UndoIs(main.arg)' <=> UndoIs(main.arg)
    BY <2>1 DEF UndoIs
  <2> QED
    BY <2>1, <2>4, <2>5 DEF ExactInv
<1> QED
  BY <1>2, <1>3, <1>4, <1>5, <1>6, <1>8, <1>9, <1>11, <1>12, <1>14, <1>15, <1>16
     DEF Next, Crash, MainBegin, MainWork

\* The invariant that all properties of the map rest on.
UtxoInv == TypeInv /\ SaveInv /\ DiskInv /\ FlushInv /\ ExactInv

LEMMA UtxoHolds ==
    ASSUME DiskKeepsUp, ~MayCrash
    PROVE  Spec => []UtxoInv
<1>1. Init => UtxoInv
  BY TypeInit, SaveInit, DiskInit, FlushInit, ExactInit DEF UtxoInv
<1>2. UtxoInv /\ [Next]_vars => UtxoInv'
  BY TypeNext, SaveNext, DiskNext, FlushNext, ExactNext DEF UtxoInv
<1> QED
  BY <1>1, <1>2, PTL DEF Spec

\* Undo data is found by the height of a block alone, and a block is recorded and
\* applied by two goroutines; still no sequence of commits, undos, saves and
\* orderly restarts makes the map drift from its last block.
THEOREM UtxoStaysExact ==
    ASSUME DiskKeepsUp, ~MayCrash
    PROVE  Spec => []UtxoIsExact
<1>1. UtxoInv => UtxoIsExact
  BY DEF UtxoInv, ExactInv, UtxoIsExact
<1> QED
  BY <1>1, UtxoHolds, PTL

\* What UTXO.db and UTXO.old name is a whole file with a map that was exact,
\* whatever save(), its writers and abortWriting are doing.
THEOREM SnapshotsStayWhole ==
    ASSUME DiskKeepsUp, ~MayCrash
    PROVE  Spec => []SnapshotsAreWhole
<1>1. UtxoInv => SnapshotsAreWhole
  <2> SUFFICES ASSUME UtxoInv, NEW n \in {dbFile, oldFile} \ {None}
               PROVE  IsWhole(n) /\ SavedIn(n) = MapAt(SavedIn(n).last)
    BY DEF SnapshotsAreWhole
  <2>1. n \in SaveId
    BY DEF UtxoInv, TypeInv, TypeOK
  <2>2. snap[n] # None /\ IsWhole(n) /\ SavedIn(n) = snap[n]
    BY <2>1, ReadsBack DEF UtxoInv, DiskInv, FilesInv
  <2> QED
    BY <2>1, <2>2 DEF UtxoInv, ExactInv
<1> QED
  BY <1>1, UtxoHolds, PTL

\* UndoBlockTxs finds the undo file of the very block it undoes, although files
\* are named by heights, old ones are dropped and two goroutines commit a block:
\* on every tree, as far back as UnwindBufLen blocks from the highest there was.
THEOREM UndoFileIsFound ==
    ASSUME DiskKeepsUp, ~MayCrash
    PROVE  Spec => []UndoFindsItsFile
<1>1. UtxoInv => UndoFindsItsFile
  <2> SUFFICES ASSUME UtxoInv, mode = "up", main.pc = "undo",
                      Height[main.arg] + UnwindBufLen > peak
               PROVE  undoFile[Height[main.arg]] = main.arg
    BY DEF UndoFindsItsFile
  <2>1. PICK b \in Block \ {Genesis} : b = main.arg
    BY DEF UtxoInv, TypeInv, WorksOnABlock
  <2>2. b \in ChainOf[mem.last]
    BY <2>1, ChainStep DEF UtxoInv, ExactInv
  <2>3. UndoIs(b)
    BY <2>2 DEF UtxoInv, ExactInv, UndoFits, Recording
  <2>4. peak \in Nat /\ Height[b] + UnwindBufLen \in Nat
    <3>1. peak \in Heights
      BY DEF UtxoInv, TypeInv, TypeOK
    <3> QED
      BY <3>1, UnspentDBAssumption DEF Heights
  <2> QED
    BY <2>1, <2>3, <2>4 DEF UndoIs
<1> QED
  BY <1>1, UtxoHolds, PTL
=============================================================================
