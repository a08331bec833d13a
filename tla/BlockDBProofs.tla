--------------------------- MODULE BlockDBProofs ----------------------------
(***************************************************************************)
(* Proofs about BlockDB for every set of blocks, every limit and any       *)
(* number of readers and crashes.                                          *)
(***************************************************************************)
EXTENDS BlockDB, FiniteSetTheorems, NatFacts

-----------------------------------------------------------------------------
(* Files and index records *)

\* A write within a file or at its end leaves a file.
LEMMA WriteAtFile ==
    ASSUME NEW S, NEW file \in Seq(S), NEW pos \in Nat, NEW x \in S,
           NoData \in S \/ pos <= Len(file)
    PROVE  WriteAt(file, pos, x) \in Seq(S)
<1> DEFINE n == IF pos + 1 > Len(file) THEN pos + 1 ELSE Len(file)
           e(i) == IF i = pos + 1 THEN x ELSE IF i <= Len(file) THEN file[i] ELSE NoData
<1>1. n \in Nat
  OBVIOUS
<1>2. \A i \in 1..n : e(i) \in S
  OBVIOUS
<1>3. WriteAt(file, pos, x) = [i \in 1..n |-> e(i)]
  BY DEF WriteAt
<1>4. WriteAt(file, pos, x) \in [1..n -> S]
  BY <1>2, <1>3
<1>5. QED
  BY <1>1, <1>4

\* What a positioned write leaves in the file.
LEMMA WriteAtElements ==
    ASSUME NEW S, NEW file \in Seq(S), NEW pos \in Nat, NEW x
    PROVE  /\ Len(WriteAt(file, pos, x)) = IF pos + 1 > Len(file) THEN pos + 1 ELSE Len(file)
           /\ DOMAIN WriteAt(file, pos, x) = 1..(IF pos + 1 > Len(file) THEN pos + 1 ELSE Len(file))
           /\ WriteAt(file, pos, x)[pos + 1] = x
           /\ \A i \in 1..Len(file) : i # pos + 1 => WriteAt(file, pos, x)[i] = file[i]
BY DEF WriteAt

\* Writing at the end appends.
LEMMA WriteAtEnd ==
    ASSUME NEW S, NEW file \in Seq(S), NEW x, NEW n \in Nat, n = Len(file)
    PROVE  /\ DOMAIN WriteAt(file, n, x) = 1..(n + 1)
           /\ WriteAt(file, n, x)[n + 1] = x
           /\ \A i \in 1..n : WriteAt(file, n, x)[i] = file[i]
<1>1. \A i \in 1..n : i # n + 1
  OBVIOUS
<1>2. QED
  BY <1>1, WriteAtElements

\* The maximum and the minimum of BlockDB.
LEMMA MaxOfIn ==
    ASSUME NEW T \in SUBSET Nat, T # {}, NEW n \in Nat, \A y \in T : y <= n
    PROVE  MaxOf(T) \in T /\ \A y \in T : y <= MaxOf(T)
<1>1. \E x \in T : \A y \in T : y <= x
  BY GreatestNat
<1>2. QED
  BY <1>1, Zenon DEF MaxOf

LEMMA MinOfIn ==
    ASSUME NEW T \in SUBSET Nat, T # {}
    PROVE  MinOf(T) \in T /\ \A y \in T : MinOf(T) <= y
BY LeastNat, Zenon DEF MinOf

\* Records are not NoRec.
LEMMA RecordsAreKnown == NoRec \notin OneBl
BY BlockDBAssumption DEF OneBl, DatIdx

-----------------------------------------------------------------------------
(* What LoadBlockIndex finds *)

LEMMA ValidSlotsFacts ==
    ASSUME idxFile \in Seq(IdxRec)
    PROVE  /\ Len(idxFile) \in Nat /\ ValidSlots \in SUBSET (1..Len(idxFile))
           /\ \A i \in ValidSlots : idxFile[i] \in IdxRec
           /\ IsFiniteSet(ValidSlots)
           /\ Cardinality(ValidSlots) \in 0..Len(idxFile)
           /\ \A i : LoadedIpos(i) \in Nat
<1>1. ValidSlots \in SUBSET (1..Len(idxFile)) /\ Len(idxFile) \in Nat
  BY DEF ValidSlots
<1>2. IsFiniteSet(1..Len(idxFile)) /\ Cardinality(1..Len(idxFile)) = Len(idxFile)
  <2>1. /\ IsFiniteSet(1..Len(idxFile))
        /\ Cardinality(1..Len(idxFile)) = IF 1 > Len(idxFile) THEN 0 ELSE Len(idxFile) - 1 + 1
    BY <1>1, FS_Interval, SMTT(30)
  <2>2. QED
    BY <1>1, <2>1
<1>3. \A T \in SUBSET (1..Len(idxFile)) :
         IsFiniteSet(T) /\ Cardinality(T) \in Nat /\ Cardinality(T) <= Len(idxFile)
  BY <1>1, <1>2, FS_Subset, FS_CardinalityType
<1>4. ASSUME NEW i PROVE LoadedIpos(i) \in Nat
  <2>1. {j \in ValidSlots : j < i} \in SUBSET (1..Len(idxFile))
    BY <1>1
  <2>2. QED
    BY <1>3, <2>1 DEF LoadedIpos
<1>5. Cardinality(ValidSlots) \in 0..Len(idxFile) /\ IsFiniteSet(ValidSlots)
  BY <1>1, <1>3
<1>6. QED
  BY <1>1, <1>4, <1>5

\* The slots of a block, of which the last one counts.
Slots(b) == {i \in ValidSlots : idxFile[i].block = b}

LEMMA LoadedRecFacts ==
    ASSUME idxFile \in Seq(IdxRec), NEW b
    PROVE  /\ LoadedRec(b) = NoRec <=> Slots(b) = {}
           /\ LoadedRec(b) \in OneBl \cup {NoRec}
           /\ LoadedRec(b) # NoRec => LoadedRec(b).ipos # -1
           /\ Slots(b) # {} => \E i \in Slots(b) :
                LoadedRec(b) = [ipos |-> LoadedIpos(i), dat |-> idxFile[i].dat,
                                fpos |-> idxFile[i].fpos, trusted |-> idxFile[i].trusted]
<1> DEFINE i == MaxOf(Slots(b))
<1>1. Slots(b) \in SUBSET Nat /\ (\A j \in Slots(b) : j <= Len(idxFile)) /\ Len(idxFile) \in Nat
  BY ValidSlotsFacts DEF Slots
<1>2. LoadedRec(b) = IF Slots(b) = {} THEN NoRec
                     ELSE [ipos |-> LoadedIpos(i), dat |-> idxFile[i].dat,
                           fpos |-> idxFile[i].fpos, trusted |-> idxFile[i].trusted]
  BY DEF LoadedRec, Slots
<1>3. Slots(b) # {} => i \in Slots(b)
  BY <1>1, MaxOfIn
<1> HIDE DEF i
<1>4. ASSUME Slots(b) # {}
      PROVE  [ipos |-> LoadedIpos(i), dat |-> idxFile[i].dat,
              fpos |-> idxFile[i].fpos, trusted |-> idxFile[i].trusted] \in OneBl
  <2>1. idxFile[i] \in IdxRec /\ LoadedIpos(i) \in Nat
    BY <1>3, <1>4, ValidSlotsFacts DEF Slots
  <2>2. QED
    BY <2>1 DEF IdxRec, OneBl
<1>5. Slots(b) # {} => LoadedRec(b).ipos # -1
  <2>1. LoadedIpos(i) \in Nat
    BY ValidSlotsFacts
  <2>2. QED
    BY <1>2, <2>1
<1>6. QED
  BY <1>2, <1>3, <1>4, <1>5, RecordsAreKnown

LEMMA LoadedDatFacts ==
    ASSUME idxFile \in Seq(IdxRec)
    PROVE  /\ LoadedDat \in DatIdx
           /\ \A i \in ValidSlots : idxFile[i].dat <= LoadedDat
           /\ ValidSlots # {} => \E i \in ValidSlots : idxFile[i].dat = LoadedDat
           /\ LoadedDat # 0 => \E i \in ValidSlots : idxFile[i].dat = LoadedDat
<1> DEFINE T == {0} \cup {idxFile[i].dat : i \in ValidSlots}
<1>1. \A i \in ValidSlots : idxFile[i].dat \in DatIdx
  BY ValidSlotsFacts DEF IdxRec
<1>2. T \in SUBSET DatIdx /\ 0 \in T
  BY <1>1, BlockDBAssumption DEF DatIdx
<1>3. MaxDat \in Nat /\ T \in SUBSET Nat /\ T # {} /\ \A y \in T : y <= MaxDat
  <2> HIDE DEF T
  <2>1. QED
    BY <1>2, BlockDBAssumption DEF DatIdx
<1>4. LoadedDat = MaxOf(T)
  BY DEF LoadedDat
<1>5. \A i \in ValidSlots : idxFile[i].dat \in T
  OBVIOUS
<1>6. \A t \in T : t = 0 \/ \E i \in ValidSlots : idxFile[i].dat = t
  OBVIOUS
<1> HIDE DEF T
<1>7. LoadedDat \in T /\ \A y \in T : y <= LoadedDat
  BY <1>3, <1>4, MaxOfIn
<1>8. \A i \in ValidSlots : idxFile[i].dat <= LoadedDat
  BY <1>5, <1>7
<1>9. ValidSlots # {} => \E i \in ValidSlots : idxFile[i].dat = LoadedDat
  <2>1. CASE LoadedDat = 0
    BY <1>1, <1>8, <2>1 DEF DatIdx
  <2>2. CASE LoadedDat # 0
    BY <1>6, <1>7, <2>2
  <2>3. QED
    BY <2>1, <2>2
<1>10. QED
  BY <1>2, <1>6, <1>7, <1>8, <1>9

LEMMA LoadedDatPosFacts ==
    ASSUME idxFile \in Seq(IdxRec)
    PROVE  /\ LoadedDatPos \in Nat
           /\ \A i \in ValidSlots : idxFile[i].dat = LoadedDat => idxFile[i].fpos < LoadedDatPos
           /\ LoadedDatPos # 0 => \E i, j \in ValidSlots :
                 idxFile[i].dat = LoadedDat /\ j >= i /\ LoadedDatPos = idxFile[j].fpos + 1
<1> DEFINE L    == {i \in ValidSlots : idxFile[i].dat = LoadedDat}
           last == MinOf(L)
           J    == {j \in ValidSlots : j >= last}
           T    == {0} \cup {idxFile[j].fpos + 1 : j \in J}
           fp   == [i \in 1..Len(idxFile) |-> idxFile[i].fpos + 1]
<1>1. LoadedDatPos = IF ValidSlots = {} THEN 0 ELSE MaxOf(T)
  BY DEF LoadedDatPos
<1>2. Len(idxFile) \in Nat /\ ValidSlots \in SUBSET (1..Len(idxFile))
  BY ValidSlotsFacts
<1>3. \A i \in 1..Len(idxFile) : idxFile[i].fpos \in Nat
  <2>1. \A i \in 1..Len(idxFile) : idxFile[i] \in IdxRec
    OBVIOUS
  <2>2. QED
    BY <2>1 DEF IdxRec
<1>4. PICK m \in Nat : \A i \in 1..Len(idxFile) : fp[i] <= m
  <2>1. fp \in [1..Len(idxFile) -> Nat]
    BY <1>3
  <2> HIDE DEF fp
  <2>2. QED
    BY <1>2, <2>1, ListBound
<1>5. \A i \in 1..Len(idxFile) : idxFile[i].fpos + 1 <= m
  BY <1>4
<1>6. T \in SUBSET Nat /\ T # {} /\ \A t \in T : t <= m
  <2>1. \A j \in J : idxFile[j].fpos + 1 \in Nat /\ idxFile[j].fpos + 1 <= m
    BY <1>2, <1>3, <1>5
  <2>2. 0 \in Nat /\ 0 <= m
    OBVIOUS
  <2> HIDE DEF J
  <2>3. QED
    BY <2>1, <2>2, Zenon
<1>7. \A j \in J : idxFile[j].fpos + 1 \in T
  OBVIOUS
<1>8. \A t \in T : t = 0 \/ \E j \in J : t = idxFile[j].fpos + 1
  OBVIOUS
<1>9. L \in SUBSET Nat /\ (ValidSlots # {} => L # {})
  BY <1>2, LoadedDatFacts
<1>10. ValidSlots # {} => last \in L /\ \A i \in L : last <= i
  <2> HIDE DEF L
  <2>1. QED
    BY <1>9, MinOfIn
<1>11. \A j \in J : j \in ValidSlots /\ j >= last
  OBVIOUS
<1>12. \A i \in L : i \in J
  BY <1>2, <1>9, <1>10
<1>13. \A i \in L : i \in ValidSlots /\ idxFile[i].dat = LoadedDat
  OBVIOUS
<1>14. \A i \in ValidSlots : idxFile[i].dat = LoadedDat => i \in L
  OBVIOUS
<1> HIDE DEF L, last, J, T, fp
<1>15. MaxOf(T) \in T /\ \A t \in T : t <= MaxOf(T)
  BY <1>6, MaxOfIn
<1>16. LoadedDatPos \in Nat
  BY <1>1, <1>6, <1>15
<1>17. ASSUME NEW i \in ValidSlots, idxFile[i].dat = LoadedDat
       PROVE  idxFile[i].fpos < LoadedDatPos
  <2>1. i \in J /\ ValidSlots # {}
    BY <1>12, <1>14, <1>17
  <2>2. idxFile[i].fpos + 1 <= LoadedDatPos
    BY <1>1, <1>7, <1>15, <2>1
  <2>3. idxFile[i].fpos \in Nat
    BY <1>2, <1>3
  <2>4. QED
    BY <1>16, <2>2, <2>3
<1>18. ASSUME LoadedDatPos # 0
       PROVE  \E i, j \in ValidSlots :
                 idxFile[i].dat = LoadedDat /\ j >= i /\ LoadedDatPos = idxFile[j].fpos + 1
  <2>1. ValidSlots # {} /\ LoadedDatPos \in T
    BY <1>1, <1>15, <1>18
  <2>2. PICK j \in J : LoadedDatPos = idxFile[j].fpos + 1
    BY <1>8, <1>18, <2>1
  <2>3. last \in ValidSlots /\ idxFile[last].dat = LoadedDat /\ j \in ValidSlots /\ j >= last
    BY <1>10, <1>11, <1>13, <2>1
  <2>4. QED
    BY <2>2, <2>3
<1>19. QED
  BY <1>16, <1>17, <1>18

-----------------------------------------------------------------------------
(* Types and memory *)

NoWrite == [pc |-> "idle", block |-> NoData]
NoRead  == [pc |-> "idle", block |-> NoData, data |-> NoData]

\* Nothing is left in memory of a process that is not running.
DownInv ==
    mode = "down" =>
        /\ blockIndex = [b \in Block |-> NoRec]
        /\ cache = [b \in Block |-> NoData]
        /\ blocksToWrite = <<>> /\ writer = NoWrite
        /\ removing = {}
        /\ reader = [r \in Reader |-> NoRead]

\* Records are never written beyond the end of the index file.
IndexPosInv == mode = "up" => maxidxfilepos <= Len(idxFile)

\* The block that is being written.
WriterInv ==
    /\ writer.pc \in {"idle", "take"} => writer.block = NoData
    /\ writer.pc = "data" => writer.block \in Block /\ Unwritten(writer.block)
    /\ writer.pc = "index" => /\ writer.block \in Block /\ Known(writer.block)
                              /\ ~Unwritten(writer.block)

\* A block that is being read from a file has been written.
ReaderInv ==
    \A r \in Reader : reader[r].pc \in {"read", "store"} =>
        reader[r].block \in Block /\ Known(reader[r].block) /\ ~Unwritten(reader[r].block)

\* The cache holds blocks of the index only.
CacheInv == \A b \in Block : ~Known(b) => cache[b] = NoData

MemInv == DownInv /\ IndexPosInv /\ WriterInv /\ ReaderInv /\ CacheInv /\ UnwrittenIsCached

\* addToCache: blocks that are not written yet stay; a cached block keeps its
\* data.
LEMMA AddToCacheFacts ==
    ASSUME cache \in [Block -> Block \cup {NoData}], NEW b \in Block, NEW data \in Block \cup {NoData},
           AddToCache(b, data)
    PROVE  /\ cache' \in [Block -> Block \cup {NoData}]
           /\ cache'[b] = IF cache[b] = NoData THEN data ELSE cache[b]
           /\ \A c \in Block \ {b} : /\ cache'[c] \in {cache[c], NoData}
                                     /\ Unwritten(c) => cache'[c] = cache[c]
<1>1. PICK E \in Evictions(b) :
         cache' = [c \in Block |-> IF c \in E THEN NoData
                                   ELSE IF c = b /\ cache[b] = NoData THEN data ELSE cache[c]]
  BY DEF AddToCache
<1>2. E \subseteq {c \in Cached : ~Unwritten(c)} /\ (b \in Cached => E = {})
  BY DEF Evictions
<1>3. b \notin E
  BY <1>2
<1>4. QED
  BY <1>1, <1>2, <1>3

LEMMA TypeInit == Init => TypeOK /\ MemInv
<1> SUFFICES ASSUME Init PROVE TypeOK /\ MemInv
  OBVIOUS
<1>1. TypeOK
  BY BlockDBAssumption DEF Init, TypeOK, WriterState, ReaderState, DatIdx
<1>2. DownInv /\ IndexPosInv /\ WriterInv /\ ReaderInv /\ CacheInv /\ UnwrittenIsCached
  BY DEF Init, DownInv, IndexPosInv, WriterInv, ReaderInv, CacheInv, UnwrittenIsCached,
         NoWrite, NoRead
<1>3. QED
  BY <1>1, <1>2 DEF MemInv

\* setBlockFlag of a block that is in the index.
LEMMA SetBlockFlagFacts ==
    ASSUME TypeOK, NEW b \in Block, Known(b), NEW fl, SetBlockFlag(b, fl)
    PROVE  /\ blockIndex' \in [Block -> OneBl \cup {NoRec}]
           /\ \A c \in Block \ {b} : blockIndex'[c] = blockIndex[c]
           /\ blockIndex'[b] = [blockIndex[b] EXCEPT !.trusted = TRUE]
           /\ blockIndex'[b] # NoRec /\ blockIndex'[b].ipos = blockIndex[b].ipos
           /\ idxFile' \in Seq(IdxRec) /\ Len(idxFile') = Len(idxFile)
           /\ \A i \in DOMAIN idxFile :
                 /\ idxFile'[i].block = idxFile[i].block
                 /\ idxFile'[i].dat = idxFile[i].dat /\ idxFile'[i].fpos = idxFile[i].fpos
                 /\ i # blockIndex[b].ipos + 1 => idxFile'[i] = idxFile[i]
                 /\ i = blockIndex[b].ipos + 1 =>
                       IF fl = "invalid"
                       THEN idxFile'[i].invalid /\ idxFile'[i].trusted = idxFile[i].trusted
                       ELSE idxFile'[i].trusted /\ idxFile'[i].invalid = idxFile[i].invalid
<1> DEFINE slot == blockIndex[b].ipos + 1
<1>1. blockIndex[b] \in OneBl /\ blockIndex \in [Block -> OneBl \cup {NoRec}]
  BY DEF TypeOK, Known
<1>2. blockIndex' = [blockIndex EXCEPT ![b].trusted = TRUE]
  BY DEF SetBlockFlag
<1>3. [blockIndex[b] EXCEPT !.trusted = TRUE] \in OneBl
  BY <1>1 DEF OneBl
<1>4. [blockIndex[b] EXCEPT !.trusted = TRUE].ipos = blockIndex[b].ipos
  BY <1>1 DEF OneBl
<1>5. /\ blockIndex' \in [Block -> OneBl \cup {NoRec}]
      /\ \A c \in Block \ {b} : blockIndex'[c] = blockIndex[c]
      /\ blockIndex'[b] = [blockIndex[b] EXCEPT !.trusted = TRUE]
  BY <1>1, <1>2, <1>3
<1>6. blockIndex'[b] # NoRec /\ blockIndex'[b].ipos = blockIndex[b].ipos
  BY <1>3, <1>4, <1>5, RecordsAreKnown
<1>7. idxFile \in Seq(IdxRec) /\ \A i \in DOMAIN idxFile : idxFile[i] \in IdxRec
  BY DEF TypeOK
<1>8. CASE slot \notin DOMAIN idxFile
  BY <1>5, <1>6, <1>7, <1>8 DEF SetBlockFlag
<1>9. CASE slot \in DOMAIN idxFile
  <2> DEFINE rec == IF fl = "invalid" THEN [idxFile[slot] EXCEPT !.invalid = TRUE]
                    ELSE [idxFile[slot] EXCEPT !.trusted = TRUE]
  <2>1. idxFile[slot] \in IdxRec
    BY <1>7, <1>9
  <2>2. rec \in IdxRec
    BY <2>1 DEF IdxRec
  <2>3. /\ rec.block = idxFile[slot].block /\ rec.dat = idxFile[slot].dat
        /\ rec.fpos = idxFile[slot].fpos
        /\ IF fl = "invalid" THEN rec.invalid = TRUE /\ rec.trusted = idxFile[slot].trusted
           ELSE rec.trusted = TRUE /\ rec.invalid = idxFile[slot].invalid
    BY <2>1 DEF IdxRec
  <2>4. idxFile' = [idxFile EXCEPT ![slot] = rec]
    BY <1>9 DEF SetBlockFlag
  <2> HIDE DEF rec, slot
  <2>5. idxFile' \in Seq(IdxRec) /\ Len(idxFile') = Len(idxFile)
    BY <1>7, <1>9, <2>2, <2>4
  <2>6. \A i \in DOMAIN idxFile : idxFile'[i] = IF i = slot THEN rec ELSE idxFile[i]
    BY <1>7, <2>4
  <2>7. QED
    BY <1>5, <1>6, <2>3, <2>5, <2>6 DEF slot
<1>10. QED
  BY <1>8, <1>9

\* Flags do not change which blocks are known or written.
LEMMA SameStatus ==
    ASSUME MemInv, NEW b \in Block, Known(b), blockIndex'[b] # NoRec,
           blockIndex'[b].ipos = blockIndex[b].ipos,
           \A c \in Block \ {b} : blockIndex'[c] = blockIndex[c],
           IndexPosInv', UNCHANGED <<mode, cache, blocksToWrite, writer, removing, reader>>,
           mode = "up"
    PROVE  MemInv'
<1>1. \A c \in Block : Known(c)' = Known(c) /\ Unwritten(c)' = Unwritten(c)
  BY DEF Known, Unwritten
<1>2. WriterInv'
  BY <1>1 DEF MemInv, WriterInv
<1>3. ReaderInv'
  BY <1>1 DEF MemInv, ReaderInv
<1>4. CacheInv' /\ UnwrittenIsCached' /\ DownInv'
  BY <1>1 DEF MemInv, CacheInv, UnwrittenIsCached, DownInv
<1>5. QED
  BY <1>2, <1>3, <1>4 DEF MemInv

LEMMA LoadMem ==
    ASSUME TypeOK, MemInv, LoadBlockIndex
    PROVE  TypeOK' /\ MemInv'
<1>1. mode = "down" /\ mode' = "up" /\ idxFile \in Seq(IdxRec) /\ idxFile' = idxFile
  BY DEF LoadBlockIndex, TypeOK
<1>2. /\ blockIndex' = [b \in Block |-> LoadedRec(b)]
      /\ maxidxfilepos' = Cardinality(ValidSlots)
      /\ maxdatfileidx' = LoadedDat /\ maxdatfilepos' = LoadedDatPos
  BY DEF LoadBlockIndex
<1>3. /\ cache = [b \in Block |-> NoData] /\ blocksToWrite = <<>> /\ writer = NoWrite
      /\ reader = [r \in Reader |-> NoRead]
  BY <1>1 DEF MemInv, DownInv
<1>4. UNCHANGED <<cache, blocksToWrite, writer, removing, reader>>
  BY DEF LoadBlockIndex
<1>5. blockIndex' \in [Block -> OneBl \cup {NoRec}]
  BY <1>1, <1>2, LoadedRecFacts
<1>6. maxidxfilepos' \in Nat /\ maxidxfilepos' <= Len(idxFile)
  BY <1>1, <1>2, ValidSlotsFacts
<1>7. maxdatfileidx' \in DatIdx /\ maxdatfilepos' \in Nat
  BY <1>1, <1>2, LoadedDatFacts, LoadedDatPosFacts
<1>8. LoadRemoves \subseteq datDir
  BY DEF LoadRemoves
<1>9. datDir' \subseteq DatIdx /\ arcDir' \subseteq DatIdx
  BY <1>1, <1>8, LoadedDatFacts DEF LoadBlockIndex, TypeOK
<1>10. TypeOK'
  BY <1>5, <1>6, <1>7, <1>9 DEF LoadBlockIndex, TypeOK
<1>11. \A b \in Block : ~Unwritten(b)'
  BY <1>1, <1>2, LoadedRecFacts DEF Unwritten, Known
<1>12. MemInv'
  BY <1>1, <1>3, <1>4, <1>6, <1>11
     DEF MemInv, DownInv, IndexPosInv, WriterInv, ReaderInv, CacheInv, UnwrittenIsCached,
         NoWrite, NoRead
<1>13. QED
  BY <1>10, <1>12

LEMMA StopMem ==
    ASSUME TypeOK, MemInv, Stop, crashes' \in 0..MaxCrash
    PROVE  TypeOK' /\ MemInv'
<1>1. TypeOK'
  BY BlockDBAssumption DEF Stop, TypeOK, WriterState, ReaderState, DatIdx, diskVars
<1>2. MemInv'
  BY DEF Stop, MemInv, DownInv, IndexPosInv, WriterInv, ReaderInv, CacheInv, UnwrittenIsCached,
         NoWrite, NoRead, Known, Unwritten
<1>3. QED
  BY <1>1, <1>2

LEMMA AddNewMem ==
    ASSUME TypeOK, MemInv, NEW b \in Block, NEW t \in BOOLEAN, BlockAddNew(b, t)
    PROVE  TypeOK' /\ MemInv'
<1> DEFINE rec == [ipos |-> -1, dat |-> 0, fpos |-> 0, trusted |-> t]
<1>1. /\ mode = "up" /\ mode' = "up" /\ writer.pc = "idle" /\ ~Known(b)
      /\ blockIndex' = [blockIndex EXCEPT ![b] = rec]
      /\ AddToCache(b, b) /\ blocksToWrite' = Append(blocksToWrite, b)
      /\ writer' \in {[pc |-> "take", block |-> NoData], writer}
      /\ UNCHANGED <<posVars, diskVars, removing, reader, crashes>>
  BY DEF BlockAddNew, MainFree, StartWriting
<1>2. rec \in OneBl /\ rec.ipos = -1
  BY BlockDBAssumption DEF OneBl, DatIdx
<1>3. rec # NoRec
  BY <1>2, RecordsAreKnown
<1> HIDE DEF rec
<1>4. blockIndex \in [Block -> OneBl \cup {NoRec}] /\ cache \in [Block -> Block \cup {NoData}]
  BY DEF TypeOK
<1>5. /\ cache' \in [Block -> Block \cup {NoData}] /\ cache'[b] = b
      /\ \A c \in Block \ {b} : /\ cache'[c] \in {cache[c], NoData}
                                /\ Unwritten(c) => cache'[c] = cache[c]
  BY <1>1, <1>4, AddToCacheFacts DEF MemInv, CacheInv
<1>6. /\ \A c \in Block \ {b} : Known(c)' = Known(c) /\ Unwritten(c)' = Unwritten(c)
      /\ Known(b)' /\ Unwritten(b)'
  BY <1>1, <1>2, <1>3, <1>4 DEF Known, Unwritten
<1>7. TypeOK'
  <2>1. blockIndex' \in [Block -> OneBl \cup {NoRec}]
    BY <1>1, <1>2, <1>4
  <2>2. blocksToWrite' \in Seq(Block) /\ writer' \in WriterState
    BY <1>1 DEF TypeOK, WriterState
  <2>3. QED
    BY <1>1, <1>5, <2>1, <2>2 DEF TypeOK, posVars, diskVars
<1>8. /\ blocksToWrite'[Len(blocksToWrite) + 1] = b
      /\ Len(blocksToWrite) + 1 \in DOMAIN blocksToWrite'
      /\ \A i \in DOMAIN blocksToWrite : i \in DOMAIN blocksToWrite' /\ blocksToWrite'[i] = blocksToWrite[i]
  BY <1>1 DEF TypeOK
<1>9. UnwrittenIsCached'
  <2>1. ASSUME NEW c \in Block, Unwritten(c)'
        PROVE  /\ cache'[c] = c
               /\ (\E i \in DOMAIN blocksToWrite' : blocksToWrite'[i] = c) \/ writer'.block = c
    <3>1. CASE c = b
      BY <3>1, <1>5, <1>8
    <3>2. CASE c # b
      <4>1. Unwritten(c)
        BY <1>6, <2>1, <3>2
      <4>2. cache[c] = c /\ ((\E i \in DOMAIN blocksToWrite : blocksToWrite[i] = c) \/ writer.block = c)
        BY <1>1, <4>1 DEF MemInv, UnwrittenIsCached
      <4>3. writer.block = NoData /\ c # NoData
        BY <1>1, BlockDBAssumption DEF MemInv, WriterInv
      <4>4. QED
        BY <1>5, <1>8, <3>2, <4>1, <4>2, <4>3
    <3>3. QED
      BY <3>1, <3>2
  <2>2. QED
    BY <2>1 DEF UnwrittenIsCached
<1>10. ReaderInv'
  BY <1>1, <1>6 DEF MemInv, ReaderInv
<1>11. WriterInv'
  BY <1>1 DEF MemInv, WriterInv
<1>12. CacheInv' /\ DownInv' /\ IndexPosInv'
  BY <1>1, <1>5, <1>6 DEF MemInv, CacheInv, DownInv, IndexPosInv, posVars, diskVars
<1>13. QED
  BY <1>7, <1>9, <1>10, <1>11, <1>12 DEF MemInv

\* Blocks that become trusted or are flagged invalid.
LEMMA FlagMem ==
    ASSUME TypeOK, MemInv, NEW b \in Block, NEW fl, SetBlockFlag(b, fl), Known(b), mode = "up",
           UNCHANGED <<mode, cache, blocksToWrite, writer, posVars, datFile, datDir,
                       arcDir, removing, reader, crashes>>
    PROVE  TypeOK' /\ MemInv'
<1>1. TypeOK'
  BY SetBlockFlagFacts DEF TypeOK, posVars
<1>2. IndexPosInv'
  BY SetBlockFlagFacts DEF MemInv, IndexPosInv, posVars
<1>3. MemInv'
  BY <1>2, SetBlockFlagFacts, SameStatus
<1>4. QED
  BY <1>1, <1>3

LEMMA TrustedInMemoryMem ==
    ASSUME TypeOK, MemInv, NEW b \in Block, Known(b), mode = "up",
           blockIndex' = [blockIndex EXCEPT ![b].trusted = TRUE],
           UNCHANGED <<idxFile, mode, cache, blocksToWrite, writer, posVars, datFile, datDir,
                       arcDir, removing, reader, crashes>>
    PROVE  TypeOK' /\ MemInv'
<1>1. blockIndex[b] \in OneBl /\ blockIndex \in [Block -> OneBl \cup {NoRec}]
  BY DEF TypeOK, Known
<1>2. /\ [blockIndex[b] EXCEPT !.trusted = TRUE] \in OneBl
      /\ [blockIndex[b] EXCEPT !.trusted = TRUE].ipos = blockIndex[b].ipos
  BY <1>1 DEF OneBl
<1>3. /\ blockIndex' \in [Block -> OneBl \cup {NoRec}]
      /\ \A c \in Block \ {b} : blockIndex'[c] = blockIndex[c]
      /\ blockIndex'[b] # NoRec /\ blockIndex'[b].ipos = blockIndex[b].ipos
  BY <1>1, <1>2, RecordsAreKnown
<1>4. TypeOK'
  BY <1>3 DEF TypeOK, posVars
<1>5. IndexPosInv'
  BY DEF MemInv, IndexPosInv, posVars
<1>6. MemInv'
  BY <1>3, <1>5, SameStatus
<1>7. QED
  BY <1>4, <1>6

LEMMA DropMem ==
    ASSUME TypeOK, MemInv, NEW b \in Block, BlockInvalidDrop(b)
    PROVE  TypeOK' /\ MemInv'
<1>1. /\ mode = "up" /\ mode' = "up" /\ writer.pc = "idle" /\ Unwritten(b)
      /\ blockIndex' = [blockIndex EXCEPT ![b] = NoRec]
      /\ cache' = [cache EXCEPT ![b] = NoData]
      /\ UNCHANGED <<blocksToWrite, writer, posVars, diskVars, removing, reader, crashes>>
  BY DEF BlockInvalidDrop, MainFree
<1>2. blockIndex \in [Block -> OneBl \cup {NoRec}] /\ cache \in [Block -> Block \cup {NoData}]
  BY DEF TypeOK
<1>3. TypeOK'
  BY <1>1, <1>2 DEF TypeOK, posVars, diskVars
<1>4. /\ ~Known(b)' /\ ~Unwritten(b)' /\ cache'[b] = NoData
      /\ \A c \in Block \ {b} : /\ Known(c)' = Known(c) /\ Unwritten(c)' = Unwritten(c)
                                /\ cache'[c] = cache[c]
  BY <1>1, <1>2 DEF Known, Unwritten
<1>5. UnwrittenIsCached' /\ CacheInv'
  BY <1>1, <1>4 DEF MemInv, UnwrittenIsCached, CacheInv
<1>6. ReaderInv'
  BY <1>1, <1>4 DEF MemInv, ReaderInv
<1>7. WriterInv' /\ DownInv' /\ IndexPosInv'
  BY <1>1, <1>4 DEF MemInv, WriterInv, DownInv, IndexPosInv, posVars, diskVars
<1>8. QED
  BY <1>3, <1>5, <1>6, <1>7 DEF MemInv

\* Idle and the steps of writeAll between the blocks.
LEMMA QueueMem ==
    ASSUME TypeOK, MemInv, Idle \/ WriteDone
    PROVE  TypeOK' /\ MemInv'
<1>1. /\ mode = "up" /\ mode' = "up" /\ writer.pc \in {"idle", "take"}
      /\ writer' \in {[pc |-> "take", block |-> NoData], [pc |-> "idle", block |-> NoData]}
      /\ UNCHANGED <<blockIndex, cache, blocksToWrite, posVars, diskVars, removing, reader, crashes>>
  BY DEF Idle, WriteDone, MainFree, StartWriting
<1>2. TypeOK'
  BY <1>1 DEF TypeOK, WriterState, posVars, diskVars
<1>3. writer.block = NoData
  BY <1>1 DEF MemInv, WriterInv
<1>4. WriterInv' /\ ReaderInv' /\ CacheInv' /\ DownInv' /\ IndexPosInv'
  BY <1>1 DEF MemInv, WriterInv, ReaderInv, CacheInv, DownInv, IndexPosInv, Known, Unwritten,
              posVars, diskVars
<1>5. UnwrittenIsCached'
  BY <1>1, <1>3, BlockDBAssumption DEF MemInv, UnwrittenIsCached, Known, Unwritten
<1>6. QED
  BY <1>2, <1>4, <1>5 DEF MemInv

LEMMA TakeMem ==
    ASSUME TypeOK, MemInv, WriteTake
    PROVE  TypeOK' /\ MemInv'
<1> DEFINE h == Head(blocksToWrite)
<1>1. /\ mode = "up" /\ mode' = "up" /\ writer.pc = "take" /\ blocksToWrite # <<>>
      /\ blocksToWrite' = Tail(blocksToWrite)
      /\ writer' = IF Unwritten(h) THEN [pc |-> "data", block |-> h]
                   ELSE [pc |-> "take", block |-> NoData]
      /\ UNCHANGED <<blockIndex, cache, posVars, diskVars, removing, reader, crashes>>
  BY DEF WriteTake
<1>2. /\ blocksToWrite \in Seq(Block) /\ h \in Block /\ blocksToWrite' \in Seq(Block)
      /\ \A i \in DOMAIN blocksToWrite :
            blocksToWrite[i] = h \/ \E j \in DOMAIN blocksToWrite' : blocksToWrite'[j] = blocksToWrite[i]
  <2>1. blocksToWrite \in Seq(Block) /\ blocksToWrite # <<>>
    BY <1>1 DEF TypeOK
  <2>2. h \in Block /\ Tail(blocksToWrite) \in Seq(Block) /\ h = blocksToWrite[1]
    BY <2>1
  <2>3. ASSUME NEW i \in DOMAIN blocksToWrite, i # 1
        PROVE  i - 1 \in DOMAIN Tail(blocksToWrite) /\ Tail(blocksToWrite)[i - 1] = blocksToWrite[i]
    BY <2>1, <2>3
  <2>4. QED
    BY <1>1, <2>1, <2>2, <2>3
<1> HIDE DEF h
<1>3. TypeOK'
  <2>1. writer' \in WriterState
    BY <1>1, <1>2 DEF WriterState
  <2>2. QED
    BY <1>1, <1>2, <2>1 DEF TypeOK, posVars, diskVars
<1>4. writer.block = NoData
  BY <1>1 DEF MemInv, WriterInv
<1>5. \A c \in Block : Known(c)' = Known(c) /\ Unwritten(c)' = Unwritten(c)
  BY <1>1 DEF Known, Unwritten
<1>6. WriterInv'
  BY <1>1, <1>2, <1>5 DEF WriterInv
<1>7. ReaderInv' /\ CacheInv' /\ DownInv' /\ IndexPosInv'
  BY <1>1, <1>5 DEF MemInv, ReaderInv, CacheInv, DownInv, IndexPosInv, posVars, diskVars
<1>8. UnwrittenIsCached'
  <2>1. ASSUME NEW c \in Block, Unwritten(c)'
        PROVE  /\ cache'[c] = c
               /\ (\E i \in DOMAIN blocksToWrite' : blocksToWrite'[i] = c) \/ writer'.block = c
    <3>1. cache[c] = c /\ Unwritten(c) /\ \E i \in DOMAIN blocksToWrite : blocksToWrite[i] = c
      BY <1>1, <1>4, <1>5, <2>1, BlockDBAssumption DEF MemInv, UnwrittenIsCached
    <3>2. QED
      BY <1>1, <1>2, <3>1
  <2>2. QED
    BY <2>1 DEF UnwrittenIsCached
<1>9. QED
  BY <1>3, <1>6, <1>7, <1>8 DEF MemInv

\* The data of the block is written; from here on it has a place in the file.
LEMMA DataMem ==
    ASSUME TypeOK, MemInv, WriteData
    PROVE  TypeOK' /\ MemInv'
<1> DEFINE b   == writer.block
           dat == IF RollOver THEN maxdatfileidx + 1 ELSE maxdatfileidx
           pos == IF RollOver THEN 0 ELSE maxdatfilepos
           rec == [blockIndex[b] EXCEPT !.ipos = maxidxfilepos, !.dat = dat, !.fpos = pos]
           file == WriteAt(IF RollOver THEN <<>> ELSE datFile[dat], pos, b)
<1>1. /\ mode = "up" /\ mode' = "up" /\ writer.pc = "data" /\ dat \in DatIdx
      /\ blockIndex' = [blockIndex EXCEPT ![b] = rec]
      /\ datFile' = [datFile EXCEPT ![dat] = file]
      /\ datDir' = datDir \cup {dat} /\ removing' = removing \cup Expired
      /\ maxdatfileidx' = dat /\ maxdatfilepos' = pos
      /\ writer' = [writer EXCEPT !.pc = "index"]
      /\ UNCHANGED <<cache, blocksToWrite, maxidxfilepos, idxFile, arcDir, reader, crashes>>
  BY DEF WriteData
<1>2. b \in Block /\ Unwritten(b) /\ Known(b) /\ blockIndex[b] \in OneBl
  BY <1>1 DEF MemInv, WriterInv, Unwritten, TypeOK, Known
<1>3. pos \in Nat /\ maxidxfilepos \in Nat
  BY DEF TypeOK
<1>4. rec \in OneBl /\ rec.ipos = maxidxfilepos
  BY <1>1, <1>2, <1>3 DEF OneBl
<1>5. file \in Seq(Block \cup {NoData})
  <2>1. (IF RollOver THEN <<>> ELSE datFile[dat]) \in Seq(Block \cup {NoData})
    BY <1>1 DEF TypeOK
  <2>2. b \in Block \cup {NoData}
    BY <1>2
  <2> HIDE DEF b, dat, pos
  <2>3. QED
    BY <1>3, <2>1, <2>2, WriteAtFile
<1>6. Expired \subseteq DatIdx
  BY BlockDBAssumption DEF Expired, TypeOK, DatIdx
<1> HIDE DEF rec, file, dat, pos
<1>7. TypeOK'
  <2>1. blockIndex' \in [Block -> OneBl \cup {NoRec}] /\ datFile' \in [DatIdx -> Seq(Block \cup {NoData})]
    BY <1>1, <1>2, <1>4, <1>5 DEF TypeOK
  <2>2. writer' \in WriterState
    BY <1>1 DEF TypeOK, WriterState
  <2>3. QED
    BY <1>1, <1>3, <1>6, <2>1, <2>2 DEF TypeOK
<1>8. rec # NoRec /\ rec.ipos # -1
  BY <1>3, <1>4, RecordsAreKnown
<1>9. /\ Known(b)' /\ ~Unwritten(b)'
      /\ \A c \in Block \ {b} : Known(c)' = Known(c) /\ Unwritten(c)' = Unwritten(c)
  BY <1>1, <1>2, <1>8 DEF TypeOK, Known, Unwritten
<1>10. writer'.pc = "index" /\ writer'.block = b
  BY <1>1 DEF TypeOK, WriterState
<1>11. WriterInv'
  BY <1>2, <1>9, <1>10 DEF WriterInv, Known, Unwritten
<1>12. ReaderInv' /\ CacheInv' /\ DownInv' /\ IndexPosInv'
  BY <1>1, <1>2, <1>9 DEF MemInv, ReaderInv, CacheInv, DownInv, IndexPosInv
<1>13. UnwrittenIsCached'
  BY <1>1, <1>2, <1>9 DEF MemInv, UnwrittenIsCached
<1>14. QED
  BY <1>7, <1>11, <1>12, <1>13 DEF MemInv

LEMMA IndexMem ==
    ASSUME TypeOK, MemInv, WriteIndex
    PROVE  TypeOK' /\ MemInv'
<1> DEFINE b   == writer.block
           rec == [block |-> b, dat |-> blockIndex[b].dat, fpos |-> blockIndex[b].fpos,
                   trusted |-> blockIndex[b].trusted, invalid |-> FALSE]
<1>1. /\ mode = "up" /\ mode' = "up" /\ writer.pc = "index"
      /\ idxFile' = WriteAt(idxFile, maxidxfilepos, rec)
      /\ maxidxfilepos' = maxidxfilepos + 1 /\ maxdatfilepos' = maxdatfilepos + 1
      /\ writer' = [pc |-> "take", block |-> NoData]
      /\ UNCHANGED <<blockIndex, cache, blocksToWrite, maxdatfileidx, datFile, datDir, arcDir,
                     removing, reader, crashes>>
  BY DEF WriteIndex
<1>2. b \in Block /\ Known(b) /\ ~Unwritten(b) /\ blockIndex[b] \in OneBl
  BY <1>1 DEF MemInv, WriterInv, Unwritten, TypeOK, Known
<1>3. rec \in IdxRec
  BY <1>2 DEF OneBl, IdxRec
<1>4. maxidxfilepos \in Nat /\ maxdatfilepos \in Nat /\ idxFile \in Seq(IdxRec)
  BY DEF TypeOK
<1>5. maxidxfilepos <= Len(idxFile)
  BY <1>1 DEF MemInv, IndexPosInv
<1> HIDE DEF rec, b
<1>6. idxFile' \in Seq(IdxRec)
  BY <1>1, <1>3, <1>4, <1>5, WriteAtFile
<1>7. Len(idxFile') = IF maxidxfilepos + 1 > Len(idxFile) THEN maxidxfilepos + 1 ELSE Len(idxFile)
  BY <1>1, <1>4, WriteAtElements
<1>8. TypeOK'
  <2>1. writer' \in WriterState
    BY <1>1 DEF WriterState
  <2>2. QED
    BY <1>1, <1>4, <1>6, <2>1 DEF TypeOK
<1>9. IndexPosInv'
  BY <1>1, <1>4, <1>6, <1>7 DEF IndexPosInv
<1>10. \A c \in Block : Known(c)' = Known(c) /\ Unwritten(c)' = Unwritten(c)
  BY <1>1 DEF Known, Unwritten
<1>11. UnwrittenIsCached'
  BY <1>1, <1>2, <1>10 DEF MemInv, UnwrittenIsCached, b
<1>12. WriterInv' /\ ReaderInv' /\ CacheInv' /\ DownInv'
  BY <1>1, <1>10 DEF MemInv, WriterInv, ReaderInv, CacheInv, DownInv
<1>13. QED
  BY <1>8, <1>9, <1>11, <1>12 DEF MemInv

LEMMA RemoveMem ==
    ASSUME TypeOK, MemInv, NEW d \in DatIdx, RemoveDatFile(d)
    PROVE  TypeOK' /\ MemInv'
<1>1. TypeOK'
  BY DEF RemoveDatFile, TypeOK, memVars, posVars
<1>2. \A c \in Block : Known(c)' = Known(c) /\ Unwritten(c)' = Unwritten(c)
  BY DEF RemoveDatFile, memVars, Known, Unwritten
<1>3. MemInv'
  BY <1>2 DEF RemoveDatFile, memVars, posVars, MemInv, WriterInv, ReaderInv, CacheInv, DownInv,
              IndexPosInv, UnwrittenIsCached
<1>4. QED
  BY <1>1, <1>3

\* A step of one reader that leaves everything but its own state alone.
LEMMA ReaderOnlyMem ==
    ASSUME TypeOK, MemInv, mode = "up", NEW r \in Reader, NEW st \in ReaderState,
           reader' = [reader EXCEPT ![r] = st],
           st.pc \in {"read", "store"} =>
              st.block \in Block /\ Known(st.block) /\ ~Unwritten(st.block),
           UNCHANGED <<mode, memVars, posVars, diskVars, removing, crashes>>
    PROVE  TypeOK' /\ MemInv'
<1>1. TypeOK'
  BY DEF TypeOK, memVars, posVars, diskVars
<1>2. \A c : Known(c)' = Known(c) /\ Unwritten(c)' = Unwritten(c)
  BY DEF memVars, Known, Unwritten
<1>3. ReaderInv'
  <2>1. \A q \in Reader : reader'[q] = IF q = r THEN st ELSE reader[q]
    BY DEF TypeOK
  <2>2. QED
    BY <1>2, <2>1 DEF MemInv, ReaderInv
<1>4. WriterInv' /\ CacheInv' /\ DownInv' /\ IndexPosInv' /\ UnwrittenIsCached'
  BY <1>2 DEF memVars, posVars, diskVars, MemInv, WriterInv, CacheInv, DownInv, IndexPosInv,
              UnwrittenIsCached
<1>5. QED
  BY <1>1, <1>3, <1>4 DEF MemInv

LEMMA ReaderMem ==
    ASSUME TypeOK, MemInv, NEW r \in Reader, ReaderNext(r)
    PROVE  TypeOK' /\ MemInv'
<1>r. reader[r] \in ReaderState /\ reader \in [Reader -> ReaderState]
  BY DEF TypeOK
<1>1. ASSUME NEW b \in Block, GetLookup(r, b) PROVE TypeOK' /\ MemInv'
  <2> DEFINE st == IF cache[b] # NoData THEN [pc |-> "done", block |-> b, data |-> cache[b]]
                   ELSE IF Unwritten(b) THEN [pc |-> "done", block |-> b, data |-> NoData]
                   ELSE [pc |-> "read", block |-> b, data |-> NoData]
  <2>1. /\ mode = "up" /\ Known(b) /\ reader' = [reader EXCEPT ![r] = st]
        /\ UNCHANGED <<mode, memVars, posVars, diskVars, removing, crashes>>
    BY <1>1 DEF GetLookup
  <2>2. cache[b] \in Block \cup {NoData}
    BY DEF TypeOK
  <2>3. st \in ReaderState
    BY <2>2 DEF ReaderState
  <2>4. st.pc \in {"read", "store"} => st.block \in Block /\ Known(st.block) /\ ~Unwritten(st.block)
    BY <2>1
  <2> HIDE DEF st
  <2>5. QED
    BY <2>1, <2>3, <2>4, ReaderOnlyMem
<1>2. CASE GetRead(r)
  <2> DEFINE rec == blockIndex[reader[r].block]
  <2>1. /\ mode = "up" /\ reader[r].pc = "read"
        /\ UNCHANGED <<mode, memVars, posVars, diskVars, removing, crashes>>
    BY <1>2 DEF GetRead
  <2>2. /\ reader[r].block \in Block /\ Known(reader[r].block) /\ ~Unwritten(reader[r].block)
        /\ rec \in OneBl
    BY <2>1 DEF MemInv, ReaderInv, TypeOK, Known
  <2>3. PICK do_not_cache \in BOOLEAN :
           reader' = [reader EXCEPT ![r] =
                IF rec.dat \in datDir \cup arcDir /\ rec.fpos + 1 \in DOMAIN datFile[rec.dat]
                THEN [reader[r] EXCEPT !.pc = IF do_not_cache THEN "done" ELSE "store",
                                       !.data = datFile[rec.dat][rec.fpos + 1]]
                ELSE [reader[r] EXCEPT !.pc = "done"]]
    BY <1>2, <1>r DEF GetRead
  <2> DEFINE st == IF rec.dat \in datDir \cup arcDir /\ rec.fpos + 1 \in DOMAIN datFile[rec.dat]
                   THEN [reader[r] EXCEPT !.pc = IF do_not_cache THEN "done" ELSE "store",
                                          !.data = datFile[rec.dat][rec.fpos + 1]]
                   ELSE [reader[r] EXCEPT !.pc = "done"]
  <2>4. rec.dat \in DatIdx
    BY <2>2 DEF OneBl
  <2>5. rec.fpos + 1 \in DOMAIN datFile[rec.dat] =>
           datFile[rec.dat][rec.fpos + 1] \in Block \cup {NoData}
    <3>1. datFile[rec.dat] \in Seq(Block \cup {NoData})
      BY <2>4 DEF TypeOK
    <3> HIDE DEF rec
    <3>2. QED
      BY <3>1
  <2>6. st \in ReaderState /\ st.block = reader[r].block
    <3> HIDE DEF rec
    <3>1. QED
      BY <1>r, <2>5 DEF ReaderState
  <2> HIDE DEF st, rec
  <2>7. reader' = [reader EXCEPT ![r] = st]
    BY <2>3 DEF st
  <2>8. QED
    BY <2>1, <2>2, <2>6, <2>7, ReaderOnlyMem
<1>3. CASE GetStore(r)
  <2> DEFINE b == reader[r].block
  <2>1. /\ mode = "up" /\ reader[r].pc = "store" /\ AddToCache(b, reader[r].data)
        /\ reader' = [reader EXCEPT ![r].pc = "done"]
        /\ UNCHANGED <<mode, blockIndex, blocksToWrite, writer, posVars, diskVars, removing, crashes>>
    BY <1>3 DEF GetStore
  <2>2. b \in Block /\ Known(b) /\ ~Unwritten(b) /\ reader[r].data \in Block \cup {NoData}
    BY <2>1, <1>r DEF MemInv, ReaderInv, ReaderState
  <2>3. /\ cache' \in [Block -> Block \cup {NoData}]
        /\ \A c \in Block \ {b} : /\ cache'[c] \in {cache[c], NoData}
                                  /\ Unwritten(c) => cache'[c] = cache[c]
    BY <2>1, <2>2, AddToCacheFacts DEF TypeOK
  <2>4. \A q \in Reader : reader'[q] = IF q = r THEN [reader[r] EXCEPT !.pc = "done"] ELSE reader[q]
    BY <1>r, <2>1
  <2>5. reader' \in [Reader -> ReaderState] /\ reader'[r].pc = "done"
    BY <1>r, <2>1 DEF ReaderState
  <2>6. TypeOK'
    BY <2>1, <2>3, <2>5 DEF TypeOK, posVars, diskVars
  <2>7. \A c : Known(c)' = Known(c) /\ Unwritten(c)' = Unwritten(c)
    BY <2>1 DEF Known, Unwritten
  <2>8. ReaderInv'
    BY <2>4, <2>5, <2>7 DEF MemInv, ReaderInv
  <2>9. CacheInv' /\ UnwrittenIsCached'
    BY <2>1, <2>2, <2>3, <2>7 DEF MemInv, CacheInv, UnwrittenIsCached
  <2>10. WriterInv' /\ DownInv' /\ IndexPosInv'
    BY <2>1, <2>7 DEF MemInv, WriterInv, DownInv, IndexPosInv, posVars, diskVars
  <2>11. QED
    BY <2>6, <2>8, <2>9, <2>10 DEF MemInv
<1>4. CASE GetReturn(r)
  <2>1. NoRead \in ReaderState /\ NoRead.pc = "idle"
    BY DEF NoRead, ReaderState
  <2>2. /\ mode = "up" /\ reader' = [reader EXCEPT ![r] = NoRead]
        /\ UNCHANGED <<mode, memVars, posVars, diskVars, removing, crashes>>
    BY <1>4 DEF GetReturn, NoRead
  <2>3. QED
    BY <2>1, <2>2, ReaderOnlyMem
<1>5. QED
  BY <1>1, <1>2, <1>3, <1>4 DEF ReaderNext

LEMMA MemStep == TypeOK /\ MemInv /\ [Next]_vars => TypeOK' /\ MemInv'
<1> SUFFICES ASSUME TypeOK, MemInv, [Next]_vars PROVE TypeOK' /\ MemInv'
  OBVIOUS
<1>1. CASE LoadBlockIndex
  BY <1>1, LoadMem
<1>2. CASE Crash \/ Close
  <2>1. Stop /\ crashes' \in 0..MaxCrash
    BY <1>2, BlockDBAssumption DEF Crash, Close, TypeOK
  <2>2. QED
    BY <2>1, StopMem
<1>3. CASE MainNext
  <2>1. ASSUME NEW b \in Block, NEW t \in {FALSE, b \notin Bad}, BlockAddNew(b, t)
        PROVE  TypeOK' /\ MemInv'
    BY <2>1, AddNewMem
  <2>2. ASSUME NEW b \in Block, BlockAddTrusted(b) \/ BlockTrusted(b)
        PROVE  TypeOK' /\ MemInv'
    <3>1. Known(b) /\ mode = "up"
      BY <2>2 DEF BlockAddTrusted, BlockTrusted, MainFree
    <3>2. UNCHANGED <<mode, cache, blocksToWrite, writer, posVars, datFile, datDir,
                      arcDir, removing, reader, crashes>>
      BY <2>2 DEF BlockAddTrusted, BlockTrusted
    <3>3. \/ blockIndex' = [blockIndex EXCEPT ![b].trusted = TRUE] /\ UNCHANGED idxFile
          \/ SetBlockFlag(b, "trusted")
      BY <2>2 DEF BlockAddTrusted, BlockTrusted
    <3>4. QED
      BY <3>1, <3>2, <3>3, FlagMem, TrustedInMemoryMem
  <2>3. ASSUME NEW b \in Block, BlockInvalidDrop(b)
        PROVE  TypeOK' /\ MemInv'
    BY <2>3, DropMem
  <2>4. ASSUME NEW b \in Block, BlockInvalidFlag(b)
        PROVE  TypeOK' /\ MemInv'
    BY <2>4, FlagMem DEF BlockInvalidFlag, MainFree
  <2>5. CASE Idle
    BY <2>5, QueueMem
  <2>6. Bad \subseteq Block
    BY BlockDBAssumption
  <2>7. QED
    BY <1>3, <2>1, <2>2, <2>3, <2>4, <2>5, <2>6 DEF MainNext
<1>4. CASE WriterNext
  BY <1>4, TakeMem, QueueMem, DataMem, IndexMem DEF WriterNext
<1>5. ASSUME NEW d \in DatIdx, RemoveDatFile(d) PROVE TypeOK' /\ MemInv'
  BY <1>5, RemoveMem
<1>6. ASSUME NEW r \in Reader, ReaderNext(r) PROVE TypeOK' /\ MemInv'
  BY <1>6, ReaderMem
<1>7. CASE UNCHANGED vars
  <2>1. TypeOK'
    BY <1>7 DEF TypeOK, vars, memVars, posVars, diskVars
  <2>2. \A c : Known(c)' = Known(c) /\ Unwritten(c)' = Unwritten(c)
    BY <1>7 DEF Known, Unwritten, vars, memVars
  <2>3. MemInv'
    BY <1>7, <2>2 DEF MemInv, WriterInv, ReaderInv, CacheInv, DownInv, IndexPosInv,
                      UnwrittenIsCached, vars, memVars, posVars, diskVars
  <2>4. QED
    BY <2>1, <2>3
<1>8. QED
  BY <1>1, <1>2, <1>3, <1>4, <1>5, <1>6, <1>7 DEF Next

LEMMA MemHolds == Spec => [](TypeOK /\ MemInv)
BY TypeInit, MemStep, PTL DEF Spec

\* Index, cache, queue, files and threads keep their types whatever crashes,
\* roll-overs and invalid records do.
THEOREM TypeCorrect == Spec => []TypeOK
BY MemHolds, PTL

\* addToCache and writeOne: a block that is not on disk yet is in the cache and
\* is going to be written, however small the cache and however many readers
\* fill it meanwhile.
THEOREM UnwrittenStaysCached == Spec => []UnwrittenIsCached
<1>1. MemInv => UnwrittenIsCached
  BY DEF MemInv
<1>2. QED
  BY <1>1, MemHolds, PTL

-----------------------------------------------------------------------------
(* The files.  A restart over a file with invalid records assigns wrong      *)
(* positions (LoadedIpos), so what follows is about processes that crash and  *)
(* restart at will with good blocks only, and about a process that meets bad  *)
(* blocks as well and is not restarted.                                       *)

NoSkew == Bad = {} \/ MaxCrash = 0

\* Each block has one record, files are filled in the order of the records,
\* and the data of every record is where it says.
DiskInv ==
    /\ \A i, j \in DOMAIN idxFile : idxFile[i].block = idxFile[j].block => i = j
    /\ \A i, j \in DOMAIN idxFile : i <= j => idxFile[i].dat <= idxFile[j].dat
    /\ \A i \in DOMAIN idxFile :
          /\ idxFile[i].invalid => idxFile[i].block \in Bad
          /\ idxFile[i].fpos + 1 \in DOMAIN datFile[idxFile[i].dat]
          /\ datFile[idxFile[i].dat][idxFile[i].fpos + 1] = idxFile[i].block
          /\ idxFile[i].dat \in datDir \cup arcDir \/ Purgeable(idxFile[i].dat)

\* A load finds no invalid record.
CleanInv == mode = "down" => (crashes = 0 => idxFile = <<>>)

\* The positions that the next record and the next data go to.
PosInv ==
    mode = "up" =>
        /\ maxidxfilepos = Len(idxFile)
        /\ maxdatfileidx \in datDir
        /\ maxdatfilepos <= Len(datFile[maxdatfileidx])
        /\ \A i \in DOMAIN idxFile :
              /\ idxFile[i].dat <= maxdatfileidx
              /\ idxFile[i].dat = maxdatfileidx => idxFile[i].fpos < maxdatfilepos
        /\ maxdatfilepos > 0 /\ writer.pc # "index" =>
              \E i \in DOMAIN idxFile : idxFile[i].dat = maxdatfileidx

\* Files are only removed when newer ones hold the blocks to keep.
RemovingInv ==
    \A d \in removing : Keep # 0 /\ \E i \in DOMAIN idxFile : idxFile[i].dat >= d + Keep

\* Between the two writes of writeOne.
PendingInv ==
    writer.pc = "index" =>
        /\ blockIndex[writer.block].ipos = maxidxfilepos
        /\ blockIndex[writer.block].dat = maxdatfileidx
        /\ blockIndex[writer.block].fpos = maxdatfilepos
        /\ maxdatfilepos + 1 \in DOMAIN datFile[maxdatfileidx]
        /\ datFile[maxdatfileidx][maxdatfilepos + 1] = writer.block
        /\ \A i \in DOMAIN idxFile : idxFile[i].block # writer.block

\* The map and the file tell the same.
MapInv ==
    mode = "up" =>
        /\ \A i \in DOMAIN idxFile :
              /\ blockIndex[idxFile[i].block] # NoRec
              /\ blockIndex[idxFile[i].block].ipos = i - 1
              /\ blockIndex[idxFile[i].block].dat = idxFile[i].dat
              /\ blockIndex[idxFile[i].block].fpos = idxFile[i].fpos
              /\ ~idxFile[i].invalid => blockIndex[idxFile[i].block].trusted = idxFile[i].trusted
        /\ \A b \in Block :
              Known(b) /\ ~Unwritten(b) /\ ~(writer.pc = "index" /\ writer.block = b) =>
                  \E i \in DOMAIN idxFile : idxFile[i].block = b

\* Whatever was cached or read is the block itself.
DataInv == (\A b \in Block : cache[b] \in {b, NoData}) /\ ReadReturnsTheBlock

FileInv == DiskInv /\ CleanInv /\ PosInv /\ RemovingInv /\ PendingInv /\ MapInv /\ DataInv

LEMMA IdxElement ==
    ASSUME TypeOK, NEW i \in DOMAIN idxFile
    PROVE  /\ idxFile[i] \in IdxRec /\ idxFile[i].block \in Block /\ idxFile[i].dat \in DatIdx
           /\ idxFile[i].dat \in Nat /\ idxFile[i].fpos \in Nat
           /\ idxFile[i].trusted \in BOOLEAN /\ idxFile[i].invalid \in BOOLEAN
           /\ i \in Nat /\ i >= 1 /\ i <= Len(idxFile)
<1>1. idxFile[i] \in IdxRec /\ i \in 1..Len(idxFile)
  BY DEF TypeOK
<1>2. QED
  BY <1>1 DEF IdxRec, DatIdx

LEMMA FileInit == Init => FileInv
<1> SUFFICES ASSUME Init PROVE FileInv
  OBVIOUS
<1>1. DiskInv /\ CleanInv /\ PosInv /\ RemovingInv /\ PendingInv /\ MapInv
  BY DEF Init, DiskInv, CleanInv, PosInv, RemovingInv, PendingInv, MapInv
<1>2. DataInv
  BY DEF Init, DataInv, ReadReturnsTheBlock
<1>3. QED
  BY <1>1, <1>2 DEF FileInv

\* Steps that change neither the records' places nor the data.
LEMMA SameDisk ==
    ASSUME TypeOK, FileInv, DOMAIN idxFile' = DOMAIN idxFile, datFile' = datFile,
           \A i \in DOMAIN idxFile :
              /\ idxFile'[i].block = idxFile[i].block /\ idxFile'[i].dat = idxFile[i].dat
              /\ idxFile'[i].fpos = idxFile[i].fpos
              /\ idxFile'[i].invalid => idxFile[i].block \in Bad,
           datDir \cup arcDir \subseteq datDir' \cup arcDir'
    PROVE  DiskInv'
<1>1. \A d : Purgeable(d)' = Purgeable(d)
  BY DEF Purgeable
<1>2. QED
  BY <1>1 DEF FileInv, DiskInv

\* A restart: every record is valid, so the positions are exact again.
LEMMA LoadFile ==
    ASSUME NoSkew, TypeOK, TypeOK', MemInv, FileInv, LoadBlockIndex
    PROVE  FileInv'
<1>1. /\ mode = "down" /\ mode' = "up" /\ idxFile' = idxFile /\ datFile' = datFile
      /\ blockIndex' = [b \in Block |-> LoadedRec(b)]
      /\ maxidxfilepos' = Cardinality(ValidSlots)
      /\ maxdatfileidx' = LoadedDat /\ maxdatfilepos' = LoadedDatPos
      /\ datDir' = (datDir \cup {LoadedDat}) \ LoadRemoves
      /\ arcDir' = IF Backup THEN arcDir \cup LoadRemoves ELSE arcDir
      /\ UNCHANGED <<cache, blocksToWrite, writer, removing, reader, crashes>>
  BY DEF LoadBlockIndex
<1>2. writer = NoWrite /\ removing = {}
  BY <1>1 DEF MemInv, DownInv
<1>3. idxFile \in Seq(IdxRec) /\ Len(idxFile) \in Nat /\ DOMAIN idxFile = 1..Len(idxFile)
  BY DEF TypeOK
<1>4. \A i \in DOMAIN idxFile : ~idxFile[i].invalid
  <2>1. CASE Bad = {}
    BY <2>1 DEF FileInv, DiskInv
  <2>2. CASE MaxCrash = 0
    BY <1>1, <2>2 DEF FileInv, CleanInv, TypeOK
  <2>3. QED
    BY <2>1, <2>2 DEF NoSkew
<1>5. ValidSlots = 1..Len(idxFile)
  BY <1>3, <1>4 DEF ValidSlots
<1>6. \A k \in Nat : Cardinality(1..k) = k
  <2> SUFFICES ASSUME NEW k \in Nat PROVE Cardinality(1..k) = k
    OBVIOUS
  <2>1. Cardinality(1..k) = IF 1 > k THEN 0 ELSE k - 1 + 1
    BY FS_Interval
  <2>2. QED
    BY <2>1
<1>7. maxidxfilepos' = Len(idxFile)
  BY <1>1, <1>3, <1>5, <1>6
<1>8. \A i \in DOMAIN idxFile : LoadedIpos(i) = i - 1
  <2> SUFFICES ASSUME NEW i \in DOMAIN idxFile PROVE LoadedIpos(i) = i - 1
    OBVIOUS
  <2>1. {j \in ValidSlots : j < i} = 1..(i - 1) /\ i - 1 \in Nat
    BY <1>3, <1>5
  <2>2. QED
    BY <1>6, <2>1 DEF LoadedIpos
<1>9. \A d \in LoadRemoves : /\ d \in Nat /\ Keep # 0 /\ d + Keep < LoadedDat
                             /\ LoadedDat # 0
  <2> SUFFICES ASSUME NEW d \in LoadRemoves
               PROVE  d \in Nat /\ Keep # 0 /\ d + Keep < LoadedDat /\ LoadedDat # 0
    OBVIOUS
  <2>1. LoadedDat \in Nat /\ Keep \in Nat
    BY <1>3, LoadedDatFacts, BlockDBAssumption DEF DatIdx
  <2>2. Keep # 0 /\ LoadedDat > Keep /\ d \in datDir
    BY DEF LoadRemoves
  <2>3. PICK k \in 1..3 : d = LoadedDat - Keep - k
    BY DEF LoadRemoves
  <2>4. d \in Nat
    BY <2>2 DEF TypeOK, DatIdx
  <2>5. QED
    BY <2>1, <2>2, <2>3, <2>4
<1>10. LoadedDat \in DatIdx /\ LoadedDatPos \in Nat
  BY <1>3, LoadedDatFacts, LoadedDatPosFacts
<1>11. LoadedDat \notin LoadRemoves
  BY <1>9, <1>10, BlockDBAssumption DEF DatIdx
<1>12. \A i \in DOMAIN idxFile : idxFile[i].dat \in datDir' \cup arcDir' \/ Purgeable(idxFile[i].dat)
  <2> SUFFICES ASSUME NEW i \in DOMAIN idxFile, ~Purgeable(idxFile[i].dat)
               PROVE  idxFile[i].dat \in datDir' \cup arcDir'
    OBVIOUS
  <2>1. idxFile[i].dat \in datDir \cup arcDir
    BY DEF FileInv, DiskInv
  <2>2. CASE idxFile[i].dat \notin LoadRemoves
    BY <1>1, <2>1, <2>2
  <2>3. CASE idxFile[i].dat \in LoadRemoves /\ Backup
    BY <1>1, <2>3
  <2>4. CASE idxFile[i].dat \in LoadRemoves /\ ~Backup
    <3>1. Keep # 0 /\ idxFile[i].dat + Keep < LoadedDat /\ LoadedDat # 0
      BY <1>9, <2>4
    <3>2. PICK j \in ValidSlots : idxFile[j].dat = LoadedDat
      BY <1>3, <3>1, LoadedDatFacts
    <3>3. idxFile[j].dat >= idxFile[i].dat + Keep /\ j \in DOMAIN idxFile
      BY <1>3, <1>5, <1>10, <3>1, <3>2, IdxElement, BlockDBAssumption DEF DatIdx
    <3>4. Purgeable(idxFile[i].dat)
      BY <2>4, <3>1, <3>3 DEF Purgeable
    <3>5. QED
      BY <3>4
  <2>5. QED
    BY <2>2, <2>3, <2>4, BlockDBAssumption
<1>13. DiskInv'
  <2>1. \A d : Purgeable(d)' = Purgeable(d)
    BY <1>1 DEF Purgeable
  <2>2. QED
    BY <1>1, <1>12, <2>1 DEF FileInv, DiskInv
<1>14. PosInv'
  <2>1. LoadedDat \in datDir'
    BY <1>1, <1>11
  <2>2. LoadedDatPos <= Len(datFile[LoadedDat])
    <3>1. CASE LoadedDatPos = 0
      <4>1. Len(datFile[LoadedDat]) \in Nat
        BY <1>10 DEF TypeOK
      <4>2. QED
        BY <3>1, <4>1
    <3>2. CASE LoadedDatPos # 0
      <4>1. PICK i, j \in ValidSlots :
               idxFile[i].dat = LoadedDat /\ j >= i /\ LoadedDatPos = idxFile[j].fpos + 1
        BY <1>3, <3>2, LoadedDatPosFacts
      <4>2. i \in DOMAIN idxFile /\ j \in DOMAIN idxFile /\ i <= j
        BY <1>3, <1>5, <4>1
      <4>3. LoadedDat <= idxFile[j].dat /\ idxFile[j].dat <= LoadedDat
        BY <1>3, <4>1, <4>2, LoadedDatFacts DEF FileInv, DiskInv
      <4>4. idxFile[j].dat = LoadedDat
        BY <4>2, <4>3, <1>10, IdxElement DEF DatIdx
      <4>5. LoadedDatPos \in DOMAIN datFile[LoadedDat]
        BY <4>1, <4>2, <4>4 DEF FileInv, DiskInv
      <4>6. QED
        BY <4>5, <1>10, SMTT(30) DEF TypeOK
    <3>3. QED
      BY <3>1, <3>2
  <2>3. \A i \in DOMAIN idxFile :
           /\ idxFile[i].dat <= LoadedDat
           /\ idxFile[i].dat = LoadedDat => idxFile[i].fpos < LoadedDatPos
    BY <1>3, <1>5, LoadedDatFacts, LoadedDatPosFacts
  <2>4. LoadedDatPos > 0 => \E i \in DOMAIN idxFile : idxFile[i].dat = LoadedDat
    <3> SUFFICES ASSUME LoadedDatPos # 0 PROVE \E i \in DOMAIN idxFile : idxFile[i].dat = LoadedDat
      BY <1>10
    <3>1. PICK i \in ValidSlots : idxFile[i].dat = LoadedDat
      BY <1>3, LoadedDatPosFacts
    <3>2. QED
      BY <1>3, <1>5, <3>1
  <2>5. QED
    BY <1>1, <1>7, <2>1, <2>2, <2>3, <2>4 DEF PosInv
<1>15. MapInv'
  <2>1. ASSUME NEW i \in DOMAIN idxFile
        PROVE  LoadedRec(idxFile[i].block) =
                  [ipos |-> i - 1, dat |-> idxFile[i].dat,
                   fpos |-> idxFile[i].fpos, trusted |-> idxFile[i].trusted]
    <3>1. i \in Slots(idxFile[i].block)
      BY <1>3, <1>5 DEF Slots
    <3>2. PICK j \in Slots(idxFile[i].block) :
             LoadedRec(idxFile[i].block) =
                  [ipos |-> LoadedIpos(j), dat |-> idxFile[j].dat,
                   fpos |-> idxFile[j].fpos, trusted |-> idxFile[j].trusted]
      BY <1>3, <3>1, LoadedRecFacts
    <3>3. j = i
      BY <1>3, <1>5 DEF Slots, FileInv, DiskInv
    <3>4. QED
      BY <1>8, <3>2, <3>3
  <2>2. \A i \in DOMAIN idxFile : /\ idxFile[i].block \in Block
                                  /\ LoadedRec(idxFile[i].block) # NoRec
    <3>1. \A i \in DOMAIN idxFile : i \in Slots(idxFile[i].block)
      BY <1>3, <1>5 DEF Slots
    <3>2. QED
      BY <1>3, <3>1, IdxElement, LoadedRecFacts
  <2>3. \A b \in Block : LoadedRec(b) # NoRec => \E i \in DOMAIN idxFile : idxFile[i].block = b
    <3>1. \A b : LoadedRec(b) # NoRec => Slots(b) # {}
      BY <1>3, LoadedRecFacts
    <3>2. QED
      BY <1>3, <1>5, <3>1 DEF Slots
  <2>4. \A i \in DOMAIN idxFile : blockIndex'[idxFile[i].block] =
                  [ipos |-> i - 1, dat |-> idxFile[i].dat,
                   fpos |-> idxFile[i].fpos, trusted |-> idxFile[i].trusted]
    BY <1>1, <2>1, <2>2
  <2>5. \A i \in DOMAIN idxFile : blockIndex'[idxFile[i].block] # NoRec
    BY <1>1, <2>2
  <2>6. \A i \in DOMAIN idxFile :
           /\ blockIndex'[idxFile[i].block].ipos = i - 1
           /\ blockIndex'[idxFile[i].block].dat = idxFile[i].dat
           /\ blockIndex'[idxFile[i].block].fpos = idxFile[i].fpos
           /\ blockIndex'[idxFile[i].block].trusted = idxFile[i].trusted
    <3> SUFFICES ASSUME NEW i \in DOMAIN idxFile, NEW r, r = blockIndex'[idxFile[i].block]
                 PROVE  /\ r.ipos = i - 1 /\ r.dat = idxFile[i].dat
                        /\ r.fpos = idxFile[i].fpos /\ r.trusted = idxFile[i].trusted
      BY Zenon
    <3>1. r = [ipos |-> i - 1, dat |-> idxFile[i].dat,
               fpos |-> idxFile[i].fpos, trusted |-> idxFile[i].trusted]
      BY <2>4
    <3>2. QED
      BY <3>1
  <2>7. \A b \in Block : Known(b)' => \E i \in DOMAIN idxFile : idxFile[i].block = b
    BY <1>1, <2>3 DEF Known
  <2>8. QED
    <3>1. idxFile' = idxFile
      BY <1>1
    <3>2. QED
      BY <2>5, <2>6, <2>7, <3>1 DEF MapInv
<1>16. CleanInv' /\ RemovingInv' /\ PendingInv' /\ DataInv'
  BY <1>1, <1>2 DEF FileInv, CleanInv, RemovingInv, PendingInv, DataInv, ReadReturnsTheBlock, NoWrite
<1>17. QED
  BY <1>13, <1>14, <1>15, <1>16 DEF FileInv

LEMMA StopFile ==
    ASSUME TypeOK, FileInv, Stop, crashes' # 0
    PROVE  FileInv'
<1>1. DiskInv'
  BY SameDisk DEF Stop, diskVars, FileInv, DiskInv
<1>2. CleanInv' /\ PosInv' /\ RemovingInv' /\ PendingInv' /\ MapInv' /\ DataInv'
  BY DEF Stop, CleanInv, PosInv, RemovingInv, PendingInv, MapInv, DataInv, ReadReturnsTheBlock
<1>3. QED
  BY <1>1, <1>2 DEF FileInv

\* Steps that leave the files, the positions and the entries of written blocks
\* alone.
LEMMA MemoryOnlyFile ==
    ASSUME TypeOK, FileInv, mode = "up", UNCHANGED <<mode, posVars, diskVars, removing, crashes>>,
           \/ writer.pc # "index" /\ writer'.pc # "index"
           \/ UNCHANGED <<writer, blockIndex>>,
           \A i \in DOMAIN idxFile : blockIndex'[idxFile[i].block] = blockIndex[idxFile[i].block],
           \A b \in Block : Known(b)' /\ ~Unwritten(b)' => Known(b) /\ ~Unwritten(b),
           \A b \in Block : cache'[b] \in {b, NoData}, ReadReturnsTheBlock'
    PROVE  FileInv'
<1>1. DiskInv'
  BY SameDisk DEF FileInv, DiskInv, diskVars
<1>2. CleanInv' /\ DataInv'
  BY DEF FileInv, CleanInv, DataInv, diskVars
<1>3. PosInv'
  BY DEF FileInv, PosInv, posVars, diskVars
<1>4. RemovingInv'
  BY DEF FileInv, RemovingInv, diskVars
<1>5. PendingInv'
  BY DEF FileInv, PendingInv, diskVars, posVars
<1>6. MapInv'
  <2>1. idxFile' = idxFile /\ MapInv
    BY DEF diskVars, FileInv
  <2>2. \A b \in Block : Known(b)' /\ ~Unwritten(b)' /\ ~(writer'.pc = "index" /\ writer'.block = b) =>
           \E i \in DOMAIN idxFile : idxFile[i].block = b
    BY <2>1 DEF MapInv
  <2>3. QED
    BY <2>1, <2>2 DEF MapInv
<1>7. QED
  BY <1>1, <1>2, <1>3, <1>4, <1>5, <1>6 DEF FileInv

\* A block that is not in the index, or not written, has no record.
LEMMA UnwrittenHasNoRecord ==
    ASSUME TypeOK, FileInv, mode = "up", NEW b \in Block, ~Known(b) \/ Unwritten(b)
    PROVE  \A i \in DOMAIN idxFile : idxFile[i].block # b
<1> SUFFICES ASSUME NEW i \in DOMAIN idxFile, idxFile[i].block = b PROVE FALSE
  OBVIOUS
<1>1. Known(b) /\ blockIndex[b].ipos = i - 1
  BY DEF FileInv, MapInv, Known
<1>2. i - 1 # -1
  BY IdxElement
<1>3. QED
  BY <1>1, <1>2 DEF Unwritten

LEMMA AddNewFile ==
    ASSUME TypeOK, MemInv, FileInv, NEW b \in Block, NEW t, BlockAddNew(b, t)
    PROVE  FileInv'
<1> DEFINE rec == [ipos |-> -1, dat |-> 0, fpos |-> 0, trusted |-> t]
<1>1. /\ mode = "up" /\ ~Known(b) /\ writer.pc = "idle" /\ AddToCache(b, b)
      /\ blockIndex' = [blockIndex EXCEPT ![b] = rec]
      /\ writer'.pc # "index"
      /\ UNCHANGED <<mode, posVars, diskVars, removing, reader, crashes>>
  BY DEF BlockAddNew, MainFree, StartWriting
<1>2. \A i \in DOMAIN idxFile : idxFile[i].block # b /\ idxFile[i].block \in Block
  BY <1>1, UnwrittenHasNoRecord, IdxElement
<1>3. rec.ipos = -1
  OBVIOUS
<1> HIDE DEF rec
<1>4. \A c \in Block : blockIndex'[c] = IF c = b THEN rec ELSE blockIndex[c]
  BY <1>1 DEF TypeOK
<1>5. \A i \in DOMAIN idxFile : blockIndex'[idxFile[i].block] = blockIndex[idxFile[i].block]
  BY <1>2, <1>4
<1>6. \A c \in Block : Known(c)' /\ ~Unwritten(c)' => Known(c) /\ ~Unwritten(c)
  BY <1>3, <1>4 DEF Known, Unwritten
<1>7. \A c \in Block : cache'[c] \in {c, NoData}
  <2>1. /\ cache'[b] = IF cache[b] = NoData THEN b ELSE cache[b]
        /\ \A c \in Block \ {b} : cache'[c] \in {cache[c], NoData}
    BY <1>1, AddToCacheFacts DEF TypeOK
  <2>2. QED
    BY <2>1 DEF FileInv, DataInv
<1>8. ReadReturnsTheBlock'
  BY <1>1 DEF FileInv, DataInv, ReadReturnsTheBlock
<1>9. QED
  BY <1>1, <1>5, <1>6, <1>7, <1>8, MemoryOnlyFile

\* A flag of a block that is not written changes the map only.
LEMMA TrustedInMemoryFile ==
    ASSUME TypeOK, MemInv, FileInv, NEW b \in Block, MainFree, Unwritten(b),
           blockIndex' = [blockIndex EXCEPT ![b].trusted = TRUE],
           UNCHANGED <<mode, cache, blocksToWrite, writer, posVars, diskVars,
                       removing, reader, crashes>>
    PROVE  FileInv'
<1>1. mode = "up" /\ writer.pc = "idle" /\ Known(b)
  BY DEF MainFree, Unwritten
<1>2. \A i \in DOMAIN idxFile : idxFile[i].block # b /\ idxFile[i].block \in Block
  BY <1>1, UnwrittenHasNoRecord, IdxElement
<1>3. /\ \A c \in Block \ {b} : blockIndex'[c] = blockIndex[c]
      /\ blockIndex'[b].ipos = -1
  <2>1. blockIndex[b] \in OneBl /\ blockIndex[b].ipos = -1
    BY <1>1 DEF TypeOK, Known, Unwritten
  <2>2. [blockIndex[b] EXCEPT !.trusted = TRUE].ipos = -1
    BY <2>1 DEF OneBl
  <2>3. QED
    BY <2>2 DEF TypeOK
<1>4. \A i \in DOMAIN idxFile : blockIndex'[idxFile[i].block] = blockIndex[idxFile[i].block]
  BY <1>2, <1>3
<1>5. \A c \in Block : Known(c)' /\ ~Unwritten(c)' => Known(c) /\ ~Unwritten(c)
  BY <1>3 DEF Known, Unwritten
<1>6. (\A c \in Block : cache'[c] \in {c, NoData}) /\ ReadReturnsTheBlock'
  BY DEF FileInv, DataInv, ReadReturnsTheBlock
<1>7. QED
  BY <1>1, <1>4, <1>5, <1>6, MemoryOnlyFile

LEMMA DropFile ==
    ASSUME TypeOK, MemInv, FileInv, NEW b \in Block, BlockInvalidDrop(b)
    PROVE  FileInv'
<1>1. /\ mode = "up" /\ Unwritten(b) /\ writer.pc = "idle"
      /\ blockIndex' = [blockIndex EXCEPT ![b] = NoRec]
      /\ cache' = [cache EXCEPT ![b] = NoData]
      /\ UNCHANGED <<mode, blocksToWrite, writer, posVars, diskVars, removing, reader, crashes>>
  BY DEF BlockInvalidDrop, MainFree
<1>2. \A i \in DOMAIN idxFile : idxFile[i].block # b /\ idxFile[i].block \in Block
  BY <1>1, UnwrittenHasNoRecord, IdxElement
<1>3. \A c \in Block : blockIndex'[c] = IF c = b THEN NoRec ELSE blockIndex[c]
  BY <1>1 DEF TypeOK
<1>4. \A i \in DOMAIN idxFile : blockIndex'[idxFile[i].block] = blockIndex[idxFile[i].block]
  BY <1>2, <1>3
<1>5. \A c \in Block : Known(c)' /\ ~Unwritten(c)' => Known(c) /\ ~Unwritten(c)
  BY <1>3 DEF Known, Unwritten
<1>6. (\A c \in Block : cache'[c] \in {c, NoData}) /\ ReadReturnsTheBlock'
  BY <1>1 DEF FileInv, DataInv, ReadReturnsTheBlock, TypeOK
<1>7. QED
  BY <1>1, <1>4, <1>5, <1>6, MemoryOnlyFile

LEMMA QueueFile ==
    ASSUME TypeOK, MemInv, FileInv, Idle \/ WriteTake \/ WriteDone
    PROVE  FileInv'
<1>1. /\ mode = "up" /\ writer.pc # "index" /\ writer'.pc # "index"
      /\ UNCHANGED <<mode, blockIndex, cache, posVars, diskVars, removing, reader, crashes>>
  BY DEF Idle, WriteTake, WriteDone, MainFree, StartWriting
<1>2. \A c \in Block : Known(c)' /\ ~Unwritten(c)' => Known(c) /\ ~Unwritten(c)
  BY <1>1 DEF Known, Unwritten
<1>3. (\A c \in Block : cache'[c] \in {c, NoData}) /\ ReadReturnsTheBlock'
  BY <1>1 DEF FileInv, DataInv, ReadReturnsTheBlock
<1>4. QED
  BY <1>1, <1>2, <1>3, MemoryOnlyFile

\* setBlockFlag of a written block finds its very record.
LEMMA FlagFile ==
    ASSUME TypeOK, TypeOK', MemInv, FileInv, NEW b \in Block, MainFree, Known(b), ~Unwritten(b),
           NEW fl, SetBlockFlag(b, fl), fl = "invalid" <=> b \in Bad,
           UNCHANGED <<mode, cache, blocksToWrite, writer, posVars, datFile, datDir,
                       arcDir, removing, reader, crashes>>
    PROVE  FileInv'
<1>1. mode = "up" /\ mode' = "up" /\ writer.pc = "idle" /\ writer'.pc = "idle"
  BY DEF MainFree
<1>2. PICK s \in DOMAIN idxFile : idxFile[s].block = b
  BY <1>1 DEF FileInv, MapInv
<1>3. s = blockIndex[b].ipos + 1
  <2>1. blockIndex[b].ipos = s - 1 /\ s \in Nat
    BY <1>1, <1>2, IdxElement DEF FileInv, MapInv
  <2>2. QED
    BY <2>1
<1>4. /\ \A c \in Block \ {b} : blockIndex'[c] = blockIndex[c]
      /\ blockIndex'[b] = [blockIndex[b] EXCEPT !.trusted = TRUE]
      /\ blockIndex'[b] # NoRec /\ blockIndex'[b].ipos = blockIndex[b].ipos
      /\ Len(idxFile') = Len(idxFile)
      /\ \A i \in DOMAIN idxFile :
            /\ idxFile'[i].block = idxFile[i].block
            /\ idxFile'[i].dat = idxFile[i].dat /\ idxFile'[i].fpos = idxFile[i].fpos
            /\ i # s => idxFile'[i] = idxFile[i]
            /\ i = s => IF fl = "invalid"
                        THEN idxFile'[i].invalid /\ idxFile'[i].trusted = idxFile[i].trusted
                        ELSE idxFile'[i].trusted /\ idxFile'[i].invalid = idxFile[i].invalid
  BY <1>3, SetBlockFlagFacts
<1>5. /\ blockIndex'[b].dat = blockIndex[b].dat /\ blockIndex'[b].fpos = blockIndex[b].fpos
      /\ blockIndex'[b].trusted = TRUE
  <2>1. blockIndex[b] \in OneBl
    BY DEF TypeOK, Known
  <2>2. QED
    BY <1>4, <2>1 DEF OneBl
<1>6. DOMAIN idxFile' = DOMAIN idxFile
  BY <1>4 DEF TypeOK
<1>7. \A i \in DOMAIN idxFile : idxFile'[i].invalid => idxFile[i].block \in Bad
  BY <1>2, <1>4 DEF FileInv, DiskInv
<1>8. DiskInv'
  BY <1>4, <1>6, <1>7, SameDisk
<1>9. CleanInv' /\ DataInv'
  BY <1>1 DEF FileInv, CleanInv, DataInv, ReadReturnsTheBlock
<1>10. PosInv' /\ RemovingInv' /\ PendingInv'
  <2>1. PosInv'
    BY <1>1, <1>4, <1>6 DEF FileInv, PosInv, posVars
  <2>2. RemovingInv'
    BY <1>4, <1>6 DEF FileInv, RemovingInv
  <2>3. PendingInv'
    BY <1>1 DEF PendingInv
  <2>4. QED
    BY <2>1, <2>2, <2>3
<1>11. MapInv'
  <2>1. ASSUME NEW i \in DOMAIN idxFile
        PROVE  /\ blockIndex'[idxFile'[i].block] # NoRec
               /\ blockIndex'[idxFile'[i].block].ipos = i - 1
               /\ blockIndex'[idxFile'[i].block].dat = idxFile'[i].dat
               /\ blockIndex'[idxFile'[i].block].fpos = idxFile'[i].fpos
               /\ ~idxFile'[i].invalid =>
                     blockIndex'[idxFile'[i].block].trusted = idxFile'[i].trusted
    <3>1. /\ blockIndex[idxFile[i].block] # NoRec
          /\ blockIndex[idxFile[i].block].ipos = i - 1
          /\ blockIndex[idxFile[i].block].dat = idxFile[i].dat
          /\ blockIndex[idxFile[i].block].fpos = idxFile[i].fpos
          /\ ~idxFile[i].invalid => blockIndex[idxFile[i].block].trusted = idxFile[i].trusted
      BY <1>1 DEF FileInv, MapInv
    <3>2. CASE i = s
      <4>1. idxFile'[s].trusted \in BOOLEAN
        <5>1. idxFile'[s] \in IdxRec
          BY <1>6 DEF TypeOK
        <5>2. QED
          BY <5>1 DEF IdxRec
      <4>2. ~idxFile'[s].invalid => idxFile'[s].trusted = TRUE
        BY <1>4, <4>1
      <4>3. idxFile'[i].block = b /\ idxFile'[i].dat = idxFile[i].dat /\ idxFile'[i].fpos = idxFile[i].fpos
        BY <1>2, <1>4, <3>2
      <4>4. blockIndex[b].ipos = i - 1 /\ blockIndex[b].dat = idxFile[i].dat /\ blockIndex[b].fpos = idxFile[i].fpos
        BY <1>2, <3>1, <3>2
      <4>5. blockIndex'[b] # NoRec /\ blockIndex'[b].ipos = blockIndex[b].ipos
        BY <1>4
      <4>6. QED
        BY <1>5, <3>2, <4>2, <4>3, <4>4, <4>5
    <3>3. CASE i # s
      <4>1. idxFile[i].block # b
        BY <1>2, <3>3 DEF FileInv, DiskInv
      <4>2. idxFile[i].block \in Block
        BY IdxElement
      <4>3. QED
        BY <1>4, <3>1, <3>3, <4>1, <4>2
    <3>4. QED
      BY <3>2, <3>3
  <2>2. ASSUME NEW c \in Block, Known(c)', ~Unwritten(c)'
        PROVE  \E i \in DOMAIN idxFile' : idxFile'[i].block = c
    <3>1. Known(c) /\ ~Unwritten(c)
      BY <1>4, <2>2 DEF Known, Unwritten
    <3>2. \E i \in DOMAIN idxFile : idxFile[i].block = c
      BY <1>1, <3>1 DEF FileInv, MapInv
    <3>3. QED
      BY <1>4, <1>6, <3>2
  <2>3. QED
    BY <1>6, <2>1, <2>2 DEF MapInv
<1>12. QED
  BY <1>8, <1>9, <1>10, <1>11 DEF FileInv

\* removeDatFile: newer files are there, so nobody writes to this one, and its
\* blocks were to go or are in oldat.
LEMMA RemoveFile ==
    ASSUME TypeOK, MemInv, FileInv, NEW d \in DatIdx, RemoveDatFile(d)
    PROVE  FileInv'
<1>1. /\ mode = "up" /\ mode' = "up" /\ d \in removing /\ removing' = removing \ {d}
      /\ datDir' = datDir \ {d} /\ arcDir' = IF Backup THEN arcDir \cup {d} ELSE arcDir
      /\ UNCHANGED <<memVars, posVars, idxFile, datFile, reader, crashes>>
  BY DEF RemoveDatFile
<1>2. Keep # 0 /\ Keep \in Nat /\ d \in Nat /\ maxdatfileidx \in Nat
  BY <1>1, BlockDBAssumption DEF FileInv, RemovingInv, DatIdx, TypeOK
<1>3. PICK i \in DOMAIN idxFile : idxFile[i].dat >= d + Keep
  BY <1>1 DEF FileInv, RemovingInv
<1>4. d # maxdatfileidx
  <2>1. idxFile[i].dat <= maxdatfileidx /\ idxFile[i].dat \in Nat
    BY <1>1, IdxElement DEF FileInv, PosInv
  <2>2. QED
    BY <1>2, <1>3, <2>1
<1>5. Purgeable(d) \/ Backup
  BY <1>2, <1>3 DEF Purgeable
<1>6. \A e : Purgeable(e)' = Purgeable(e)
  BY <1>1 DEF Purgeable
<1>7. DiskInv'
  <2>1. \A j \in DOMAIN idxFile : idxFile[j].dat \in datDir' \cup arcDir' \/ Purgeable(idxFile[j].dat)
    BY <1>1, <1>5 DEF FileInv, DiskInv
  <2>2. QED
    BY <1>1, <1>6, <2>1 DEF FileInv, DiskInv
<1>8. PosInv'
  BY <1>1, <1>4 DEF FileInv, PosInv, posVars, memVars
<1>9. RemovingInv' /\ CleanInv'
  BY <1>1 DEF FileInv, RemovingInv, CleanInv
<1>10. PendingInv'
  BY <1>1 DEF FileInv, PendingInv, posVars, memVars
<1>11. MapInv'
  <2>1. \A c : Known(c)' = Known(c) /\ Unwritten(c)' = Unwritten(c)
    BY <1>1 DEF memVars, Known, Unwritten
  <2>2. QED
    BY <1>1, <2>1 DEF FileInv, MapInv, memVars
<1>12. DataInv'
  BY <1>1 DEF FileInv, DataInv, ReadReturnsTheBlock, memVars
<1>13. QED
  BY <1>7, <1>8, <1>9, <1>10, <1>11, <1>12 DEF FileInv

\* A step of a reader that brings the block it was asked for, or nothing.
LEMMA ReaderOnlyFile ==
    ASSUME TypeOK, FileInv, mode = "up", NEW r \in Reader, NEW st,
           reader' = [reader EXCEPT ![r] = st], st.data \in {st.block, NoData},
           \A b \in Block : cache'[b] \in {b, NoData},
           UNCHANGED <<mode, blockIndex, blocksToWrite, writer, posVars, diskVars, removing, crashes>>
    PROVE  FileInv'
<1>1. ReadReturnsTheBlock'
  <2>1. \A q \in Reader : reader'[q] = IF q = r THEN st ELSE reader[q]
    BY DEF TypeOK
  <2>2. QED
    BY <2>1 DEF FileInv, DataInv, ReadReturnsTheBlock
<1>2. \A c \in Block : Known(c)' /\ ~Unwritten(c)' => Known(c) /\ ~Unwritten(c)
  BY DEF Known, Unwritten
<1>3. QED
  BY <1>1, <1>2, MemoryOnlyFile

LEMMA ReaderFile ==
    ASSUME TypeOK, MemInv, FileInv, NEW r \in Reader, ReaderNext(r)
    PROVE  FileInv'
<1>r. reader[r] \in ReaderState /\ reader \in [Reader -> ReaderState]
  BY DEF TypeOK
<1>c. \A b \in Block : cache[b] \in {b, NoData}
  BY DEF FileInv, DataInv
<1>d. reader[r].data \in {reader[r].block, NoData}
  BY DEF FileInv, DataInv, ReadReturnsTheBlock
<1>1. ASSUME NEW b \in Block, GetLookup(r, b) PROVE FileInv'
  <2> DEFINE st == IF cache[b] # NoData THEN [pc |-> "done", block |-> b, data |-> cache[b]]
                   ELSE IF Unwritten(b) THEN [pc |-> "done", block |-> b, data |-> NoData]
                   ELSE [pc |-> "read", block |-> b, data |-> NoData]
  <2>1. /\ mode = "up" /\ reader' = [reader EXCEPT ![r] = st] /\ cache' = cache
        /\ UNCHANGED <<mode, blockIndex, blocksToWrite, writer, posVars, diskVars, removing, crashes>>
    BY <1>1 DEF GetLookup, memVars
  <2>2. st.data \in {st.block, NoData}
    BY <1>c
  <2> HIDE DEF st
  <2>3. QED
    BY <1>c, <2>1, <2>2, ReaderOnlyFile
<1>2. CASE GetRead(r)
  <2> DEFINE b == reader[r].block
             rec == blockIndex[b]
  <2>1. /\ mode = "up" /\ reader[r].pc = "read" /\ writer.pc # "index" /\ cache' = cache
        /\ UNCHANGED <<mode, blockIndex, blocksToWrite, writer, posVars, diskVars, removing, crashes>>
    BY <1>2 DEF GetRead, memVars
  <2>2. b \in Block /\ Known(b) /\ ~Unwritten(b)
    BY <2>1 DEF MemInv, ReaderInv
  <2>3. PICK i \in DOMAIN idxFile : idxFile[i].block = b
    BY <2>1, <2>2 DEF FileInv, MapInv
  <2>4. rec.dat = idxFile[i].dat /\ rec.fpos = idxFile[i].fpos
    BY <2>1, <2>3 DEF FileInv, MapInv
  <2>5. datFile[rec.dat][rec.fpos + 1] = b
    <3>1. datFile[idxFile[i].dat][idxFile[i].fpos + 1] = idxFile[i].block
      BY DEF FileInv, DiskInv
    <3>2. QED
      BY <2>3, <2>4, <3>1
  <2>6. PICK do_not_cache \in BOOLEAN :
          reader' = [reader EXCEPT ![r] =
            IF rec.dat \in datDir \cup arcDir /\ rec.fpos + 1 \in DOMAIN datFile[rec.dat]
            THEN [@ EXCEPT !.pc = IF do_not_cache THEN "done" ELSE "store",
                           !.data = datFile[rec.dat][rec.fpos + 1]]
            ELSE [@ EXCEPT !.pc = "done"]]
    BY <1>2 DEF GetRead
  <2> DEFINE st == IF rec.dat \in datDir \cup arcDir /\ rec.fpos + 1 \in DOMAIN datFile[rec.dat]
                   THEN [reader[r] EXCEPT !.pc = IF do_not_cache THEN "done" ELSE "store",
                                          !.data = datFile[rec.dat][rec.fpos + 1]]
                   ELSE [reader[r] EXCEPT !.pc = "done"]
  <2>7. st.data \in {st.block, NoData}
    <3>1. /\ [reader[r] EXCEPT !.pc = "done"].data = reader[r].data
          /\ [reader[r] EXCEPT !.pc = "done"].block = b
      BY <1>r DEF ReaderState
    <3>2. \A p, x : /\ [reader[r] EXCEPT !.pc = p, !.data = x].data = x
                    /\ [reader[r] EXCEPT !.pc = p, !.data = x].block = b
      BY <1>r DEF ReaderState
    <3> HIDE DEF rec, b
    <3>3. QED
      BY <1>d, <2>5, <3>1, <3>2 DEF b
  <2> HIDE DEF st, rec
  <2>8. reader' = [reader EXCEPT ![r] = st]
    BY <2>6 DEF st
  <2>9. QED
    BY <1>c, <2>1, <2>7, <2>8, ReaderOnlyFile
<1>3. CASE GetStore(r)
  <2> DEFINE b == reader[r].block
             st == [reader[r] EXCEPT !.pc = "done"]
  <2>1. /\ mode = "up" /\ reader[r].pc = "store" /\ AddToCache(b, reader[r].data)
        /\ reader' = [reader EXCEPT ![r] = st]
        /\ UNCHANGED <<mode, blockIndex, blocksToWrite, writer, posVars, diskVars, removing, crashes>>
    BY <1>3 DEF GetStore
  <2>2. b \in Block /\ reader[r].data \in Block \cup {NoData}
    BY <2>1, <1>r DEF MemInv, ReaderInv, ReaderState
  <2>3. /\ cache'[b] = IF cache[b] = NoData THEN reader[r].data ELSE cache[b]
        /\ \A c \in Block \ {b} : cache'[c] \in {cache[c], NoData}
    BY <2>1, <2>2, AddToCacheFacts DEF TypeOK
  <2>4. st.data = reader[r].data /\ st.block = b
    BY <1>r DEF ReaderState
  <2>5. \A c \in Block : cache'[c] \in {c, NoData}
    BY <1>c, <1>d, <2>3
  <2> HIDE DEF st
  <2>6. QED
    BY <1>d, <2>1, <2>4, <2>5, ReaderOnlyFile
<1>4. CASE GetReturn(r)
  <2>1. NoRead.data \in {NoRead.block, NoData}
    BY DEF NoRead
  <2>2. /\ mode = "up" /\ reader' = [reader EXCEPT ![r] = NoRead] /\ cache' = cache
        /\ UNCHANGED <<mode, blockIndex, blocksToWrite, writer, posVars, diskVars, removing, crashes>>
    BY <1>4 DEF GetReturn, NoRead, memVars
  <2>3. QED
    BY <1>c, <2>1, <2>2, ReaderOnlyFile
<1>5. QED
  BY <1>1, <1>2, <1>3, <1>4 DEF ReaderNext

\* The data goes to the end of the data file, or to a new one: no record has
\* its data there.
LEMMA DataWriteFile ==
    ASSUME TypeOK, TypeOK', MemInv, MemInv', FileInv, WriteData
    PROVE  FileInv'
<1> DEFINE b   == writer.block
           dat == IF RollOver THEN maxdatfileidx + 1 ELSE maxdatfileidx
           pos == IF RollOver THEN 0 ELSE maxdatfilepos
           old == IF RollOver THEN <<>> ELSE datFile[dat]
           rec == [blockIndex[b] EXCEPT !.ipos = maxidxfilepos, !.dat = dat, !.fpos = pos]
<1>1. /\ mode = "up" /\ mode' = "up" /\ writer.pc = "data" /\ dat \in DatIdx
      /\ blockIndex' = [blockIndex EXCEPT ![b] = rec]
      /\ datFile' = [datFile EXCEPT ![dat] = WriteAt(old, pos, b)]
      /\ datDir' = datDir \cup {dat} /\ removing' = removing \cup Expired
      /\ maxdatfileidx' = dat /\ maxdatfilepos' = pos
      /\ writer' = [writer EXCEPT !.pc = "index"]
      /\ UNCHANGED <<cache, blocksToWrite, maxidxfilepos, idxFile, arcDir, reader, crashes>>
  BY DEF WriteData
<1>2. b \in Block /\ Unwritten(b) /\ Known(b) /\ blockIndex[b] \in OneBl
  BY <1>1 DEF MemInv, WriterInv, Unwritten, TypeOK, Known
<1>3. \A i \in DOMAIN idxFile : idxFile[i].block # b
  BY <1>1, <1>2, UnwrittenHasNoRecord
<1>4. writer'.pc = "index" /\ writer'.block = b
  BY <1>1 DEF TypeOK, WriterState
<1>5. pos \in Nat /\ dat \in Nat /\ maxdatfileidx \in Nat /\ maxdatfilepos \in Nat
  BY <1>1 DEF TypeOK, DatIdx
<1>6. old \in Seq(Block \cup {NoData}) /\ pos <= Len(old)
  <2>1. CASE RollOver
    BY <2>1
  <2>2. CASE ~RollOver
    BY <1>1, <2>2 DEF TypeOK, FileInv, PosInv
  <2>3. QED
    BY <2>1, <2>2
<1>7. rec.ipos = maxidxfilepos /\ rec.dat = dat /\ rec.fpos = pos
  BY <1>2 DEF OneBl
<1>8. \A i \in DOMAIN idxFile : /\ idxFile[i].dat <= dat
                                /\ idxFile[i].dat = dat => ~RollOver /\ idxFile[i].fpos < pos
  <2> SUFFICES ASSUME NEW i \in DOMAIN idxFile
               PROVE  /\ idxFile[i].dat <= dat
                      /\ idxFile[i].dat = dat => ~RollOver /\ idxFile[i].fpos < pos
    OBVIOUS
  <2>1. /\ idxFile[i].dat <= maxdatfileidx /\ idxFile[i].dat \in Nat
        /\ idxFile[i].dat = maxdatfileidx => idxFile[i].fpos < maxdatfilepos
    BY <1>1, IdxElement DEF FileInv, PosInv
  <2>2. QED
    BY <1>5, <2>1
<1>9. (\A i \in DOMAIN idxFile : idxFile[i].dat = dat => old = datFile[dat])
  BY <1>8
<1>10. RollOver => \E i \in DOMAIN idxFile : idxFile[i].dat = maxdatfileidx
  <2> SUFFICES ASSUME RollOver PROVE \E i \in DOMAIN idxFile : idxFile[i].dat = maxdatfileidx
    OBVIOUS
  <2>1. maxdatfilepos > 0
    BY <1>5, BlockDBAssumption DEF RollOver
  <2>2. QED
    BY <1>1, <2>1 DEF FileInv, PosInv
<1>11. \A d \in Expired : Keep # 0 /\ \E i \in DOMAIN idxFile : idxFile[i].dat >= d + Keep
  <2> SUFFICES ASSUME NEW d \in Expired
               PROVE  Keep # 0 /\ \E i \in DOMAIN idxFile : idxFile[i].dat >= d + Keep
    OBVIOUS
  <2>1. RollOver /\ Keep # 0 /\ d = maxdatfileidx - Keep
    BY DEF Expired
  <2>2. PICK i \in DOMAIN idxFile : idxFile[i].dat = maxdatfileidx
    BY <1>10, <2>1
  <2>3. idxFile[i].dat >= d + Keep
    BY <1>5, <2>1, <2>2, BlockDBAssumption
  <2>4. QED
    BY <2>1, <2>3
<1> HIDE DEF rec, old, dat, pos, b
<1> DEFINE file == WriteAt(old, pos, b)
<1>12. /\ Len(file) = IF pos + 1 > Len(old) THEN pos + 1 ELSE Len(old)
       /\ DOMAIN file = 1..(IF pos + 1 > Len(old) THEN pos + 1 ELSE Len(old))
       /\ file[pos + 1] = b
       /\ \A i \in 1..Len(old) : i # pos + 1 => file[i] = old[i]
  BY <1>5, <1>6, WriteAtElements
<1> HIDE DEF file
<1>13. datFile'[dat] = file /\ \A d \in DatIdx \ {dat} : datFile'[d] = datFile[d]
  BY <1>1 DEF TypeOK, file
<1>14. \A i \in DOMAIN idxFile :
          /\ idxFile[i].fpos + 1 \in DOMAIN datFile'[idxFile[i].dat]
          /\ datFile'[idxFile[i].dat][idxFile[i].fpos + 1] = idxFile[i].block
  <2> SUFFICES ASSUME NEW i \in DOMAIN idxFile
               PROVE  /\ idxFile[i].fpos + 1 \in DOMAIN datFile'[idxFile[i].dat]
                      /\ datFile'[idxFile[i].dat][idxFile[i].fpos + 1] = idxFile[i].block
    OBVIOUS
  <2>1. /\ idxFile[i].fpos + 1 \in DOMAIN datFile[idxFile[i].dat]
        /\ datFile[idxFile[i].dat][idxFile[i].fpos + 1] = idxFile[i].block
    BY DEF FileInv, DiskInv
  <2>2. idxFile[i].dat \in DatIdx /\ idxFile[i].fpos \in Nat
    BY IdxElement
  <2>3. CASE idxFile[i].dat # dat
    BY <1>13, <2>1, <2>2, <2>3
  <2>4. CASE idxFile[i].dat = dat
    <3>1. old = datFile[dat] /\ idxFile[i].fpos < pos
      BY <1>8, <1>9, <2>4
    <3>2. idxFile[i].fpos + 1 \in 1..Len(old) /\ idxFile[i].fpos + 1 # pos + 1
      BY <1>5, <1>6, <2>1, <2>2, <2>4, <3>1
    <3>3. idxFile[i].fpos + 1 \in DOMAIN file
      BY <1>5, <1>6, <1>12, <3>2
    <3>4. file[idxFile[i].fpos + 1] = old[idxFile[i].fpos + 1]
      BY <1>12, <3>2
    <3>5. QED
      BY <1>13, <2>1, <2>4, <3>1, <3>3, <3>4
  <2>5. QED
    BY <2>3, <2>4
<1>15. DiskInv'
  <2>1. \A d : Purgeable(d)' = Purgeable(d)
    BY <1>1 DEF Purgeable
  <2>2. QED
    BY <1>1, <1>14, <2>1 DEF FileInv, DiskInv
<1>16. PosInv'
  <2>1. pos <= Len(file)
    BY <1>5, <1>6, <1>12
  <2>2. \A i \in DOMAIN idxFile : /\ idxFile[i].dat <= dat
                                  /\ idxFile[i].dat = dat => idxFile[i].fpos < pos
    BY <1>8
  <2>3. maxidxfilepos = Len(idxFile)
    BY <1>1 DEF FileInv, PosInv
  <2>4. QED
    BY <1>1, <1>4, <1>13, <2>1, <2>2, <2>3 DEF PosInv
<1>17. RemovingInv'
  BY <1>1, <1>11 DEF FileInv, RemovingInv
<1>18. \A c \in Block : blockIndex'[c] = IF c = b THEN rec ELSE blockIndex[c]
  BY <1>1, <1>2 DEF TypeOK, b
<1>19. PendingInv'
  <2>1. pos + 1 \in DOMAIN file
    BY <1>5, <1>6, <1>12
  <2>2. blockIndex'[b] = rec
    BY <1>2, <1>18 DEF b
  <2>3. QED
    BY <1>1, <1>3, <1>4, <1>7, <1>12, <1>13, <2>1, <2>2 DEF PendingInv
<1>20. MapInv'
  <2>1. \A i \in DOMAIN idxFile : blockIndex'[idxFile[i].block] = blockIndex[idxFile[i].block]
    BY <1>3, <1>18, IdxElement
  <2>2. \A c \in Block : c # b /\ Known(c)' /\ ~Unwritten(c)' =>
                            \E i \in DOMAIN idxFile : idxFile[i].block = c
    <3>1. \A c \in Block : c # b /\ Known(c)' /\ ~Unwritten(c)' => Known(c) /\ ~Unwritten(c)
      BY <1>18 DEF Known, Unwritten
    <3>2. QED
      BY <1>1, <3>1 DEF FileInv, MapInv
  <2>3. QED
    BY <1>1, <1>4, <2>1, <2>2 DEF FileInv, MapInv
<1>21. CleanInv' /\ DataInv'
  BY <1>1 DEF FileInv, CleanInv, DataInv, ReadReturnsTheBlock
<1>22. QED
  BY <1>15, <1>16, <1>17, <1>19, <1>20, <1>21 DEF FileInv

\* The record goes to the end of blockchain.new, and names the data just
\* written.
LEMMA IndexWriteFile ==
    ASSUME TypeOK, TypeOK', MemInv, FileInv, WriteIndex
    PROVE  FileInv'
<1> DEFINE b   == writer.block
           n   == Len(idxFile)
           rec == [block |-> b, dat |-> blockIndex[b].dat, fpos |-> blockIndex[b].fpos,
                   trusted |-> blockIndex[b].trusted, invalid |-> FALSE]
<1>1. /\ mode = "up" /\ mode' = "up" /\ writer.pc = "index"
      /\ idxFile' = WriteAt(idxFile, maxidxfilepos, rec)
      /\ maxidxfilepos' = maxidxfilepos + 1 /\ maxdatfilepos' = maxdatfilepos + 1
      /\ writer' = [pc |-> "take", block |-> NoData]
      /\ UNCHANGED <<blockIndex, cache, blocksToWrite, maxdatfileidx, datFile, datDir, arcDir,
                     removing, reader, crashes>>
  BY DEF WriteIndex
<1>2. b \in Block /\ Known(b) /\ ~Unwritten(b)
  BY <1>1 DEF MemInv, WriterInv
<1>3. /\ maxidxfilepos = n /\ n \in Nat /\ idxFile \in Seq(IdxRec) /\ DOMAIN idxFile = 1..n
      /\ maxdatfilepos \in Nat /\ maxdatfileidx \in Nat
  BY <1>1 DEF FileInv, PosInv, TypeOK, DatIdx
<1>4. /\ blockIndex[b].ipos = n /\ blockIndex[b].dat = maxdatfileidx
      /\ blockIndex[b].fpos = maxdatfilepos
      /\ maxdatfilepos + 1 \in DOMAIN datFile[maxdatfileidx]
      /\ datFile[maxdatfileidx][maxdatfilepos + 1] = b
      /\ \A i \in DOMAIN idxFile : idxFile[i].block # b
  BY <1>1, <1>3 DEF FileInv, PendingInv
<1>5. /\ rec.block = b /\ rec.dat = maxdatfileidx /\ rec.fpos = maxdatfilepos
      /\ rec.trusted = blockIndex[b].trusted /\ rec.invalid = FALSE
  BY <1>4
<1> HIDE DEF rec, n, b
<1>6. Len(idxFile') = n + 1 /\ DOMAIN idxFile' = 1..(n + 1)
  BY <1>1, <1>3, WriteAtElements DEF n
<1>7. idxFile'[n + 1] = rec /\ \A i \in 1..n : idxFile'[i] = idxFile[i]
  <2>1. \A i \in 1..n : i # n + 1
    BY <1>3
  <2>2. QED
    BY <1>1, <1>3, <2>1, WriteAtElements DEF n
<1>8. \A i \in 1..(n + 1) : i = n + 1 \/ (i \in 1..n /\ i < n + 1)
  BY <1>3
<1>9. /\ \A i \in 1..n : /\ idxFile[i].dat <= maxdatfileidx
                         /\ idxFile[i].dat \in Nat /\ idxFile[i].fpos \in Nat
                         /\ idxFile[i].dat = maxdatfileidx => idxFile[i].fpos < maxdatfilepos
      /\ maxdatfileidx \in datDir
  BY <1>1, <1>3, IdxElement DEF FileInv, PosInv
<1>11. DiskInv'
  <2>1. \A i, j \in 1..(n + 1) : idxFile'[i].block = idxFile'[j].block => i = j
    <3>1. \A i, j \in 1..n : idxFile[i].block = idxFile[j].block => i = j
      BY <1>3 DEF FileInv, DiskInv
    <3>2. \A i \in 1..n : idxFile[i].block # b
      BY <1>3, <1>4
    <3>3. idxFile'[n + 1].block = b /\ \A i \in 1..n : idxFile'[i].block = idxFile[i].block
      BY <1>5, <1>7
    <3>4. QED
      BY <1>8, <3>1, <3>2, <3>3
  <2>2. \A i, j \in 1..(n + 1) : i <= j => idxFile'[i].dat <= idxFile'[j].dat
    <3> SUFFICES ASSUME NEW i \in 1..(n + 1), NEW j \in 1..(n + 1), i <= j
                 PROVE  idxFile'[i].dat <= idxFile'[j].dat
      OBVIOUS
    <3>1. CASE j = n + 1
      BY <1>3, <1>5, <1>7, <1>8, <1>9, <3>1
    <3>2. CASE j # n + 1
      <4>1. i \in 1..n /\ j \in 1..n
        BY <1>3, <3>2
      <4>2. QED
        BY <1>3, <1>7, <4>1 DEF FileInv, DiskInv
    <3>3. QED
      BY <3>1, <3>2
  <2>3. ASSUME NEW i \in 1..(n + 1)
        PROVE  /\ idxFile'[i].invalid => idxFile'[i].block \in Bad
               /\ idxFile'[i].fpos + 1 \in DOMAIN datFile[idxFile'[i].dat]
               /\ datFile[idxFile'[i].dat][idxFile'[i].fpos + 1] = idxFile'[i].block
               /\ idxFile'[i].dat \in datDir \cup arcDir \/ Purgeable(idxFile[i].dat)'
    <3>1. CASE i = n + 1
      BY <1>4, <1>5, <1>7, <1>9, <3>1
    <3>2. CASE i # n + 1
      <4>1. i \in DOMAIN idxFile /\ idxFile'[i] = idxFile[i]
        BY <1>3, <1>7, <1>8, <3>2
      <4>2. /\ idxFile[i].invalid => idxFile[i].block \in Bad
            /\ idxFile[i].fpos + 1 \in DOMAIN datFile[idxFile[i].dat]
            /\ datFile[idxFile[i].dat][idxFile[i].fpos + 1] = idxFile[i].block
            /\ idxFile[i].dat \in datDir \cup arcDir \/ Purgeable(idxFile[i].dat)
        BY <4>1 DEF FileInv, DiskInv
      <4>3. Purgeable(idxFile[i].dat) => Purgeable(idxFile[i].dat)'
        BY <1>3, <1>6, <1>7, <4>1 DEF Purgeable
      <4>4. QED
        BY <4>1, <4>2, <4>3
    <3>3. QED
      BY <3>1, <3>2
  <2>4. QED
    BY <1>1, <1>6, <2>1, <2>2, <2>3 DEF DiskInv
<1>12. PosInv'
  <2>1. maxidxfilepos' = Len(idxFile')
    BY <1>1, <1>3, <1>6
  <2>2. maxdatfilepos' <= Len(datFile[maxdatfileidx])
    <3>1. datFile[maxdatfileidx] \in Seq(Block \cup {NoData})
      BY DEF TypeOK
    <3>2. QED
      BY <1>1, <1>3, <1>4, <3>1
  <2>3. \A i \in 1..(n + 1) :
           /\ idxFile'[i].dat <= maxdatfileidx
           /\ idxFile'[i].dat = maxdatfileidx => idxFile'[i].fpos < maxdatfilepos + 1
    <3> SUFFICES ASSUME NEW i \in 1..(n + 1)
                 PROVE  /\ idxFile'[i].dat <= maxdatfileidx
                        /\ idxFile'[i].dat = maxdatfileidx => idxFile'[i].fpos < maxdatfilepos + 1
      OBVIOUS
    <3>1. CASE i = n + 1
      BY <1>3, <1>5, <1>7, <3>1
    <3>2. CASE i \in 1..n
      BY <1>3, <1>7, <1>9, <3>2
    <3>3. QED
      BY <1>8, <3>1, <3>2
  <2>4. n + 1 \in 1..(n + 1) /\ idxFile'[n + 1].dat = maxdatfileidx
    BY <1>3, <1>5, <1>7
  <2>5. QED
    BY <1>1, <1>6, <1>9, <2>1, <2>2, <2>3, <2>4 DEF PosInv
<1>13. RemovingInv'
  BY <1>1, <1>3, <1>6, <1>7, <1>8 DEF FileInv, RemovingInv
<1>14. PendingInv'
  BY <1>1 DEF PendingInv
<1>15. MapInv'
  <2>1. ASSUME NEW i \in 1..(n + 1)
        PROVE  /\ blockIndex[idxFile'[i].block] # NoRec
               /\ blockIndex[idxFile'[i].block].ipos = i - 1
               /\ blockIndex[idxFile'[i].block].dat = idxFile'[i].dat
               /\ blockIndex[idxFile'[i].block].fpos = idxFile'[i].fpos
               /\ ~idxFile'[i].invalid =>
                     blockIndex[idxFile'[i].block].trusted = idxFile'[i].trusted
    <3>1. CASE i = n + 1
      <4>1. i - 1 = n /\ idxFile'[i] = rec
        BY <1>3, <1>7, <3>1
      <4>2. QED
        BY <1>2, <1>4, <1>5, <4>1 DEF Known
    <3>2. CASE i # n + 1
      <4>1. i \in DOMAIN idxFile /\ idxFile'[i] = idxFile[i]
        BY <1>3, <1>7, <1>8, <3>2
      <4>2. QED
        BY <1>1, <4>1 DEF FileInv, MapInv
    <3>3. QED
      BY <3>1, <3>2
  <2>2. ASSUME NEW c \in Block, Known(c)', ~Unwritten(c)'
        PROVE  \E i \in 1..(n + 1) : idxFile'[i].block = c
    <3>1. CASE c = b
      <4>1. n + 1 \in 1..(n + 1)
        BY <1>3
      <4>2. QED
        BY <1>5, <1>7, <3>1, <4>1
    <3>2. CASE c # b
      <4>1. \E i \in DOMAIN idxFile : idxFile[i].block = c
        BY <1>1, <2>2, <3>2 DEF FileInv, MapInv, Known, Unwritten, b
      <4>2. QED
        BY <1>3, <1>7, <1>8, <4>1
    <3>3. QED
      BY <3>1, <3>2
  <2>3. QED
    BY <1>1, <1>6, <2>1, <2>2 DEF MapInv
<1>16. CleanInv' /\ DataInv'
  BY <1>1 DEF FileInv, CleanInv, DataInv, ReadReturnsTheBlock
<1>17. QED
  BY <1>11, <1>12, <1>13, <1>14, <1>15, <1>16 DEF FileInv

\* A trusted flag: in the file when the block is written, else in the map.
LEMMA TrustedFile ==
    ASSUME TypeOK, TypeOK', MemInv, FileInv, NEW b \in Block \ Bad,
           BlockAddTrusted(b) \/ BlockTrusted(b)
    PROVE  FileInv'
<1>1. /\ MainFree /\ Known(b)
      /\ UNCHANGED <<mode, cache, blocksToWrite, writer, posVars, datFile, datDir,
                     arcDir, removing, reader, crashes>>
  BY DEF BlockAddTrusted, BlockTrusted
<1>2. CASE Unwritten(b)
  <2>1. blockIndex[b].ipos + 1 \notin DOMAIN idxFile
    BY <1>2, IdxElement DEF Unwritten
  <2>2. blockIndex' = [blockIndex EXCEPT ![b].trusted = TRUE] /\ idxFile' = idxFile
    BY <2>1 DEF BlockAddTrusted, BlockTrusted, SetBlockFlag
  <2>3. QED
    BY <1>1, <1>2, <2>2, TrustedInMemoryFile DEF diskVars
<1>3. CASE ~Unwritten(b)
  <2>1. SetBlockFlag(b, "trusted")
    BY <1>1, <1>3 DEF BlockAddTrusted, BlockTrusted, Unwritten
  <2>2. QED
    BY <1>1, <1>3, <2>1, FlagFile
<1>4. QED
  BY <1>2, <1>3

LEMMA FileStep ==
    ASSUME NoSkew PROVE TypeOK /\ MemInv /\ FileInv /\ [Next]_vars => FileInv'
<1> SUFFICES ASSUME TypeOK, MemInv, FileInv, [Next]_vars PROVE FileInv'
  OBVIOUS
<1>t. TypeOK' /\ MemInv'
  BY MemStep
<1>1. CASE LoadBlockIndex
  BY <1>t, <1>1, LoadFile
<1>2. CASE Crash \/ Close
  <2>1. Stop /\ crashes' # 0
    BY <1>2 DEF Crash, Close, TypeOK
  <2>2. QED
    BY <2>1, StopFile
<1>3. CASE MainNext
  <2>1. ASSUME NEW b \in Block, NEW t, BlockAddNew(b, t) PROVE FileInv'
    BY <2>1, AddNewFile
  <2>2. ASSUME NEW b \in Block \ Bad, BlockAddTrusted(b) \/ BlockTrusted(b) PROVE FileInv'
    BY <1>t, <2>2, TrustedFile
  <2>3. ASSUME NEW b \in Bad, BlockInvalidDrop(b) PROVE FileInv'
    BY <2>3, DropFile, BlockDBAssumption
  <2>4. ASSUME NEW b \in Bad, BlockInvalidFlag(b) PROVE FileInv'
    <3>1. b \in Block /\ MainFree /\ Known(b) /\ ~Unwritten(b) /\ SetBlockFlag(b, "invalid")
      BY <2>4, BlockDBAssumption DEF BlockInvalidFlag
    <3>2. QED
      BY <1>t, <2>4, <3>1, FlagFile DEF BlockInvalidFlag
  <2>5. CASE Idle
    BY <2>5, QueueFile
  <2>6. QED
    BY <1>3, <2>1, <2>2, <2>3, <2>4, <2>5 DEF MainNext
<1>4. CASE WriterNext
  BY <1>t, <1>4, QueueFile, DataWriteFile, IndexWriteFile DEF WriterNext
<1>5. ASSUME NEW d \in DatIdx, RemoveDatFile(d) PROVE FileInv'
  BY <1>5, RemoveFile
<1>6. ASSUME NEW r \in Reader, ReaderNext(r) PROVE FileInv'
  BY <1>6, ReaderFile
<1>7. CASE UNCHANGED vars
  <2>1. \A c : Known(c)' = Known(c) /\ Unwritten(c)' = Unwritten(c) /\ Purgeable(c)' = Purgeable(c)
    BY <1>7 DEF Known, Unwritten, Purgeable, vars, memVars, diskVars
  <2>2. DiskInv'
    BY <1>7, <2>1 DEF FileInv, DiskInv, vars, diskVars
  <2>3. CleanInv' /\ RemovingInv'
    BY <1>7 DEF FileInv, CleanInv, RemovingInv, vars, diskVars
  <2>4. PosInv' /\ PendingInv'
    BY <1>7 DEF FileInv, PosInv, PendingInv, vars, memVars, posVars, diskVars
  <2>5. MapInv'
    BY <1>7, <2>1 DEF FileInv, MapInv, vars, memVars, diskVars
  <2>6. DataInv'
    BY <1>7 DEF FileInv, DataInv, ReadReturnsTheBlock, vars, memVars
  <2>7. QED
    BY <2>2, <2>3, <2>4, <2>5, <2>6 DEF FileInv
<1>8. QED
  BY <1>1, <1>2, <1>3, <1>4, <1>5, <1>6, <1>7 DEF Next

LEMMA FileHolds == ASSUME NoSkew PROVE Spec => [](TypeOK /\ MemInv /\ FileInv)
<1>1. Init => TypeOK /\ MemInv /\ FileInv
  BY TypeInit, FileInit
<1>2. TypeOK /\ MemInv /\ FileInv /\ [Next]_vars => (TypeOK /\ MemInv /\ FileInv)'
  BY MemStep, FileStep
<1>3. QED
  BY <1>1, <1>2, PTL DEF Spec

\* BlockGetInternal: what a reader gets is the block it asked for.
THEOREM ReadersGetTheBlock == ASSUME NoSkew PROVE Spec => []ReadReturnsTheBlock
<1>1. FileInv => ReadReturnsTheBlock
  BY DEF FileInv, DataInv
<1>2. QED
  BY <1>1, FileHolds, PTL

\* A record that is not flagged is all that makes a good block stored.
LEMMA RecordIsStored ==
    ASSUME TypeOK, FileInv, NEW b \in Block \ Bad
    PROVE  /\ Stored(b) <=> \E i \in DOMAIN idxFile : idxFile[i].block = b
           /\ \A i \in DOMAIN idxFile : idxFile[i].block = b => i \in ValidSlots
<1>1. \A i \in DOMAIN idxFile : idxFile[i].block = b => i \in ValidSlots
  BY DEF FileInv, DiskInv, ValidSlots
<1>2. ASSUME NEW i \in DOMAIN idxFile, idxFile[i].block = b PROVE Stored(b)
  <2>1. /\ idxFile[i].fpos + 1 \in DOMAIN datFile[idxFile[i].dat]
        /\ datFile[idxFile[i].dat][idxFile[i].fpos + 1] = b
        /\ idxFile[i].dat \in datDir \cup arcDir \/ Purgeable(idxFile[i].dat)
    BY <1>2 DEF FileInv, DiskInv
  <2>2. QED
    BY <1>1, <1>2, <2>1 DEF Stored
<1>3. Stored(b) => \E i \in DOMAIN idxFile : idxFile[i].block = b
  BY DEF Stored, ValidSlots
<1>4. QED
  BY <1>1, <1>2, <1>3

\* writeAll: what it leaves behind survives a crash, trusted flags included.
THEOREM FlushedStaysDurable == ASSUME NoSkew PROVE Spec => []FlushedIsDurable
<1>1. TypeOK /\ MemInv /\ FileInv => FlushedIsDurable
  <2> SUFFICES ASSUME TypeOK, MemInv, FileInv, MainFree, blocksToWrite = <<>>,
                      NEW b \in Block \ Bad, Known(b)
               PROVE  /\ Stored(b)
                      /\ blockIndex[b].trusted =
                            \E i \in ValidSlots : idxFile[i].block = b /\ idxFile[i].trusted
    BY DEF FlushedIsDurable
  <2>1. mode = "up" /\ writer.pc = "idle" /\ writer.block = NoData
    BY DEF MainFree, MemInv, WriterInv
  <2>2. ~Unwritten(b)
    BY <2>1, BlockDBAssumption DEF MemInv, UnwrittenIsCached
  <2>3. PICK i \in DOMAIN idxFile : idxFile[i].block = b
    BY <2>1, <2>2 DEF FileInv, MapInv
  <2>4. i \in ValidSlots /\ Stored(b)
    BY <2>3, RecordIsStored
  <2>5. blockIndex[b].trusted = idxFile[i].trusted
    BY <2>1, <2>3, <2>4 DEF FileInv, MapInv, ValidSlots
  <2>6. \A j \in ValidSlots : idxFile[j].block = b => j = i
    BY <2>3 DEF FileInv, DiskInv, ValidSlots
  <2>7. idxFile[i].trusted \in BOOLEAN
    BY IdxElement
  <2>8. idxFile[i].trusted = \E j \in ValidSlots : idxFile[j].block = b /\ idxFile[j].trusted
    <3>1. idxFile[i].trusted <=> \E j \in ValidSlots : idxFile[j].block = b /\ idxFile[j].trusted
      BY <2>3, <2>4, <2>6
    <3>2. QED
      BY <2>7, <3>1
  <2>9. QED
    BY <2>4, <2>5, <2>8
<1>2. QED
  BY <1>1, FileHolds, PTL

\* Records stay where they are, and trusted flags with them.
LEMMA RecordsStay ==
    ASSUME NoSkew, TypeOK, MemInv, FileInv, [Next]_vars
    PROVE  \A i \in DOMAIN idxFile :
              /\ i \in DOMAIN idxFile' /\ idxFile'[i].block = idxFile[i].block
              /\ idxFile[i].trusted => idxFile'[i].trusted
<1>1. CASE idxFile' = idxFile
  BY <1>1
<1>2. ASSUME NEW b \in Block, NEW fl, Known(b), SetBlockFlag(b, fl)
      PROVE  \A i \in DOMAIN idxFile :
                /\ i \in DOMAIN idxFile' /\ idxFile'[i].block = idxFile[i].block
                /\ idxFile[i].trusted => idxFile'[i].trusted
  <2>1. idxFile' \in Seq(IdxRec) /\ Len(idxFile') = Len(idxFile)
    BY <1>2, SetBlockFlagFacts
  <2>2. DOMAIN idxFile' = DOMAIN idxFile
    BY <2>1 DEF TypeOK
  <2>3. \A i \in DOMAIN idxFile : /\ idxFile'[i].block = idxFile[i].block
                                  /\ idxFile[i].trusted => idxFile'[i].trusted
    BY <1>2, SetBlockFlagFacts
  <2>4. QED
    BY <2>2, <2>3
<1>3. CASE WriteIndex
  <2> DEFINE b   == writer.block
             rec == [block |-> b, dat |-> blockIndex[b].dat, fpos |-> blockIndex[b].fpos,
                     trusted |-> blockIndex[b].trusted, invalid |-> FALSE]
  <2>1. idxFile' = WriteAt(idxFile, maxidxfilepos, rec) /\ mode = "up"
    BY <1>3 DEF WriteIndex
  <2> HIDE DEF rec
  <2>2. maxidxfilepos = Len(idxFile) /\ idxFile \in Seq(IdxRec) /\ Len(idxFile) \in Nat
    BY <2>1 DEF FileInv, PosInv, TypeOK
  <2>3. /\ DOMAIN idxFile' = 1..(Len(idxFile) + 1)
        /\ \A i \in 1..Len(idxFile) : i # Len(idxFile) + 1 => idxFile'[i] = idxFile[i]
    BY <2>1, <2>2, WriteAtElements
  <2>4. QED
    BY <2>2, <2>3
<1>4. QED
  <2>1. CASE MainNext
    <3>1. ASSUME NEW b \in Block, BlockAddTrusted(b) \/ BlockTrusted(b) \/ BlockInvalidFlag(b)
          PROVE  \/ idxFile' = idxFile
                 \/ Known(b) /\ (SetBlockFlag(b, "trusted") \/ SetBlockFlag(b, "invalid"))
      BY <3>1 DEF BlockAddTrusted, BlockTrusted, BlockInvalidFlag
    <3>2. ASSUME NEW b, \/ \E t : BlockAddNew(b, t)
                        \/ BlockInvalidDrop(b) \/ Idle
          PROVE  idxFile' = idxFile
      BY <3>2 DEF BlockAddNew, BlockInvalidDrop, Idle, diskVars
    <3>3. QED
      BY <1>1, <1>2, <2>1, <3>1, <3>2, BlockDBAssumption DEF MainNext
  <2>2. CASE WriterNext
    BY <1>1, <1>3, <2>2 DEF WriterNext, WriteTake, WriteDone, WriteData, diskVars
  <2>3. CASE LoadBlockIndex \/ Crash \/ Close \/ UNCHANGED vars
    BY <1>1, <2>3 DEF LoadBlockIndex, Crash, Close, Stop, diskVars, vars
  <2>4. CASE \E d \in DatIdx : RemoveDatFile(d)
    BY <1>1, <2>4 DEF RemoveDatFile
  <2>5. CASE \E r \in Reader : ReaderNext(r)
    BY <1>1, <2>5 DEF ReaderNext, GetLookup, GetRead, GetStore, GetReturn, diskVars
  <2>6. QED
    BY <2>1, <2>2, <2>3, <2>4, <2>5 DEF Next

\* writeOne, setBlockFlag, removeDatFile and restarts: what is stored stays
\* stored, and what is trusted on disk stays trusted.
THEOREM StoredStaysKept == ASSUME NoSkew PROVE Spec => StoredIsKept
<1>1. TypeOK /\ MemInv /\ FileInv /\ (TypeOK /\ MemInv /\ FileInv)' /\ [Next]_vars =>
        [\A b \in Block \ Bad :
          /\ Stored(b) => Stored(b)'
          /\ (\E i \in ValidSlots : idxFile[i].block = b /\ idxFile[i].trusted) =>
             (\E i \in ValidSlots : idxFile[i].block = b /\ idxFile[i].trusted)']_vars
  <2> SUFFICES ASSUME TypeOK, MemInv, FileInv, TypeOK', FileInv', [Next]_vars, NEW b \in Block \ Bad
               PROVE  /\ Stored(b) => Stored(b)'
                      /\ (\E i \in ValidSlots : idxFile[i].block = b /\ idxFile[i].trusted) =>
                         (\E i \in ValidSlots : idxFile[i].block = b /\ idxFile[i].trusted)'
    OBVIOUS
  <2>1. \A i \in DOMAIN idxFile :
              /\ i \in DOMAIN idxFile' /\ idxFile'[i].block = idxFile[i].block
              /\ idxFile[i].trusted => idxFile'[i].trusted
    BY RecordsStay
  <2>2. ASSUME NEW i \in DOMAIN idxFile', idxFile'[i].block = b
        PROVE  i \in ValidSlots' /\ Stored(b)'
    <3>1. ~idxFile'[i].invalid
      BY <2>2 DEF FileInv, DiskInv
    <3>2. i \in ValidSlots'
      BY <3>1 DEF ValidSlots
    <3>3. /\ idxFile'[i].fpos + 1 \in DOMAIN datFile'[idxFile'[i].dat]
          /\ datFile'[idxFile'[i].dat][idxFile'[i].fpos + 1] = b
          /\ idxFile'[i].dat \in datDir' \cup arcDir' \/ Purgeable(idxFile[i].dat)'
      BY <2>2 DEF FileInv, DiskInv
    <3>4. QED
      BY <2>2, <3>2, <3>3 DEF Stored
  <2>3. Stored(b) => Stored(b)'
    BY <2>1, <2>2 DEF Stored, ValidSlots
  <2>4. (\E i \in ValidSlots : idxFile[i].block = b /\ idxFile[i].trusted) =>
        (\E i \in ValidSlots : idxFile[i].block = b /\ idxFile[i].trusted)'
    BY <2>1, <2>2 DEF ValidSlots
  <2>5. QED
    BY <2>3, <2>4
<1>2. QED
  BY <1>1, FileHolds, PTL DEF Spec, StoredIsKept

-----------------------------------------------------------------------------
(* The store the chain sees *)

\* The parts of a block's entry while the process runs.
EntrySt(b) ==
    IF ~Known(b) THEN "none"
    ELSE IF blockIndex[b].ipos = -1 \/ (writer.pc = "index" /\ writer.block = b) THEN "queued"
    ELSE "disk"
EntryTrusted(b) == Known(b) /\ blockIndex[b].trusted
EntryInvalid(b) == \E i \in DOMAIN idxFile : idxFile[i].block = b /\ idxFile[i].invalid

LEMMA StoredAsUp ==
    ASSUME mode = "up", NEW b
    PROVE  StoredAs(b) = [st |-> EntrySt(b), trusted |-> EntryTrusted(b), invalid |-> EntryInvalid(b)]
BY DEF StoredAs, EntrySt, EntryTrusted, EntryInvalid, Known

\* A block that has no record is not flagged, and one that is not in the index
\* is absent.
LEMMA EntryFacts ==
    ASSUME TypeOK, MemInv, FileInv, mode = "up", NEW b \in Block
    PROVE  /\ EntrySt(b) # "disk" => EntryInvalid(b) = FALSE
           /\ ~Known(b) => StoredAs(b) = BS!Absent
           /\ EntryTrusted(b) \in BOOLEAN /\ EntryInvalid(b) \in BOOLEAN
           /\ Known(b) => EntryTrusted(b) = blockIndex[b].trusted
<1>1. EntrySt(b) # "disk" => \A i \in DOMAIN idxFile : idxFile[i].block # b
  <2>1. CASE ~Known(b) \/ Unwritten(b)
    BY <2>1, UnwrittenHasNoRecord
  <2>2. CASE writer.pc = "index" /\ writer.block = b
    BY <2>2 DEF FileInv, PendingInv
  <2>3. QED
    BY <2>1, <2>2 DEF EntrySt, Unwritten
<1>2. EntrySt(b) # "disk" => EntryInvalid(b) = FALSE
  BY <1>1 DEF EntryInvalid
<1>3. ~Known(b) => EntrySt(b) = "none" /\ EntryTrusted(b) = FALSE
  BY DEF EntrySt, EntryTrusted
<1>4. ~Known(b) => StoredAs(b) = BS!Absent
  BY <1>2, <1>3, StoredAsUp DEF BS!Absent
<1>5. Known(b) => blockIndex[b].trusted \in BOOLEAN
  BY DEF TypeOK, Known, OneBl
<1>6. EntryTrusted(b) \in BOOLEAN /\ EntryInvalid(b) \in BOOLEAN
  BY DEF EntryTrusted, EntryInvalid
<1>7. Known(b) => EntryTrusted(b) = blockIndex[b].trusted
  BY <1>5 DEF EntryTrusted
<1>8. QED
  BY <1>2, <1>4, <1>6, <1>7

\* A written block has one record; its flags are those of the entry.
LEMMA EntryOnDisk ==
    ASSUME TypeOK, MemInv, FileInv, mode = "up", NEW i \in DOMAIN idxFile
    PROVE  /\ EntrySt(idxFile[i].block) = "disk"
           /\ EntryInvalid(idxFile[i].block) = idxFile[i].invalid
           /\ ~idxFile[i].invalid => EntryTrusted(idxFile[i].block) = idxFile[i].trusted
<1> DEFINE b == idxFile[i].block
<1>1. b \in Block /\ idxFile[i].invalid \in BOOLEAN /\ i \in Nat /\ i >= 1
  BY IdxElement
<1>2. Known(b) /\ blockIndex[b].ipos = i - 1
  BY DEF FileInv, MapInv, Known
<1>3. ~idxFile[i].invalid => blockIndex[b].trusted = idxFile[i].trusted
  BY DEF FileInv, MapInv
<1>4. blockIndex[b].ipos # -1
  BY <1>1, <1>2
<1>5. ~(writer.pc = "index" /\ writer.block = b)
  BY DEF FileInv, PendingInv
<1>6. \A j \in DOMAIN idxFile : idxFile[j].block = b => j = i
  BY DEF FileInv, DiskInv
<1> HIDE DEF b
<1>7. EntrySt(b) = "disk"
  BY <1>2, <1>4, <1>5 DEF EntrySt
<1>8. EntryInvalid(b) = idxFile[i].invalid
  <2>1. EntryInvalid(b) <=> idxFile[i].invalid
    BY <1>6 DEF EntryInvalid, b
  <2>2. EntryInvalid(b) \in BOOLEAN
    BY DEF EntryInvalid
  <2>3. QED
    BY <1>1, <2>1, <2>2
<1>9. ~idxFile[i].invalid => EntryTrusted(b) = idxFile[i].trusted
  BY <1>1, <1>2, <1>3, EntryFacts
<1>10. QED
  BY <1>7, <1>8, <1>9 DEF b

\* What a load would find.
LEMMA StoredAsDown ==
    ASSUME TypeOK, FileInv, mode = "down", NEW b \in Block
    PROVE  /\ (\A i \in ValidSlots : idxFile[i].block # b) => StoredAs(b) = BS!Absent
           /\ \A i \in ValidSlots : idxFile[i].block = b =>
                 StoredAs(b) = [st |-> "disk", trusted |-> idxFile[i].trusted, invalid |-> FALSE]
<1> DEFINE slots == {i \in ValidSlots : idxFile[i].block = b}
           tr == \E i \in slots : idxFile[i].trusted
<1>1. StoredAs(b) = [st |-> IF slots = {} THEN "none" ELSE "disk", invalid |-> FALSE, trusted |-> tr]
  BY DEF StoredAs
<1>2. ASSUME \A i \in ValidSlots : idxFile[i].block # b PROVE StoredAs(b) = BS!Absent
  <2>1. slots = {} /\ tr = FALSE
    BY <1>2
  <2> HIDE DEF slots, tr
  <2>2. QED
    BY <1>1, <2>1 DEF BS!Absent
<1>3. ASSUME NEW i \in ValidSlots, idxFile[i].block = b
      PROVE  StoredAs(b) = [st |-> "disk", trusted |-> idxFile[i].trusted, invalid |-> FALSE]
  <2>1. slots = {i}
    BY <1>3 DEF FileInv, DiskInv, ValidSlots
  <2>2. idxFile[i].trusted \in BOOLEAN
    BY IdxElement DEF ValidSlots
  <2>3. tr = idxFile[i].trusted
    <3>1. tr <=> idxFile[i].trusted
      BY <2>1
    <3>2. tr \in BOOLEAN
      OBVIOUS
    <3> HIDE DEF tr
    <3>3. QED
      BY <2>2, <3>1, <3>2
  <2>4. slots # {}
    BY <2>1
  <2> HIDE DEF slots, tr
  <2>5. QED
    BY <1>1, <2>3, <2>4
<1>4. QED
  BY <1>2, <1>3

\* The entries of the store, told by the records.
ViewUp ==
    mode = "up" =>
        /\ \A b \in Block :
              /\ StoredAs(b) = [st |-> EntrySt(b), trusted |-> EntryTrusted(b), invalid |-> EntryInvalid(b)]
              /\ ~Known(b) => StoredAs(b) = BS!Absent
        /\ \A i \in DOMAIN idxFile :
              /\ EntrySt(idxFile[i].block) = "disk"
              /\ EntryInvalid(idxFile[i].block) = idxFile[i].invalid
              /\ ~idxFile[i].invalid => EntryTrusted(idxFile[i].block) = idxFile[i].trusted
ViewDown ==
    mode = "down" => \A b \in Block :
        /\ (\A i \in ValidSlots : idxFile[i].block # b) => StoredAs(b) = BS!Absent
        /\ \A i \in ValidSlots : idxFile[i].block = b =>
              StoredAs(b) = [st |-> "disk", trusted |-> idxFile[i].trusted, invalid |-> FALSE]

LEMMA ViewHolds == TypeOK /\ MemInv /\ FileInv => ViewUp /\ ViewDown
<1> SUFFICES ASSUME TypeOK, MemInv, FileInv PROVE ViewUp /\ ViewDown
  OBVIOUS
<1>1. ViewUp
  BY StoredAsUp, EntryFacts, EntryOnDisk, Zenon DEF ViewUp
<1>2. ViewDown
  BY StoredAsDown, Zenon DEF ViewDown
<1>3. QED
  BY <1>1, <1>2

LEMMA ViewHoldsNext == TypeOK' /\ MemInv' /\ FileInv' => ViewUp' /\ ViewDown'
BY ViewHolds, PTL

\* Stopping keeps what is on disk and not flagged.
LEMMA StopRefines ==
    ASSUME TypeOK, MemInv, FileInv, ViewUp, ViewDown', mode = "up", Stop
    PROVE  BS!Restart
<1>1. mode' = "down" /\ idxFile' = idxFile
  BY DEF Stop, diskVars
<1>2. ValidSlots' = ValidSlots
  BY <1>1 DEF ValidSlots
<1> DEFINE kept(b) == IF StoredAs(b).st = "disk" /\ ~StoredAs(b).invalid THEN StoredAs(b) ELSE BS!Absent
<1>3. ASSUME NEW b \in Block PROVE StoredAs(b)' = kept(b)
  <2>1. /\ StoredAs(b) = [st |-> EntrySt(b), trusted |-> EntryTrusted(b), invalid |-> EntryInvalid(b)]
        /\ StoredAs(b).st = EntrySt(b) /\ StoredAs(b).invalid = EntryInvalid(b)
    BY StoredAsUp
  <2>2. ASSUME NEW i \in ValidSlots, idxFile[i].block = b PROVE StoredAs(b)' = kept(b)
    <3>1. StoredAs(b)' = [st |-> "disk", trusted |-> idxFile[i].trusted, invalid |-> FALSE]
      BY <1>1, <1>2, <2>2 DEF ViewDown
    <3>2. i \in DOMAIN idxFile /\ ~idxFile[i].invalid /\ idxFile[i].invalid = FALSE
      BY IdxElement DEF ValidSlots
    <3>3. EntrySt(b) = "disk" /\ EntryInvalid(b) = FALSE /\ EntryTrusted(b) = idxFile[i].trusted
      BY <2>2, <3>2, EntryOnDisk
    <3>4. QED
      BY <2>1, <3>1, <3>3
  <2>3. ASSUME \A i \in ValidSlots : idxFile[i].block # b PROVE StoredAs(b)' = kept(b)
    <3>1. StoredAs(b)' = BS!Absent
      <4>1. (\A i \in ValidSlots' : idxFile'[i].block # b) => StoredAs(b)' = BS!Absent
        BY <1>1 DEF ViewDown
      <4>2. QED
        BY <1>1, <1>2, <2>3, <4>1
    <3>2. ~(EntrySt(b) = "disk" /\ ~EntryInvalid(b))
      <4> SUFFICES ASSUME EntrySt(b) = "disk" PROVE EntryInvalid(b)
        OBVIOUS
      <4>1. PICK i \in DOMAIN idxFile : idxFile[i].block = b
        BY DEF EntrySt, FileInv, MapInv, Known, Unwritten
      <4>2. QED
        BY <2>3, <4>1 DEF EntryInvalid, ValidSlots
    <3>3. QED
      BY <2>1, <3>1, <3>2
  <2>4. QED
    BY <2>2, <2>3
<1>4. QED
  BY <1>1, <1>3 DEF BS!Restart, BS!Reloaded

\* Loading finds what was there.
LEMMA LoadRefines ==
    ASSUME NoSkew, TypeOK, MemInv, FileInv, ViewDown, ViewUp', LoadBlockIndex
    PROVE  BS!Restart
<1>1. mode = "down" /\ mode' = "up" /\ idxFile' = idxFile /\ writer' = writer /\ crashes' = crashes
  BY DEF LoadBlockIndex
<1>2. \A i \in DOMAIN idxFile : i \in ValidSlots
  <2>1. CASE Bad = {}
    BY <2>1 DEF FileInv, DiskInv, ValidSlots
  <2>2. CASE MaxCrash = 0
    BY <1>1, <2>2 DEF FileInv, CleanInv, TypeOK
  <2>3. QED
    BY <2>1, <2>2 DEF NoSkew
<1>3. ASSUME NEW b \in Block PROVE StoredAs(b)' = StoredAs(b)
  <2>1. StoredAs(b)' = [st |-> EntrySt(b)', trusted |-> EntryTrusted(b)', invalid |-> EntryInvalid(b)']
    BY <1>1 DEF ViewUp
  <2>2. ASSUME NEW i \in DOMAIN idxFile, idxFile[i].block = b PROVE StoredAs(b)' = StoredAs(b)
    <3>1. i \in ValidSlots /\ ~idxFile[i].invalid /\ idxFile[i].invalid = FALSE
      BY <1>2, IdxElement DEF ValidSlots
    <3>2. StoredAs(b) = [st |-> "disk", trusted |-> idxFile[i].trusted, invalid |-> FALSE]
      BY <1>1, <2>2, <3>1, StoredAsDown
    <3>3. EntrySt(b)' = "disk" /\ EntryInvalid(b)' = FALSE /\ EntryTrusted(b)' = idxFile[i].trusted
      <4>1. i \in DOMAIN idxFile' /\ idxFile'[i].block = b /\ idxFile'[i] = idxFile[i]
        BY <1>1, <2>2
      <4>2. /\ EntrySt(idxFile[i].block)' = "disk"
            /\ EntryInvalid(idxFile[i].block)' = idxFile'[i].invalid
            /\ ~idxFile'[i].invalid => EntryTrusted(idxFile[i].block)' = idxFile'[i].trusted
        BY <1>1, <4>1 DEF ViewUp
      <4>3. QED
        BY <3>1, <4>1, <4>2
    <3>4. QED
      BY <2>1, <3>2, <3>3
  <2>3. ASSUME \A i \in DOMAIN idxFile : idxFile[i].block # b PROVE StoredAs(b)' = StoredAs(b)
    <3>1. StoredAs(b) = BS!Absent
      BY <1>1, <2>3, StoredAsDown DEF ValidSlots
    <3>2. ~Known(b)'
      <4> SUFFICES ASSUME Known(b)' PROVE FALSE
        OBVIOUS
      <4>1. blockIndex'[b] = LoadedRec(b)
        BY DEF LoadBlockIndex
      <4>2. LoadedRec(b) # NoRec
        BY <4>1 DEF Known
      <4>3. Slots(b) # {}
        BY <4>2, LoadedRecFacts DEF TypeOK
      <4>4. QED
        BY <2>3, <4>3 DEF Slots, ValidSlots
    <3>3. StoredAs(b)' = BS!Absent
      BY <1>1, <3>2 DEF ViewUp
    <3>4. QED
      BY <3>1, <3>3
  <2>4. QED
    BY <2>2, <2>3
<1>4. QED
  BY <1>1, <1>3 DEF BS!Restart

\* Entries with one or two fields set.
IsEntry(e, x, t, v) == e = [st |-> x, trusted |-> t, invalid |-> v]

LEMMA EntryTrustedSet ==
    ASSUME NEW x, NEW t, NEW v, NEW y, NEW e, NEW f, IsEntry(e, x, t, v), IsEntry(f, x, y, v)
    PROVE  f = [e EXCEPT !.trusted = y]
<1>1. e \in [st : {x}, trusted : {t}, invalid : {v}]
  BY DEF IsEntry
<1>2. QED
  BY <1>1 DEF IsEntry

LEMMA EntryFlagsSet ==
    ASSUME NEW x, NEW t, NEW v, NEW y, NEW e, NEW f, IsEntry(e, x, t, v), IsEntry(f, x, y, y)
    PROVE  f = [e EXCEPT !.invalid = y, !.trusted = y]
<1>1. e \in [st : {x}, trusted : {t}, invalid : {v}]
  BY DEF IsEntry
<1>2. [e EXCEPT !.invalid = y, !.trusted = y] \in [st : {x}, trusted : {y}, invalid : {y}]
  BY <1>1
<1>3. f \in [st : {x}, trusted : {y}, invalid : {y}]
  BY DEF IsEntry
<1>4. QED
  BY <1>2, <1>3

\* Entries that a step leaves alone.
LEMMA SameEntry ==
    ASSUME mode = "up", mode' = "up", ViewUp, ViewUp', NEW c \in Block,
           blockIndex'[c] = blockIndex[c], EntryInvalid(c)' = EntryInvalid(c),
           (writer'.pc = "index" /\ writer'.block = c) <=> (writer.pc = "index" /\ writer.block = c)
    PROVE  StoredAs(c)' = StoredAs(c)
<1>1. EntrySt(c)' = EntrySt(c) /\ EntryTrusted(c)' = EntryTrusted(c)
  BY DEF EntrySt, EntryTrusted, Known
<1>2. /\ StoredAs(c) = [st |-> EntrySt(c), trusted |-> EntryTrusted(c), invalid |-> EntryInvalid(c)]
      /\ StoredAs(c)' = [st |-> EntrySt(c)', trusted |-> EntryTrusted(c)', invalid |-> EntryInvalid(c)']
  BY DEF ViewUp
<1>3. QED
  BY <1>1, <1>2

\* Steps the chain does not see.
LEMMA StutterRefines ==
    ASSUME TypeOK, MemInv, mode = "up", ViewUp, ViewUp',
           \/ Idle \/ WriteTake \/ WriteDone \/ WriteData
           \/ \E d \in DatIdx : RemoveDatFile(d)
           \/ \E r \in Reader : ReaderNext(r)
    PROVE  UNCHANGED <<mode = "up", [b \in Block |-> StoredAs(b)]>>
<1>1. mode' = "up" /\ idxFile' = idxFile
  BY DEF Idle, WriteTake, WriteDone, WriteData, RemoveDatFile, ReaderNext, GetLookup, GetRead,
         GetStore, GetReturn, diskVars
<1>2. \A c : EntryInvalid(c)' = EntryInvalid(c)
  BY <1>1 DEF EntryInvalid
<1>3. ASSUME NEW c \in Block PROVE StoredAs(c)' = StoredAs(c)
  <2>1. CASE ~WriteData
    <3>1. blockIndex' = blockIndex
      BY <2>1 DEF Idle, WriteTake, WriteDone, RemoveDatFile, ReaderNext, GetLookup, GetRead,
                  GetStore, GetReturn, memVars
    <3>2. CASE Idle \/ WriteTake \/ WriteDone
      <4>1. writer.pc # "index" /\ writer'.pc # "index"
        BY <3>2 DEF Idle, WriteTake, WriteDone, MainFree, StartWriting
      <4>2. QED
        BY <1>1, <1>2, <3>1, <4>1, SameEntry
    <3>3. CASE (\E d \in DatIdx : RemoveDatFile(d)) \/ \E r \in Reader : ReaderNext(r)
      <4>1. writer' = writer
        BY <3>3 DEF RemoveDatFile, ReaderNext, GetLookup, GetRead, GetStore, GetReturn, memVars
      <4>2. QED
        BY <1>1, <1>2, <3>1, <4>1, SameEntry
    <3>4. QED
      BY <2>1, <3>2, <3>3
  <2>2. CASE WriteData
    <3> DEFINE b   == writer.block
               dat == IF RollOver THEN maxdatfileidx + 1 ELSE maxdatfileidx
               pos == IF RollOver THEN 0 ELSE maxdatfilepos
               rec == [blockIndex[b] EXCEPT !.ipos = maxidxfilepos, !.dat = dat, !.fpos = pos]
    <3>1. /\ writer.pc = "data" /\ blockIndex' = [blockIndex EXCEPT ![b] = rec]
          /\ writer' = [writer EXCEPT !.pc = "index"]
          /\ dat \in DatIdx /\ pos \in Nat /\ maxidxfilepos \in Nat
      BY <2>2 DEF WriteData, TypeOK
    <3>2. b \in Block /\ Unwritten(b) /\ Known(b) /\ blockIndex[b] \in OneBl
      BY <3>1 DEF MemInv, WriterInv, Unwritten, TypeOK, Known
    <3>3. rec \in OneBl /\ rec.trusted = blockIndex[b].trusted
      BY <3>1, <3>2 DEF OneBl
    <3>4. writer'.pc = "index" /\ writer'.block = b
      BY <3>1 DEF TypeOK, WriterState
    <3> HIDE DEF rec, b, dat, pos
    <3>5. CASE c = b
      <4>1. blockIndex'[c] = rec
        BY <3>1, <3>2, <3>5 DEF TypeOK
      <4>2. EntrySt(c)' = "queued" /\ EntrySt(c) = "queued"
        BY <3>2, <3>3, <3>4, <3>5, <4>1, RecordsAreKnown DEF EntrySt, Known, Unwritten
      <4>3. EntryTrusted(c)' = EntryTrusted(c)
        BY <3>2, <3>3, <3>5, <4>1, RecordsAreKnown DEF EntryTrusted, Known
      <4>4. QED
        BY <1>1, <1>2, <4>2, <4>3 DEF ViewUp
    <3>6. CASE c # b
      <4>1. blockIndex'[c] = blockIndex[c]
        BY <3>1, <3>6 DEF TypeOK
      <4>2. QED
        BY <1>1, <1>2, <3>1, <3>4, <3>6, <4>1, SameEntry
    <3>7. QED
      BY <3>5, <3>6
  <2>3. QED
    BY <2>1, <2>2
<1>4. QED
  BY <1>1, <1>3

LEMMA AddRefines ==
    ASSUME TypeOK, MemInv, FileInv, ViewUp, ViewUp', NEW b \in Block, NEW t \in BOOLEAN, BlockAddNew(b, t)
    PROVE  BS!Add(b, t)
<1> DEFINE rec == [ipos |-> -1, dat |-> 0, fpos |-> 0, trusted |-> t]
<1>1. /\ mode = "up" /\ mode' = "up" /\ ~Known(b) /\ writer.pc = "idle" /\ writer'.pc # "index"
      /\ blockIndex' = [blockIndex EXCEPT ![b] = rec] /\ idxFile' = idxFile
  BY DEF BlockAddNew, MainFree, StartWriting, diskVars
<1>2. rec.ipos = -1 /\ rec.trusted = t /\ rec # NoRec
  <2>1. rec \in OneBl
    BY BlockDBAssumption DEF OneBl, DatIdx
  <2>2. QED
    BY <2>1, RecordsAreKnown
<1> HIDE DEF rec
<1>3. \A c \in Block : blockIndex'[c] = IF c = b THEN rec ELSE blockIndex[c]
  BY <1>1 DEF TypeOK
<1>4. \A c : EntryInvalid(c)' = EntryInvalid(c)
  BY <1>1 DEF EntryInvalid
<1>5. StoredAs(b) = BS!Absent
  BY <1>1 DEF ViewUp
<1>6. StoredAs(b)' = [st |-> "queued", trusted |-> t, invalid |-> FALSE]
  <2>1. EntrySt(b)' = "queued"
    BY <1>2, <1>3 DEF EntrySt, Known
  <2>2. EntryTrusted(b)' = t
    BY <1>2, <1>3 DEF EntryTrusted, Known
  <2>3. EntryInvalid(b)' = FALSE
    <3>1. EntrySt(b) = "none"
      BY <1>1 DEF EntrySt
    <3>2. EntryInvalid(b) = FALSE
      BY <1>1, <3>1, EntryFacts
    <3>3. QED
      BY <1>4, <3>2
  <2>4. QED
    BY <1>1, <2>1, <2>2, <2>3 DEF ViewUp
<1>7. \A c \in Block \ {b} : StoredAs(c)' = StoredAs(c)
  BY <1>1, <1>3, <1>4, SameEntry
<1>8. BS!Absent.st = "none"
  BY DEF BS!Absent
<1>9. [c \in Block |-> StoredAs(c)]' =
        [[c \in Block |-> StoredAs(c)] EXCEPT ![b] = [st |-> "queued", trusted |-> t, invalid |-> FALSE]]
  BY <1>6, <1>7
<1>10. QED
  BY <1>1, <1>5, <1>8, <1>9 DEF BS!Add, BS!Has, BS!Added

\* setBlockFlag of another flag than the invalid one.
LEMMA TrustedKeepsInvalid ==
    ASSUME TypeOK, NEW b \in Block, Known(b), NEW fl, fl # "invalid", SetBlockFlag(b, fl)
    PROVE  /\ DOMAIN idxFile' = DOMAIN idxFile
           /\ \A i \in DOMAIN idxFile : /\ idxFile'[i].block = idxFile[i].block
                                        /\ idxFile'[i].invalid = idxFile[i].invalid
<1>1. /\ idxFile' \in Seq(IdxRec) /\ Len(idxFile') = Len(idxFile)
      /\ \A i \in DOMAIN idxFile : idxFile'[i].block = idxFile[i].block
  BY SetBlockFlagFacts
<1>2. ASSUME NEW i \in DOMAIN idxFile PROVE idxFile'[i].invalid = idxFile[i].invalid
  <2>1. CASE i # blockIndex[b].ipos + 1
    <3>1. idxFile'[i] = idxFile[i]
      BY <2>1, SetBlockFlagFacts, ZenonT(40)
    <3>2. QED
      BY <3>1
  <2>2. CASE i = blockIndex[b].ipos + 1
    <3>1. idxFile[i] \in IdxRec
      BY IdxElement
    <3>2. idxFile'[i] = [idxFile[i] EXCEPT !.trusted = TRUE]
      BY <2>2 DEF SetBlockFlag, TypeOK
    <3>3. QED
      BY <3>1, <3>2 DEF IdxRec
  <2>3. QED
    BY <2>1, <2>2
<1>3. QED
  BY <1>1, <1>2 DEF TypeOK

LEMMA TrustRefines ==
    ASSUME TypeOK, MemInv, FileInv, ViewUp, ViewUp', NEW b \in Block \ Bad,
           BlockAddTrusted(b) \/ BlockTrusted(b)
    PROVE  BS!Trust(b)
<1>1. mode = "up" /\ mode' = "up" /\ writer.pc = "idle" /\ writer' = writer /\ Known(b)
  BY DEF BlockAddTrusted, BlockTrusted, MainFree
<1>2. \/ blockIndex' = [blockIndex EXCEPT ![b].trusted = TRUE] /\ idxFile' = idxFile
      \/ SetBlockFlag(b, "trusted")
  BY DEF BlockAddTrusted, BlockTrusted
<1>3. blockIndex[b] \in OneBl
  BY <1>1 DEF Known, TypeOK
<1>4. /\ \A c \in Block \ {b} : blockIndex'[c] = blockIndex[c]
      /\ blockIndex'[b] = [blockIndex[b] EXCEPT !.trusted = TRUE]
  BY <1>2 DEF TypeOK, SetBlockFlag
<1>5. blockIndex'[b] \in OneBl /\ blockIndex'[b].ipos = blockIndex[b].ipos /\ blockIndex'[b].trusted = TRUE
  BY <1>3, <1>4 DEF OneBl
<1>6. \A c : EntryInvalid(c)' = EntryInvalid(c)
  <2>1. CASE idxFile' = idxFile
    BY <2>1 DEF EntryInvalid
  <2>2. CASE SetBlockFlag(b, "trusted")
    <3>1. "trusted" # "invalid"
      OBVIOUS
    <3>2. /\ DOMAIN idxFile' = DOMAIN idxFile
          /\ \A i \in DOMAIN idxFile : /\ idxFile'[i].block = idxFile[i].block
                                       /\ idxFile'[i].invalid = idxFile[i].invalid
      BY <1>1, <2>2, <3>1, TrustedKeepsInvalid, Zenon
    <3>3. QED
      BY <3>2 DEF EntryInvalid
  <2>3. QED
    BY <1>2, <2>1, <2>2
<1>7. \A c \in Block \ {b} : StoredAs(c)' = StoredAs(c)
  BY <1>1, <1>4, <1>6, SameEntry
<1>8. EntrySt(b)' = EntrySt(b) /\ EntryTrusted(b)' = TRUE /\ EntrySt(b) # "none"
  BY <1>1, <1>5, RecordsAreKnown DEF EntrySt, EntryTrusted, Known
<1>9. /\ StoredAs(b) = [st |-> EntrySt(b), trusted |-> EntryTrusted(b), invalid |-> EntryInvalid(b)]
      /\ StoredAs(b)' = [st |-> EntrySt(b)', trusted |-> EntryTrusted(b)', invalid |-> EntryInvalid(b)']
  BY <1>1 DEF ViewUp
<1>10. StoredAs(b)' = [StoredAs(b) EXCEPT !.trusted = TRUE] /\ StoredAs(b).st # "none"
  <2> SUFFICES ASSUME NEW e, e = StoredAs(b), NEW f, f = StoredAs(b)', NEW x, x = EntrySt(b),
                      NEW t, t = EntryTrusted(b), NEW v, v = EntryInvalid(b), NEW y, y = TRUE
               PROVE  f = [e EXCEPT !.trusted = y] /\ e.st # "none"
    BY Zenon
  <2>1. e = [st |-> x, trusted |-> t, invalid |-> v]
    BY <1>9, Zenon
  <2>2. f = [st |-> x, trusted |-> y, invalid |-> v]
    BY <1>6, <1>8, <1>9, Zenon
  <2>3. e \in [st : {x}, trusted : {t}, invalid : {v}] /\ e.st = x /\ e.trusted = t
    BY <2>1
  <2>4. f = [e EXCEPT !.trusted = y]
    <3>1. IsEntry(e, x, t, v) /\ IsEntry(f, x, y, v)
      BY <2>1, <2>2, Zenon DEF IsEntry
    <3>2. QED
      BY <3>1, EntryTrustedSet, Zenon
  <2>5. QED
    BY <1>8, <2>3, <2>4, Zenon
<1>11. [c \in Block |-> StoredAs(c)]' = [[c \in Block |-> StoredAs(c)] EXCEPT ![b].trusted = TRUE]
  BY <1>7, <1>10
<1>12. QED
  BY <1>1, <1>10, <1>11 DEF BS!Trust, BS!Has, BS!Trusted

LEMMA DropRefines ==
    ASSUME TypeOK, MemInv, FileInv, ViewUp, ViewUp', NEW b \in Block, BlockInvalidDrop(b)
    PROVE  BS!Invalid(b)
<1>1. /\ mode = "up" /\ mode' = "up" /\ writer' = writer /\ idxFile' = idxFile
      /\ Unwritten(b) /\ Known(b) /\ ~blockIndex[b].trusted
      /\ blockIndex' = [blockIndex EXCEPT ![b] = NoRec]
  BY DEF BlockInvalidDrop, MainFree, diskVars, Unwritten
<1>2. \A c \in Block : blockIndex'[c] = IF c = b THEN NoRec ELSE blockIndex[c]
  BY <1>1 DEF TypeOK
<1>3. \A c : EntryInvalid(c)' = EntryInvalid(c)
  BY <1>1 DEF EntryInvalid
<1>4. \A c \in Block \ {b} : StoredAs(c)' = StoredAs(c)
  BY <1>1, <1>2, <1>3, SameEntry
<1>5. StoredAs(b).st = "queued" /\ ~StoredAs(b).trusted
  <2>1. EntrySt(b) = "queued" /\ ~EntryTrusted(b)
    BY <1>1 DEF EntrySt, EntryTrusted, Unwritten
  <2>2. QED
    BY <1>1, <2>1 DEF ViewUp
<1>6. StoredAs(b)' = BS!Absent
  BY <1>1, <1>2 DEF ViewUp, Known
<1>7. [c \in Block |-> StoredAs(c)]' = [[c \in Block |-> StoredAs(c)] EXCEPT ![b] = BS!Absent]
  BY <1>4, <1>6
<1>8. QED
  BY <1>1, <1>5, <1>7 DEF BS!Invalid, BS!Has, BS!Invalidated

LEMMA FlagRefines ==
    ASSUME TypeOK, MemInv, FileInv, ViewUp, ViewUp', NEW b \in Block, BlockInvalidFlag(b)
    PROVE  BS!Invalid(b)
<1>1. /\ mode = "up" /\ mode' = "up" /\ writer' = writer /\ writer.pc = "idle"
      /\ Known(b) /\ ~Unwritten(b) /\ ~blockIndex[b].trusted /\ SetBlockFlag(b, "invalid")
  BY DEF BlockInvalidFlag, MainFree
<1>2. PICK s \in DOMAIN idxFile : idxFile[s].block = b
  BY <1>1 DEF FileInv, MapInv
<1>3. s = blockIndex[b].ipos + 1
  <2>1. blockIndex[b].ipos = s - 1 /\ s \in Nat
    BY <1>1, <1>2, IdxElement DEF FileInv, MapInv
  <2>2. QED
    BY <2>1
<1>4. /\ \A c \in Block \ {b} : blockIndex'[c] = blockIndex[c]
      /\ blockIndex'[b] = [blockIndex[b] EXCEPT !.trusted = TRUE]
      /\ idxFile' \in Seq(IdxRec) /\ Len(idxFile') = Len(idxFile)
      /\ \A i \in DOMAIN idxFile :
            /\ idxFile'[i].block = idxFile[i].block
            /\ i # s => idxFile'[i] = idxFile[i]
            /\ i = s => idxFile'[i].invalid
  BY <1>1, <1>3, SetBlockFlagFacts
<1>5. blockIndex[b] \in OneBl
  BY <1>1 DEF Known, TypeOK
<1>6. blockIndex'[b] \in OneBl /\ blockIndex'[b].ipos = blockIndex[b].ipos /\ blockIndex'[b].trusted = TRUE
  BY <1>4, <1>5 DEF OneBl
<1>7. DOMAIN idxFile' = DOMAIN idxFile
  BY <1>4 DEF TypeOK
<1>8. \A c \in Block \ {b} : EntryInvalid(c)' = EntryInvalid(c)
  BY <1>2, <1>4, <1>7 DEF EntryInvalid
<1>9. \A c \in Block \ {b} : StoredAs(c)' = StoredAs(c)
  BY <1>1, <1>4, <1>8, SameEntry
<1>10. EntryInvalid(b)' = TRUE
  <2>1. EntryInvalid(b)'
    BY <1>2, <1>4, <1>7 DEF EntryInvalid
  <2>2. QED
    BY <2>1 DEF EntryInvalid
<1>11. EntrySt(b)' = "disk" /\ EntrySt(b) = "disk" /\ EntryTrusted(b)' = TRUE /\ ~EntryTrusted(b)
  BY <1>1, <1>6, RecordsAreKnown DEF EntrySt, EntryTrusted, Known, Unwritten
<1>12. /\ StoredAs(b) = [st |-> EntrySt(b), trusted |-> EntryTrusted(b), invalid |-> EntryInvalid(b)]
       /\ StoredAs(b)' = [st |-> EntrySt(b)', trusted |-> EntryTrusted(b)', invalid |-> EntryInvalid(b)']
  BY <1>1 DEF ViewUp
<1>13. /\ StoredAs(b)' = [StoredAs(b) EXCEPT !.invalid = TRUE, !.trusted = TRUE]
       /\ StoredAs(b).st = "disk" /\ ~StoredAs(b).trusted
  <2> SUFFICES ASSUME NEW e, e = StoredAs(b), NEW f, f = StoredAs(b)', NEW x, x = EntrySt(b),
                      NEW t, t = EntryTrusted(b), NEW v, v = EntryInvalid(b), NEW y, y = TRUE
               PROVE  f = [e EXCEPT !.invalid = y, !.trusted = y] /\ e.st = "disk" /\ ~e.trusted
    BY Zenon
  <2>1. e = [st |-> x, trusted |-> t, invalid |-> v]
    BY <1>12, Zenon
  <2>2. f = [st |-> x, trusted |-> y, invalid |-> y]
    BY <1>10, <1>11, <1>12, Zenon
  <2>3. e \in [st : {x}, trusted : {t}, invalid : {v}] /\ e.st = x /\ e.trusted = t
    BY <2>1
  <2>4. f = [e EXCEPT !.invalid = y, !.trusted = y]
    <3>1. IsEntry(e, x, t, v) /\ IsEntry(f, x, y, y)
      BY <2>1, <2>2, Zenon DEF IsEntry
    <3>2. QED
      BY <3>1, EntryFlagsSet, Zenon
  <2>5. QED
    BY <1>11, <2>3, <2>4, Zenon
<1>14. [c \in Block |-> StoredAs(c)]' =
         [[c \in Block |-> StoredAs(c)] EXCEPT ![b] = [StoredAs(b) EXCEPT !.invalid = TRUE, !.trusted = TRUE]]
  BY <1>9, <1>13
<1>15. QED
  BY <1>1, <1>13, <1>14 DEF BS!Invalid, BS!Has, BS!Invalidated

LEMMA WriteRefines ==
    ASSUME TypeOK, MemInv, FileInv, ViewUp, ViewUp', WriteIndex, NEW b \in Block, b = writer.block
    PROVE  BS!Write(b)
<1> DEFINE rec == [block |-> b, dat |-> blockIndex[b].dat, fpos |-> blockIndex[b].fpos,
                   trusted |-> blockIndex[b].trusted, invalid |-> FALSE]
<1>1. /\ mode = "up" /\ mode' = "up" /\ writer.pc = "index" /\ blockIndex' = blockIndex
      /\ idxFile' = WriteAt(idxFile, maxidxfilepos, rec)
      /\ writer' = [pc |-> "take", block |-> NoData]
  BY DEF WriteIndex
<1>2. Known(b) /\ blockIndex[b].ipos # -1
  BY <1>1 DEF MemInv, WriterInv, Unwritten
<1>3. rec.block = b /\ rec.invalid = FALSE
  OBVIOUS
<1> HIDE DEF rec
<1>4. maxidxfilepos = Len(idxFile) /\ idxFile \in Seq(IdxRec) /\ Len(idxFile) \in Nat
  BY <1>1 DEF FileInv, PosInv, TypeOK
<1> DEFINE n == Len(idxFile)
<1> HIDE DEF n
<1>5. /\ DOMAIN idxFile' = 1..(n + 1) /\ idxFile'[n + 1] = rec
      /\ \A i \in 1..n : idxFile'[i] = idxFile[i]
  <2>1. n \in Nat /\ n = Len(idxFile) /\ idxFile' = WriteAt(idxFile, n, rec)
    BY <1>1, <1>4 DEF n
  <2>2. QED
    BY <1>4, <2>1, WriteAtEnd
<1>6. \A i \in DOMAIN idxFile' :
         \/ i \in DOMAIN idxFile /\ idxFile'[i] = idxFile[i]
         \/ idxFile'[i] = rec
  BY <1>4, <1>5 DEF n
<1>7. \A i \in DOMAIN idxFile : i \in DOMAIN idxFile' /\ idxFile'[i] = idxFile[i]
  BY <1>4, <1>5 DEF n
<1>8. \A c : EntryInvalid(c)' = EntryInvalid(c)
  BY <1>3, <1>6, <1>7 DEF EntryInvalid
<1>9. \A c \in Block \ {b} : StoredAs(c)' = StoredAs(c)
  BY <1>1, <1>8, SameEntry
<1>10. EntrySt(b) = "queued" /\ EntrySt(b)' = "disk" /\ EntryTrusted(b)' = EntryTrusted(b)
  BY <1>1, <1>2 DEF EntrySt, EntryTrusted, Known
<1>11. /\ StoredAs(b) = [st |-> EntrySt(b), trusted |-> EntryTrusted(b), invalid |-> EntryInvalid(b)]
       /\ StoredAs(b)' = [st |-> EntrySt(b)', trusted |-> EntryTrusted(b)', invalid |-> EntryInvalid(b)']
  BY <1>1, <1>2 DEF ViewUp
<1>12. StoredAs(b)' = [StoredAs(b) EXCEPT !.st = "disk"] /\ StoredAs(b).st = "queued"
  <2> SUFFICES ASSUME NEW e, e = StoredAs(b), NEW f, f = StoredAs(b)', NEW x, x = EntrySt(b),
                      NEW t, t = EntryTrusted(b), NEW v, v = EntryInvalid(b)
               PROVE  f = [e EXCEPT !.st = "disk"] /\ e.st = "queued"
    BY Zenon
  <2>1. e = [st |-> x, trusted |-> t, invalid |-> v]
    BY <1>11, Zenon
  <2>2. f = [st |-> "disk", trusted |-> t, invalid |-> v]
    BY <1>8, <1>10, <1>11, Zenon
  <2>3. e \in [st : {x}, trusted : {t}, invalid : {v}] /\ e.st = x /\ e.trusted = t
    BY <2>1
  <2>4. f = [e EXCEPT !.st = "disk"]
    BY <2>2, <2>3
  <2>5. QED
    BY <1>10, <2>3, <2>4, Zenon
<1>13. [c \in Block |-> StoredAs(c)]' = [[c \in Block |-> StoredAs(c)] EXCEPT ![b].st = "disk"]
  BY <1>9, <1>12
<1>14. QED
  BY <1>1, <1>2, <1>12, <1>13 DEF BS!Write, BS!Written

LEMMA StoreInitRefines == Init => BS!StoreInit
<1> SUFFICES ASSUME Init PROVE BS!StoreInit
  OBVIOUS
<1>1. TypeOK /\ MemInv /\ FileInv /\ mode = "down" /\ idxFile = <<>>
  BY TypeInit, FileInit DEF Init
<1>2. \A b \in Block : StoredAs(b) = BS!Absent
  BY <1>1, ViewHolds DEF ViewDown, ValidSlots
<1>3. QED
  BY <1>1, <1>2 DEF BS!StoreInit

LEMMA StoreStepRefines ==
    ASSUME NoSkew, TypeOK, MemInv, FileInv, TypeOK', MemInv', FileInv', [Next]_vars
    PROVE  [BS!StoreNext]_<<mode = "up", [b \in Block |-> StoredAs(b)]>>
<1>v. ViewUp /\ ViewDown /\ ViewUp' /\ ViewDown'
  BY ViewHolds, ViewHoldsNext
<1>1. CASE LoadBlockIndex
  BY <1>v, <1>1, LoadRefines DEF BS!StoreNext
<1>2. CASE Crash \/ Close
  BY <1>v, <1>2, StopRefines DEF BS!StoreNext, Crash, Close
<1>3. CASE MainNext
  <2>1. ASSUME NEW b \in Block, NEW t \in {FALSE, b \notin Bad}, BlockAddNew(b, t)
        PROVE  BS!StoreNext
    <3>1. t \in BOOLEAN
      OBVIOUS
    <3>2. BS!Add(b, t)
      BY <1>v, <2>1, <3>1, AddRefines
    <3>3. QED
      BY <3>2 DEF BS!StoreNext
  <2>2. ASSUME NEW b \in Block \ Bad, BlockAddTrusted(b) \/ BlockTrusted(b)
        PROVE  BS!StoreNext
    BY <1>v, <2>2, TrustRefines DEF BS!StoreNext
  <2>3. ASSUME NEW b \in Bad, BlockInvalidDrop(b) \/ BlockInvalidFlag(b)
        PROVE  BS!StoreNext
    BY <1>v, <2>3, DropRefines, FlagRefines, BlockDBAssumption DEF BS!StoreNext
  <2>4. CASE Idle
    <3>1. mode = "up"
      BY <2>4 DEF Idle, MainFree
    <3>2. QED
      BY <1>v, <2>4, <3>1, StutterRefines
  <2>5. QED
    BY <1>3, <2>1, <2>2, <2>3, <2>4 DEF MainNext
<1>4. CASE WriterNext
  <2>1. CASE WriteIndex
    <3>1. writer.block \in Block
      BY <2>1 DEF WriteIndex, MemInv, WriterInv
    <3>2. \E b \in Block : BS!Write(b)
      BY <1>v, <2>1, <3>1, WriteRefines
    <3>3. QED
      BY <3>2 DEF BS!StoreNext
  <2>2. CASE WriteTake \/ WriteDone \/ WriteData
    <3>1. mode = "up"
      BY <2>2 DEF WriteTake, WriteDone, WriteData
    <3>2. QED
      BY <1>v, <2>2, <3>1, StutterRefines
  <2>3. QED
    BY <1>4, <2>1, <2>2 DEF WriterNext
<1>5. CASE \E d \in DatIdx : RemoveDatFile(d)
  <2>1. mode = "up"
    BY <1>5 DEF RemoveDatFile
  <2>2. QED
    BY <1>v, <1>5, <2>1, StutterRefines
<1>6. CASE \E r \in Reader : ReaderNext(r)
  <2>1. mode = "up"
    BY <1>6 DEF ReaderNext, GetLookup, GetRead, GetStore, GetReturn
  <2>2. QED
    BY <1>v, <1>6, <2>1, StutterRefines
<1>7. CASE UNCHANGED vars
  <2>1. \A b : StoredAs(b)' = StoredAs(b)
    BY <1>7 DEF StoredAs, ValidSlots, vars, memVars, diskVars
  <2>2. QED
    BY <1>7, <2>1 DEF vars
<1>8. QED
  BY <1>1, <1>2, <1>3, <1>4, <1>5, <1>6, <1>7 DEF Next

\* The index, the queue, the cache and the files of blockdb.go implement the
\* store that lib/chain relies on.
THEOREM BlockDBImplementsStore == ASSUME NoSkew PROVE Spec => ImplementsBlockStore
<1>1. TypeOK /\ MemInv /\ FileInv /\ (TypeOK /\ MemInv /\ FileInv)' /\ [Next]_vars
        => [BS!StoreNext]_<<mode = "up", [b \in Block |-> StoredAs(b)]>>
  BY StoreStepRefines
<1>2. QED
  BY <1>1, FileHolds, StoreInitRefines, PTL DEF Spec, ImplementsBlockStore, BS!StoreSpec
=============================================================================
