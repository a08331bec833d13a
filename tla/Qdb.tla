-------------------------------- MODULE Qdb --------------------------------
(***************************************************************************)
(* The key-value store lib/others/qdb, in which the node keeps its peers:  *)
(* an index in memory; on disk two index files that are used in turn, a    *)
(* log of the changes since the newer one, and numbered data files.        *)
(*                                                                         *)
(* db.Mutex is held for a whole operation, so the operations do not        *)
(* interleave; the process may be killed between any two writes of one.    *)
(* The flags NO_CACHE and NO_BROWSE and the volatile mode, which the node  *)
(* does not use, are left out: all data stays in memory.                   *)
(***************************************************************************)
EXTENDS Naturals, FiniteSets, SequencesExt

CONSTANTS
    Key, Val,
    MaxPending, MaxPendingNoSync,   \* options of the database
    Fresh,          \* TRUE: starts with an empty folder, and not an empty database
    MaxChanges, MaxVersion, MaxCrash,   \* bounds: Puts and Dels, index files, crashes
    None, Missing   \* Missing: what a place in a lost file has for a value

VARIABLES
    Index,          \* Idx.Index: key -> record or None
    PendingRecords, NoSyncMode,
    DataSeq,        \* number of the data file that is written
    LogFile,        \* TRUE: that file is open
    VersionSequence, DatfileIndex,  \* version and number of the newer index file
    logOpen,        \* Idx.file # nil
    buf,            \* bidx of sync: key and record (None: deleted), in order
    pc,             \* what the holder of Mutex does next
    after,          \* where pc goes in the end: "idle", or "close" in Close
    dat,            \* data files: number -> values, or None
    idxFile,        \* index files 0 and 1, or None
    log,            \* the log: version in its header (None: not written) and entries, or None
    changes, crashes

memVars == <<Index, PendingRecords, NoSyncMode, DataSeq, LogFile, VersionSequence, DatfileIndex,
             logOpen, buf>>
diskVars == <<dat, idxFile, log>>
vars == <<memVars, pc, after, diskVars, changes, crashes>>

Number == 0..(2 * MaxVersion + MaxCrash + MaxChanges + 1)

\* A record: the value, where it is stored (0, 0: not yet).  In files: where.
Place == [seq : Number, pos : Nat]
Rec == [val : Val, at : Place]
Nowhere == [seq |-> 0, pos |-> 0]

Entry == [key : Key, at : Place \cup {None}]

\* An index file, whole once it has its end marker, and the log.
IdxRec == [whole : BOOLEAN, version : 1..MaxVersion, places : [Key -> Place \cup {None}]]
LogRec == [version : (0..MaxVersion) \cup {None}, entries : Seq(Entry)]

ASSUME QdbAssumption ==
    /\ {MaxPending, MaxPendingNoSync, MaxChanges, MaxVersion, MaxCrash} \subseteq Nat
    /\ Fresh \in BOOLEAN /\ (Fresh \/ MaxVersion > 0)
    /\ IsFiniteSet(Key)
    /\ {None, Missing} \cap Val = {} /\ None # Missing
    /\ None \notin Nat \cup Seq(Val) \cup Place \cup Rec \cup IdxRec \cup LogRec

NoIndex == [k \in Key |-> None]

\* The database in memory and its files; writedatfile uses the index files 0 and
\* 1 in turn and no other.
TypeOK ==
    /\ Index \in [Key -> Rec \cup {None}]
    /\ PendingRecords \subseteq Key /\ {NoSyncMode, LogFile, logOpen} \subseteq BOOLEAN
    /\ DataSeq \in Number /\ VersionSequence \in 0..MaxVersion /\ DatfileIndex \in 0..1
    /\ buf \in Seq(Entry)
    /\ pc \in {"idle", "sync", "rec", "header", "append", "defrag", "create", "index", "rmlog",
               "rmidx", "clean", "close", "down", "open", "load"}
    /\ after \in {"idle", "close"}
    /\ dat \in [Number -> Seq(Val) \cup {None}]
    /\ idxFile \in [0..1 -> IdxRec \cup {None}]
    /\ log \in LogRec \cup {None}

-----------------------------------------------------------------------------
(* What a start makes of the files *)

\* read_and_check_file: the file is there and has its end marker.
Valid(i) == idxFile[i] # None /\ idxFile[i].whole

\* loadneweridx: the index file that is used, or None.
NewerIdx ==
    IF ~Valid(0) /\ ~Valid(1) THEN None
    ELSE IF Valid(0) /\ (~Valid(1) \/ idxFile[0].version >= idxFile[1].version) THEN 0 ELSE 1

NewerVersion == IF NewerIdx = None THEN 0 ELSE idxFile[NewerIdx].version
NewerPlaces == IF NewerIdx = None THEN NoIndex ELSE idxFile[NewerIdx].places

\* Mutant of LogIsFor: the version is not compared.
LogIsForAny(version) == log # None

\* loadlog: the log is one for the index file of this version.  A header that
\* was not written reads as zero, and an entry in its place as something else.
LogIsFor(version) ==
    /\ log # None
    /\ log.version = version \/ (log.version = None /\ log.entries = <<>> /\ version = 0)

\* The entries es for the key k.
EntriesOf(k, es) == {i \in DOMAIN es : es[i].key = k}

\* Places after the entries es: the last one for a key counts.
Applied(places, es) ==
    [k \in Key |-> IF EntriesOf(k, es) = {} THEN places[k] ELSE es[Max(EntriesOf(k, es))].at]

DiskPlaces ==
    IF LogIsFor(NewerVersion) THEN Applied(NewerPlaces, log.entries) ELSE NewerPlaces

\* The value at a place; Index.load stops the process if there is none.
ValueAt(p) ==
    IF dat[p.seq] # None /\ p.pos \in DOMAIN dat[p.seq] THEN dat[p.seq][p.pos] ELSE Missing

\* The map that a start would load, and the one in memory.
Durable == [k \in Key |-> IF DiskPlaces[k] = None THEN None ELSE ValueAt(DiskPlaces[k])]
Mem == [k \in Key |-> IF Index[k] = None THEN None ELSE Index[k].val]

Init ==
    /\ Index = NoIndex /\ PendingRecords = {} /\ NoSyncMode = FALSE
    /\ DataSeq = 0 /\ LogFile = FALSE
    /\ VersionSequence = 0 /\ DatfileIndex = 0 /\ logOpen = FALSE /\ buf = <<>>
    /\ pc = "down" /\ after = "idle"
    /\ dat = [n \in Number |-> None]
    /\ idxFile = [i \in 0..1 |-> IF i = 0 \/ Fresh THEN None
                                 ELSE [whole |-> TRUE, version |-> 1, places |-> NoIndex]]
    /\ log = None
    /\ changes = 0 /\ crashes = 0

-----------------------------------------------------------------------------
(* NewDBExt *)

\* loaddat: the newer index file is loaded, the other one removed.
LoadDat ==
    /\ pc = "down"
    /\ DatfileIndex' = IF NewerIdx = None THEN 0 ELSE NewerIdx
    /\ VersionSequence' = NewerVersion
    /\ idxFile' = IF NewerIdx = None THEN idxFile ELSE [idxFile EXCEPT ![1 - NewerIdx] = None]
    /\ pc' = "open" /\ after' = "idle"
    /\ UNCHANGED <<Index, PendingRecords, NoSyncMode, DataSeq, LogFile, logOpen, buf, dat, log,
                   changes, crashes>>

\* loadlog: the log is read to its end and stays open, or is removed.
LoadLog ==
    /\ pc = "open"
    /\ logOpen' = LogIsFor(VersionSequence)
    /\ log' = IF LogIsFor(VersionSequence) THEN log ELSE None
    /\ pc' = "load"
    /\ UNCHANGED <<Index, PendingRecords, NoSyncMode, DataSeq, LogFile, VersionSequence, DatfileIndex,
                   buf, after, dat, idxFile, changes, crashes>>

\* The data files that were named by what was loaded.
Used ==
    {NewerPlaces[k].seq : k \in {x \in Key : NewerPlaces[x] # None}}
      \cup IF log = None THEN {}
           ELSE {log.entries[i].at.seq : i \in {j \in DOMAIN log.entries : log.entries[j].at # None}}

NextSeq == 1 + Max(Used \cup {0})

\* cleanupold, and load of the data.
CleanAndLoad ==
    /\ pc = "load"
    /\ dat' = [n \in Number |-> IF n \in Used THEN dat[n] ELSE None]
    /\ Index' = [k \in Key |-> IF DiskPlaces[k] = None THEN None
                               ELSE [val |-> ValueAt(DiskPlaces[k]), at |-> DiskPlaces[k]]]
    /\ DataSeq' = NextSeq
    /\ pc' = "idle"
    /\ UNCHANGED <<PendingRecords, NoSyncMode, LogFile, VersionSequence, DatfileIndex, logOpen, buf,
                   after, idxFile, log, changes, crashes>>

-----------------------------------------------------------------------------
(* The operations, each with Mutex locked; sync and defrag go on from pc *)

SyncNeeded(pending) ==
    \/ Cardinality(pending) > MaxPendingNoSync
    \/ ~NoSyncMode /\ Cardinality(pending) > MaxPending

\* Mutant of Change: what is deleted need not be written.
ChangeKeptOnly(k, v) ==
    /\ pc = "idle" /\ changes < MaxChanges
    /\ Index' = [Index EXCEPT ![k] = IF v = None THEN None ELSE [val |-> v, at |-> Nowhere]]
    /\ PendingRecords' = IF v = None THEN PendingRecords \ {k} ELSE PendingRecords \cup {k}
    /\ pc' = IF SyncNeeded(PendingRecords') THEN "sync" ELSE "idle"
    /\ changes' = changes + 1
    /\ UNCHANGED <<NoSyncMode, DataSeq, LogFile, VersionSequence, DatfileIndex, logOpen, buf, after,
                   diskVars, crashes>>

\* Put or Del (v is None).
Change(k, v) ==
    /\ pc = "idle" /\ changes < MaxChanges
    /\ Index' = [Index EXCEPT ![k] = IF v = None THEN None ELSE [val |-> v, at |-> Nowhere]]
    /\ PendingRecords' = PendingRecords \cup {k}
    /\ pc' = IF SyncNeeded(PendingRecords') THEN "sync" ELSE "idle"
    /\ changes' = changes + 1
    /\ UNCHANGED <<NoSyncMode, DataSeq, LogFile, VersionSequence, DatfileIndex, logOpen, buf, after,
                   diskVars, crashes>>

NoSync ==
    /\ pc = "idle" /\ ~NoSyncMode
    /\ NoSyncMode' = TRUE
    /\ UNCHANGED <<Index, PendingRecords, DataSeq, LogFile, VersionSequence, DatfileIndex, logOpen,
                   buf, pc, after, diskVars, changes, crashes>>

Sync ==
    /\ pc = "idle"
    /\ NoSyncMode' = FALSE
    /\ pc' = IF PendingRecords = {} THEN "idle" ELSE "sync"
    /\ UNCHANGED <<Index, PendingRecords, DataSeq, LogFile, VersionSequence, DatfileIndex, logOpen,
                   buf, after, diskVars, changes, crashes>>

\* Defrag, when it is forced or there is enough waste.
Defrag ==
    /\ pc = "idle" /\ VersionSequence < MaxVersion
    /\ pc' = "defrag"
    /\ UNCHANGED <<memVars, after, diskVars, changes, crashes>>

Close ==
    /\ pc = "idle"
    /\ after' = "close"
    /\ pc' = IF PendingRecords = {} THEN "close" ELSE "sync"
    /\ UNCHANGED <<memVars, diskVars, changes, crashes>>

\* The memory is gone.
Down ==
    /\ Index' = NoIndex /\ PendingRecords' = {} /\ NoSyncMode' = FALSE
    /\ DataSeq' = 0 /\ LogFile' = FALSE
    /\ VersionSequence' = 0 /\ DatfileIndex' = 0 /\ logOpen' = FALSE /\ buf' = <<>>
    /\ pc' = "down" /\ after' = "idle"
    /\ UNCHANGED <<diskVars, changes>>

Closed == pc = "close" /\ Down /\ UNCHANGED crashes

Crash == pc # "down" /\ crashes < MaxCrash /\ Down /\ crashes' = crashes + 1

-----------------------------------------------------------------------------
(* sync *)

\* checklogfile: the data file is created if this is the first sync.
SyncOpen ==
    /\ pc = "sync"
    /\ dat' = IF LogFile THEN dat ELSE [dat EXCEPT ![DataSeq] = <<>>]
    /\ LogFile' = TRUE
    /\ pc' = "rec"
    /\ UNCHANGED <<Index, PendingRecords, NoSyncMode, DataSeq, VersionSequence, DatfileIndex, logOpen,
                   buf, after, idxFile, log, changes, crashes>>

InBuf == {buf[i].key : i \in DOMAIN buf}

\* A pending record, in the order of the map: its value goes to the data file.
SyncRec(k) ==
    /\ pc = "rec" /\ k \in PendingRecords \ InBuf
    /\ LET at == [seq |-> DataSeq, pos |-> Len(dat[DataSeq]) + 1]
       IN  IF Index[k] = None
           THEN /\ buf' = Append(buf, [key |-> k, at |-> None])
                /\ UNCHANGED <<Index, dat>>
           ELSE /\ buf' = Append(buf, [key |-> k, at |-> at])
                /\ dat' = [dat EXCEPT ![DataSeq] = Append(dat[DataSeq], Index[k].val)]
                /\ Index' = [Index EXCEPT ![k].at = at]
    /\ UNCHANGED <<PendingRecords, NoSyncMode, DataSeq, LogFile, VersionSequence, DatfileIndex,
                   logOpen, pc, after, idxFile, log, changes, crashes>>

\* checklogfile of the index: the log is created, and then gets its header.
LogCreate ==
    /\ pc = "rec" /\ InBuf = PendingRecords
    /\ log' = IF logOpen THEN log ELSE [version |-> None, entries |-> <<>>]
    /\ pc' = IF logOpen THEN "append" ELSE "header"
    /\ UNCHANGED <<memVars, after, dat, idxFile, changes, crashes>>

LogHeader ==
    /\ pc = "header"
    /\ log' = [log EXCEPT !.version = VersionSequence]
    /\ logOpen' = TRUE
    /\ pc' = "append"
    /\ UNCHANGED <<Index, PendingRecords, NoSyncMode, DataSeq, LogFile, VersionSequence, DatfileIndex,
                   buf, after, dat, idxFile, changes, crashes>>

\* writebuf: all entries in one write; then there may be too much waste.
LogAppend ==
    /\ pc = "append"
    /\ log' = [log EXCEPT !.entries = log.entries \o buf]
    /\ PendingRecords' = {} /\ buf' = <<>>
    /\ pc' \in {after} \cup IF VersionSequence < MaxVersion THEN {"defrag"} ELSE {}
    /\ UNCHANGED <<Index, NoSyncMode, DataSeq, LogFile, VersionSequence, DatfileIndex, logOpen, after,
                   dat, idxFile, changes, crashes>>

-----------------------------------------------------------------------------
(* defrag *)

Records == {k \in Key : Index[k] # None}

\* All records, in the order of the map, go to a new data file, which is flushed.
DefragData ==
    /\ pc = "defrag"
    /\ \E ks \in Bijection(1..Cardinality(Records), Records) :
       LET At(k) == [seq |-> DataSeq + 1, pos |-> CHOOSE i \in DOMAIN ks : ks[i] = k]
       IN  /\ dat' = [dat EXCEPT ![DataSeq + 1] = [i \in DOMAIN ks |-> Index[ks[i]].val]]
           /\ Index' = [k \in Key |-> IF Index[k] = None THEN None
                                      ELSE [val |-> Index[k].val, at |-> At(k)]]
    /\ DataSeq' = DataSeq + 1 /\ LogFile' = TRUE
    /\ pc' = "create"
    /\ UNCHANGED <<PendingRecords, NoSyncMode, VersionSequence, DatfileIndex, logOpen, buf, after,
                   idxFile, log, changes, crashes>>

Places == [k \in Key |-> IF Index[k] = None THEN None ELSE Index[k].at]

OtherIdx == 1 - DatfileIndex

\* writedatfile: the other index file is created with the next version, ...
IdxCreate ==
    /\ pc = "create"
    /\ DatfileIndex' = OtherIdx
    /\ VersionSequence' = VersionSequence + 1
    /\ idxFile' = [idxFile EXCEPT ![DatfileIndex'] =
                      [whole |-> FALSE, version |-> VersionSequence', places |-> NoIndex]]
    /\ pc' = "index"
    /\ UNCHANGED <<Index, PendingRecords, NoSyncMode, DataSeq, LogFile, logOpen, buf, after, dat, log,
                   changes, crashes>>

\* ... gets all places and the end marker, ...
IdxWrite ==
    /\ pc = "index"
    /\ idxFile' = [idxFile EXCEPT ![DatfileIndex] =
                      [whole |-> TRUE, version |-> VersionSequence, places |-> Places]]
    /\ pc' = "rmlog"
    /\ UNCHANGED <<memVars, after, dat, log, changes, crashes>>

\* ... then the log is closed and removed, ...
RemoveLog ==
    /\ pc = "rmlog"
    /\ logOpen' = FALSE /\ log' = None
    /\ pc' = "rmidx"
    /\ UNCHANGED <<Index, PendingRecords, NoSyncMode, DataSeq, LogFile, VersionSequence, DatfileIndex,
                   buf, after, dat, idxFile, changes, crashes>>

\* ... and the old index file.
RemoveIdx ==
    /\ pc = "rmidx"
    /\ idxFile' = [idxFile EXCEPT ![OtherIdx] = None]
    /\ pc' = "clean"
    /\ UNCHANGED <<memVars, after, dat, log, changes, crashes>>

\* cleanupold: the data files that are not used any more are removed.
CleanupOld ==
    /\ pc = "clean"
    /\ dat' = [n \in Number |-> IF n = DataSeq THEN dat[n] ELSE None]
    /\ pc' = after
    /\ UNCHANGED <<memVars, after, idxFile, log, changes, crashes>>

-----------------------------------------------------------------------------

Next ==
    \/ LoadDat \/ LoadLog \/ CleanAndLoad
    \/ \E k \in Key : SyncRec(k) \/ \E v \in Val \cup {None} : Change(k, v)
    \/ NoSync \/ Sync \/ Defrag \/ Close \/ Closed \/ Crash
    \/ SyncOpen \/ LogCreate \/ LogHeader \/ LogAppend
    \/ DefragData \/ IdxCreate \/ IdxWrite \/ RemoveLog \/ RemoveIdx \/ CleanupOld

Spec == Init /\ [][Next]_vars

-----------------------------------------------------------------------------
(* Properties *)

\* sync and defrag, killed between any two writes, and the next start: what
\* is on disk changes from one saved map to a later one in one step, and is
\* never a mixture, a map with lost data, or one that was saved before.
Store == INSTANCE QdbStore WITH
    durable <- Durable,
    mem <- IF pc \in {"down", "open", "load"} THEN Durable ELSE Mem
ImplementsQdbStore == Store!Spec

\* PendingRecords: whatever differs between memory and disk will be written
\* by the next sync, so that Close ("Writes all the pending changes to disk")
\* loses nothing.
UnsavedIsPending ==
    /\ pc \in {"idle", "close"} => \A k \in Key : Durable[k] # Mem[k] => k \in PendingRecords
    /\ pc = "close" => PendingRecords = {}

=============================================================================
