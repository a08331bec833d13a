------------------------------ MODULE QdbProofs ------------------------------
(***************************************************************************)
(* Proofs about Qdb: what is on disk is always one saved map, whole and     *)
(* with its data, wherever the process is killed.                          *)
(***************************************************************************)
EXTENDS Qdb, NatFacts, FiniteSetTheorems, TLAPS

\* A database that was defragmented once, or a process that is not killed: a log
\* without a header is then never taken for one (README, section 6).
HasIndex == ~Fresh \/ MaxCrash = 0

Starting == {"down", "open", "load"}
Syncing == {"rec", "header", "append"}
Defragmented == {"rmlog", "rmidx", "clean"}

\* The places that the index file and its log name.
Named == ({NewerPlaces[k] : k \in Key}
            \cup (IF LogIsFor(NewerVersion) THEN {log.entries[i].at : i \in DOMAIN log.entries} ELSE {}))
         \ {None}

InFile(p) == dat[p.seq] # None /\ p.pos \in DOMAIN dat[p.seq]

\* What a start loads is in the data files, and these are numbered by versions
\* and changes.
DataInv ==
    \A p \in Named : InFile(p) /\ p.seq <= 2 * NewerVersion + changes

\* The index file that is in use, the one that is written, and their versions.
VersionInv ==
    /\ ~Fresh => NewerVersion > 0
    /\ pc = "index" =>
          /\ VersionSequence = NewerVersion + 1 /\ ~Valid(DatfileIndex)
    /\ pc \notin {"down", "index"} =>
          /\ VersionSequence = NewerVersion
          /\ NewerIdx # None => DatfileIndex = NewerIdx
    /\ pc \notin {"down", "index", "rmlog", "rmidx"} => ~Valid(OtherIdx)
    /\ pc \in {"defrag", "create"} => VersionSequence < MaxVersion
    /\ pc \in Defragmented => NewerIdx # None

\* The log is one for the index file in use, or an older one.
LogInv ==
    /\ log # None => IF log.version = None
                     THEN log.entries = <<>> /\ (pc = "header" \/ NewerVersion > 0)
                     ELSE log.version <= NewerVersion
    /\ pc \in {"down", "open", "header"} => ~logOpen
    /\ pc \notin {"down", "open"} \cup Defragmented =>
          IF logOpen THEN log # None /\ log.version = NewerVersion
          ELSE log = None \/ pc = "header"
    /\ pc = "header" => log # None /\ log.version = None
    /\ pc = "append" => logOpen
    /\ pc = "rmlog" /\ log # None => log.version # None /\ log.version < NewerVersion
    /\ pc \in {"rmidx", "clean"} => log = None /\ ~logOpen

\* The data file that is written is not one that the disk names before its time.
SeqInv ==
    /\ pc \in Starting => ~LogFile
    /\ pc \notin Starting =>
          /\ LogFile => dat[DataSeq] # None
          /\ \A p \in Named : p.seq <= DataSeq /\ (~LogFile \/ pc \in {"create", "index"} => p.seq < DataSeq)
          /\ DataSeq <= 2 * VersionSequence + changes + (IF pc = "create" THEN 2 ELSE 1)
          /\ (PendingRecords # {} \/ LogFile) /\ pc # "create" => DataSeq <= 2 * VersionSequence + changes
    /\ pc \in Syncing \cup Defragmented \cup {"create", "index"} => LogFile
    /\ pc \in Defragmented => \A p \in Named : p.seq = DataSeq

Written(k) ==
    Index[k] # None =>
        /\ Index[k].at.seq = DataSeq /\ InFile(Index[k].at)
        /\ dat[DataSeq][Index[k].at.pos] = Index[k].val

\* sync: bidx has what was written for the pending records.
BufInv ==
    /\ pc \notin Syncing => buf = <<>>
    /\ InBuf \subseteq PendingRecords
    /\ \A i, j \in DOMAIN buf : buf[i].key = buf[j].key => i = j
    /\ pc \in {"header", "append"} => InBuf = PendingRecords
    /\ \A i \in DOMAIN buf :
          /\ Written(buf[i].key)
          /\ buf[i].at = IF Index[buf[i].key] = None THEN None ELSE Index[buf[i].key].at
    /\ pc \in {"create", "index"} => \A k \in Key : Written(k)

\* Memory and disk differ in pending records only.
PendInv ==
    /\ pc \in Starting => PendingRecords = {}
    /\ pc \in {"sync"} \cup Syncing => PendingRecords # {}
    /\ pc \in Starting \cup {"idle"} => after = "idle"
    /\ pc = "close" => after = "close"
    /\ after = "close" => pc \in {"sync"} \cup Syncing \/ PendingRecords = {}
    /\ pc \notin Starting => \A k \in Key \ PendingRecords : Mem[k] = Durable[k]

TypeInv == TypeOK /\ changes \in 0..MaxChanges /\ crashes \in Nat

Inv == TypeInv /\ DataInv /\ VersionInv /\ LogInv /\ SeqInv /\ BufInv /\ PendInv

-----------------------------------------------------------------------------
(* The last entry of the log for a key *)

LEMMA LastEntry ==
    ASSUME NEW es \in Seq(Entry), NEW k \in Key, EntriesOf(k, es) # {}
    PROVE  /\ Max(EntriesOf(k, es)) \in EntriesOf(k, es)
           /\ \A i \in EntriesOf(k, es) : i <= Max(EntriesOf(k, es))
<1> DEFINE T == EntriesOf(k, es)
<1>1. T \in SUBSET Nat /\ T # {} /\ Len(es) \in Nat /\ \A i \in T : i <= Len(es)
  BY DEF EntriesOf
<1> HIDE DEF T
<1>2. \E x \in T : \A y \in T : y <= x
  BY <1>1, GreatestNat
<1>3. \E x \in T : \A y \in T : x >= y
  BY <1>1, <1>2
<1>4. Max(T) \in T /\ \A y \in T : Max(T) >= y
  BY <1>3 DEF Max
<1>5. Max(T) \in T /\ \A y \in T : y <= Max(T)
  BY <1>1, <1>4
<1>6. QED
  BY <1>5 DEF T

\* An entry that no other one for its key follows is the last.
LEMMA LastIs ==
    ASSUME NEW es \in Seq(Entry), NEW k \in Key, NEW j \in EntriesOf(k, es),
           \A i \in EntriesOf(k, es) : i <= j
    PROVE  Max(EntriesOf(k, es)) = j
<1>1. /\ Max(EntriesOf(k, es)) \in EntriesOf(k, es)
      /\ \A i \in EntriesOf(k, es) : i <= Max(EntriesOf(k, es))
  BY LastEntry
<1>2. EntriesOf(k, es) \subseteq Nat
  BY DEF EntriesOf
<1> DEFINE m == Max(EntriesOf(k, es))
<1>3. m \in Nat /\ j \in Nat /\ m <= j /\ j <= m
  BY <1>1, <1>2
<1> HIDE DEF m
<1>4. m = j
  BY <1>3
<1>5. QED
  BY <1>4 DEF m

LEMMA AppliedType ==
    ASSUME NEW es \in Seq(Entry), NEW places \in [Key -> Place \cup {None}]
    PROVE  /\ Applied(places, es) \in [Key -> Place \cup {None}]
           /\ \A k \in Key : \/ Applied(places, es)[k] = places[k]
                             \/ \E i \in DOMAIN es : Applied(places, es)[k] = es[i].at
<1>1. ASSUME NEW k \in Key
      PROVE  /\ Applied(places, es)[k] \in Place \cup {None}
             /\ \/ Applied(places, es)[k] = places[k]
                \/ \E i \in DOMAIN es : Applied(places, es)[k] = es[i].at
  <2>1. CASE EntriesOf(k, es) = {}
    BY <2>1 DEF Applied
  <2>2. CASE EntriesOf(k, es) # {}
    <3> DEFINE m == Max(EntriesOf(k, es))
    <3>1. m \in DOMAIN es
      BY <2>2, LastEntry DEF EntriesOf
    <3>2. Applied(places, es)[k] = es[m].at
      BY <2>2 DEF Applied
    <3> HIDE DEF m
    <3>3. es[m] \in Entry
      BY <3>1
    <3>4. QED
      BY <3>1, <3>2, <3>3 DEF Entry
  <2>3. QED
    BY <2>1, <2>2
<1>2. DOMAIN Applied(places, es) = Key
  BY DEF Applied
<1>3. Applied(places, es) = [k \in Key |-> Applied(places, es)[k]]
  BY DEF Applied
<1>4. QED
  BY <1>1, <1>3

LEMMA AppliedNothing ==
    ASSUME NEW places \in [Key -> Place \cup {None}]
    PROVE  Applied(places, <<>>) = places
<1>1. \A k \in Key : EntriesOf(k, <<>>) = {}
  BY DEF EntriesOf
<1>2. QED
  BY <1>1 DEF Applied

\* writebuf: the entries of one sync count for their keys.
LEMMA AppliedMore ==
    ASSUME NEW es \in Seq(Entry), NEW new \in Seq(Entry),
           \A i, j \in DOMAIN new : new[i].key = new[j].key => i = j,
           NEW places \in [Key -> Place \cup {None}]
    PROVE  /\ \A i \in DOMAIN new : Applied(places, es \o new)[new[i].key] = new[i].at
           /\ \A k \in Key : (\A i \in DOMAIN new : new[i].key # k) =>
                                Applied(places, es \o new)[k] = Applied(places, es)[k]
<1> DEFINE all == es \o new
<1>1. /\ all \in Seq(Entry) /\ Len(es) \in Nat /\ Len(new) \in Nat /\ Len(all) = Len(es) + Len(new)
      /\ DOMAIN all = 1..(Len(es) + Len(new)) /\ DOMAIN es = 1..Len(es) /\ DOMAIN new = 1..Len(new)
      /\ \A i \in 1..Len(es) : all[i] = es[i]
      /\ \A i \in 1..Len(new) : all[Len(es) + i] = new[i]
  OBVIOUS
<1>2. \A i \in DOMAIN all : i \in 1..Len(es) \/ \E j \in 1..Len(new) : i = Len(es) + j
  <2>1. ASSUME NEW i \in DOMAIN all, i \notin 1..Len(es) PROVE \E j \in 1..Len(new) : i = Len(es) + j
    <3>1. i - Len(es) \in 1..Len(new) /\ i = Len(es) + (i - Len(es))
      BY <1>1, <2>1
    <3>2. QED
      BY <3>1
  <2>2. QED
    BY <2>1
<1> HIDE DEF all
<1>3. ASSUME NEW i \in DOMAIN new PROVE Applied(places, all)[new[i].key] = new[i].at
  <2> DEFINE k == new[i].key
             m == Len(es) + i
  <2>1. k \in Key
    <3>1. new[i] \in Entry
      OBVIOUS
    <3>2. QED
      BY <3>1 DEF Entry
  <2>2. m \in EntriesOf(k, all) /\ all[m] = new[i]
    BY <1>1, <1>3 DEF EntriesOf
  <2>3. \A x \in EntriesOf(k, all) : x <= m
    <3>1. ASSUME NEW x \in EntriesOf(k, all) PROVE x <= m
      <4>1. x \in DOMAIN all /\ all[x].key = k
        BY DEF EntriesOf
      <4>2. CASE x \in 1..Len(es)
        BY <1>1, <4>2
      <4>3. ASSUME NEW j \in 1..Len(new), x = Len(es) + j PROVE x <= m
        <5>1. new[j].key = new[i].key
          BY <1>1, <4>1, <4>3
        <5>2. j = i
          BY <1>1, <5>1
        <5>3. QED
          BY <1>1, <4>3, <5>2
      <4>4. QED
        BY <1>2, <4>1, <4>2, <4>3
    <3>2. QED
      BY <3>1
  <2> HIDE DEF k, m
  <2>4. Max(EntriesOf(k, all)) = m
    BY <1>1, <2>1, <2>2, <2>3, LastIs
  <2>5. Applied(places, all)[k] = all[m].at
    BY <2>1, <2>2, <2>4 DEF Applied
  <2>6. QED
    BY <2>2, <2>5 DEF k
<1>4. ASSUME NEW k \in Key, \A i \in DOMAIN new : new[i].key # k
      PROVE  Applied(places, all)[k] = Applied(places, es)[k]
  <2>1. EntriesOf(k, all) = EntriesOf(k, es)
    <3>1. ASSUME NEW x \in EntriesOf(k, all) PROVE x \in EntriesOf(k, es)
      <4>1. x \in DOMAIN all /\ all[x].key = k
        BY DEF EntriesOf
      <4>2. ASSUME NEW j \in 1..Len(new), x = Len(es) + j PROVE FALSE
        BY <1>1, <1>4, <4>1, <4>2
      <4>3. QED
        BY <1>1, <1>2, <4>1, <4>2 DEF EntriesOf
    <3>2. ASSUME NEW x \in EntriesOf(k, es) PROVE x \in EntriesOf(k, all)
      BY <1>1 DEF EntriesOf
    <3>3. QED
      BY <3>1, <3>2
  <2>2. CASE EntriesOf(k, es) = {}
    BY <2>1, <2>2 DEF Applied
  <2>3. CASE EntriesOf(k, es) # {}
    <3>1. Max(EntriesOf(k, es)) \in 1..Len(es)
      BY <1>1, <2>3, LastEntry DEF EntriesOf
    <3>2. QED
      BY <1>1, <2>1, <2>3, <3>1 DEF Applied
  <2>4. QED
    BY <2>2, <2>3
<1>5. QED
  BY <1>3, <1>4 DEF all

-----------------------------------------------------------------------------
(* What a start finds, and what leaves it as it is *)

LEMMA NewerFacts ==
    ASSUME TypeOK
    PROVE  /\ NewerIdx \in {None, 0, 1} /\ None \notin {0, 1}
           /\ NewerIdx = None => NewerVersion = 0 /\ NewerPlaces = NoIndex /\ ~Valid(0) /\ ~Valid(1)
           /\ NewerIdx # None => /\ Valid(NewerIdx) /\ idxFile[NewerIdx] \in IdxRec
                                 /\ NewerVersion = idxFile[NewerIdx].version /\ NewerVersion > 0
                                 /\ NewerPlaces = idxFile[NewerIdx].places
           /\ NewerVersion \in 0..MaxVersion
           /\ NewerPlaces \in [Key -> Place \cup {None}]
<1>1. NewerIdx \in {None, 0, 1} /\ None \notin {0, 1}
  BY QdbAssumption DEF NewerIdx
<1>2. CASE NewerIdx = None
  <2>1. NewerVersion = 0 /\ NewerPlaces = NoIndex
    BY <1>2 DEF NewerVersion, NewerPlaces
  <2>2. ~Valid(0) /\ ~Valid(1)
    BY <1>1, <1>2 DEF NewerIdx
  <2>3. NoIndex \in [Key -> Place \cup {None}]
    BY DEF NoIndex
  <2>4. QED
    BY <1>1, <1>2, <2>1, <2>2, <2>3, QdbAssumption
<1>3. CASE NewerIdx # None
  <2>1. Valid(NewerIdx)
    BY <1>1, <1>3 DEF NewerIdx
  <2>2. idxFile[NewerIdx] \in IdxRec
    BY <1>1, <1>3, <2>1 DEF Valid, TypeOK
  <2>3. NewerVersion = idxFile[NewerIdx].version /\ NewerPlaces = idxFile[NewerIdx].places
    BY <1>3 DEF NewerVersion, NewerPlaces
  <2>4. /\ idxFile[NewerIdx].version \in 1..MaxVersion
        /\ idxFile[NewerIdx].places \in [Key -> Place \cup {None}]
    BY <2>2 DEF IdxRec
  <2>5. NewerVersion \in 1..MaxVersion
    BY <2>3, <2>4, Zenon
  <2>6. NewerVersion > 0 /\ NewerVersion \in 0..MaxVersion
    BY <2>5, QdbAssumption
  <2>7. NewerPlaces \in [Key -> Place \cup {None}]
    BY <2>3, <2>4, Zenon
  <2>8. QED
    BY <1>1, <1>3, <2>1, <2>2, <2>3, <2>6, <2>7
<1>4. QED
  BY <1>2, <1>3

LEMMA DiskFacts ==
    ASSUME TypeOK
    PROVE  /\ DiskPlaces \in [Key -> Place \cup {None}]
           /\ \A k \in Key : DiskPlaces[k] = None \/ DiskPlaces[k] \in Named
           /\ Named \subseteq Place
<1>1. NewerPlaces \in [Key -> Place \cup {None}]
  BY NewerFacts
<1>2. LogIsFor(NewerVersion) => log.entries \in Seq(Entry)
  BY DEF LogIsFor, TypeOK, LogRec
<1>3. CASE ~LogIsFor(NewerVersion)
  <2>1. DiskPlaces = NewerPlaces /\ Named = {NewerPlaces[k] : k \in Key} \ {None}
    BY <1>3 DEF DiskPlaces, Named
  <2>2. QED
    BY <1>1, <2>1
<1>4. CASE LogIsFor(NewerVersion)
  <2> DEFINE es == log.entries
  <2>1. DiskPlaces = Applied(NewerPlaces, es)
    BY <1>4 DEF DiskPlaces
  <2>2. Named = ({NewerPlaces[k] : k \in Key} \cup {es[i].at : i \in DOMAIN es}) \ {None}
    BY <1>4 DEF Named
  <2>3. es \in Seq(Entry)
    BY <1>2, <1>4
  <2> HIDE DEF es
  <2>4. \A i \in DOMAIN es : es[i].at \in Place \cup {None}
    <3>1. \A i \in DOMAIN es : es[i] \in Entry
      BY <2>3
    <3>2. QED
      BY <3>1 DEF Entry
  <2>5. /\ Applied(NewerPlaces, es) \in [Key -> Place \cup {None}]
        /\ \A k \in Key : \/ Applied(NewerPlaces, es)[k] = NewerPlaces[k]
                          \/ \E i \in DOMAIN es : Applied(NewerPlaces, es)[k] = es[i].at
    BY <1>1, <2>3, AppliedType
  <2>6. Named \subseteq Place
    BY <1>1, <2>2, <2>4
  <2>7. \A k \in Key : DiskPlaces[k] = None \/ DiskPlaces[k] \in Named
    BY <2>1, <2>2, <2>5
  <2>8. QED
    BY <2>1, <2>5, <2>6, <2>7
<1>5. QED
  BY <1>3, <1>4

\* A place of which the data is there has a value.
LEMMA InFileVal ==
    ASSUME TypeOK, NEW p \in Place, InFile(p)
    PROVE  ValueAt(p) \in Val /\ ValueAt(p) = dat[p.seq][p.pos]
<1>1. p.seq \in Number
  BY DEF Place
<1>2. dat[p.seq] \in Seq(Val)
  BY <1>1 DEF InFile, TypeOK
<1>3. QED
  BY <1>2 DEF InFile, ValueAt

\* Index files that are not valid do not count.
LEMMA IdxKept ==
    ASSUME TypeOK, NEW j \in 0..1, NEW x, idxFile' = [idxFile EXCEPT ![j] = x],
           x = None \/ ~x.whole, j # NewerIdx
    PROVE  /\ NewerIdx' = NewerIdx /\ NewerVersion' = NewerVersion /\ NewerPlaces' = NewerPlaces
           /\ ~Valid(j)' /\ \A i \in 0..1 : i # j => Valid(i)' = Valid(i)
<1>1. idxFile'[j] = x /\ \A i \in 0..1 : i # j => idxFile'[i] = idxFile[i]
  BY DEF TypeOK
<1>2. ~Valid(j)' /\ \A i \in 0..1 : i # j => Valid(i)' = Valid(i)
  BY <1>1 DEF Valid
<1>3. NewerIdx' = NewerIdx
  <2>1. CASE j = 0
    BY <1>1, <1>2, <2>1, QdbAssumption DEF NewerIdx
  <2>2. CASE j = 1
    BY <1>1, <1>2, <2>2, QdbAssumption DEF NewerIdx
  <2>3. QED
    BY <2>1, <2>2
<1>4. NewerVersion' = NewerVersion /\ NewerPlaces' = NewerPlaces
  BY <1>1, <1>3, NewerFacts DEF NewerVersion, NewerPlaces
<1>5. QED
  BY <1>2, <1>3, <1>4

LEMMA SameIdx ==
    ASSUME idxFile' = idxFile
    PROVE  /\ NewerIdx' = NewerIdx /\ NewerVersion' = NewerVersion /\ NewerPlaces' = NewerPlaces
           /\ \A i : Valid(i)' = Valid(i)
BY DEF NewerIdx, NewerVersion, NewerPlaces, Valid

LEMMA SameDisk ==
    ASSUME NewerVersion' = NewerVersion, NewerPlaces' = NewerPlaces, log' = log
    PROVE  Named' = Named /\ DiskPlaces' = DiskPlaces
BY DEF Named, DiskPlaces, LogIsFor, Applied, EntriesOf

\* The log does not count before or after.
LEMMA NoLogCounts ==
    ASSUME TypeOK, NewerVersion' = NewerVersion, NewerPlaces' = NewerPlaces,
           LogIsFor(NewerVersion) => log.entries = <<>>,
           (LogIsFor(NewerVersion) => log.entries = <<>>)'
    PROVE  Named' = Named /\ DiskPlaces' = DiskPlaces
<1>1. NewerPlaces \in [Key -> Place \cup {None}]
  BY NewerFacts
<1>2. Named = {NewerPlaces[k] : k \in Key} \ {None}
  BY DEF Named
<1>3. Named' = {NewerPlaces[k] : k \in Key} \ {None}
  BY DEF Named
<1>4. DiskPlaces = NewerPlaces
  BY <1>1, AppliedNothing DEF DiskPlaces
<1>5. DiskPlaces' = NewerPlaces
  BY <1>1, AppliedNothing DEF DiskPlaces, Applied, EntriesOf
<1>6. QED
  BY <1>2, <1>3, <1>4, <1>5

\* The data that is named stays where it is.
LEMMA DataKept ==
    ASSUME TypeOK, DataInv, Named' = Named, DiskPlaces' = DiskPlaces,
           NewerVersion' = NewerVersion, changes \in Nat, changes' \in Nat, changes <= changes',
           \A p \in Named : /\ dat'[p.seq] # None
                            /\ \A i \in DOMAIN dat[p.seq] : i \in DOMAIN dat'[p.seq] /\ dat'[p.seq][i] = dat[p.seq][i]
    PROVE  DataInv' /\ Durable' = Durable
<1>1. \A p \in Named : InFile(p) /\ InFile(p)' /\ ValueAt(p)' = ValueAt(p)
  BY DEF DataInv, InFile, ValueAt
<1>2. Durable' = Durable
  BY <1>1, DiskFacts DEF Durable
<1>3. NewerVersion \in Nat /\ \A p \in Named : p.seq \in Nat
  BY NewerFacts, DiskFacts DEF Place, Number
<1>4. \A p \in Named : p.seq <= 2 * NewerVersion + changes'
  BY <1>3 DEF DataInv
<1>5. QED
  BY <1>1, <1>2, <1>4 DEF DataInv

LEMMA SameData ==
    ASSUME TypeOK, DataInv, NewerVersion' = NewerVersion, Named' = Named, DiskPlaces' = DiskPlaces,
           dat' = dat, changes \in Nat, changes' \in Nat, changes <= changes'
    PROVE  DataInv' /\ Durable' = Durable
<1>1. \A p \in Named : /\ dat'[p.seq] # None
                       /\ \A i \in DOMAIN dat[p.seq] : i \in DOMAIN dat'[p.seq] /\ dat'[p.seq][i] = dat[p.seq][i]
  BY DEF DataInv, InFile
<1>2. QED
  BY <1>1, DataKept

\* An empty buffer has nothing to show for.
LEMMA NoBuf == ASSUME buf = <<>> PROVE InBuf = {} /\ DOMAIN buf = {}
BY DEF InBuf

-----------------------------------------------------------------------------
(* One lemma per operation: the invariant, and what memory and disk hold *)

LEMMA InitInv == Init => Inv
<1> SUFFICES ASSUME Init PROVE Inv
  OBVIOUS
<1>1. TypeOK
  <2>1. Number \subseteq Nat /\ 0 \in Number
    BY QdbAssumption DEF Number
  <2>2. NoIndex \in [Key -> Place \cup {None}] /\ NoIndex \in [Key -> Rec \cup {None}]
    BY DEF NoIndex
  <2>3. ~Fresh => [whole |-> TRUE, version |-> 1, places |-> NoIndex] \in IdxRec
    BY <2>2, QdbAssumption DEF IdxRec
  <2>4. idxFile \in [0..1 -> IdxRec \cup {None}]
    BY <2>3 DEF Init
  <2>5. {NoSyncMode, LogFile, logOpen} \subseteq BOOLEAN
    BY Zenon DEF Init
  <2>6. Index \in [Key -> Rec \cup {None}] /\ dat \in [Number -> Seq(Val) \cup {None}]
    BY <2>2 DEF Init
  <2>7. DataSeq \in Number /\ VersionSequence \in 0..MaxVersion /\ DatfileIndex \in 0..1
    BY <2>1, QdbAssumption DEF Init
  <2>8. QED
    BY <2>4, <2>5, <2>6, <2>7 DEF Init, TypeOK
<1>2. TypeInv
  BY <1>1, QdbAssumption DEF TypeInv, Init
<1>3. NewerPlaces = NoIndex /\ (~Fresh => NewerVersion > 0)
  <2>1. CASE Fresh
    <3>1. idxFile[0] = None /\ idxFile[1] = None
      BY <2>1 DEF Init
    <3>2. NewerIdx = None
      BY <3>1 DEF NewerIdx, Valid
    <3>3. QED
      BY <2>1, <3>2 DEF NewerPlaces
  <2>2. CASE ~Fresh
    <3>1. idxFile[0] = None /\ idxFile[1] = [whole |-> TRUE, version |-> 1, places |-> NoIndex]
      BY <2>2 DEF Init
    <3>2. NoIndex \in [Key -> Place \cup {None}]
      BY DEF NoIndex
    <3>3. idxFile[1] \in IdxRec
      BY <2>2, <3>1, <3>2, QdbAssumption DEF IdxRec
    <3>4. idxFile[1] # None
      BY <3>3, QdbAssumption
    <3>5. NewerIdx = 1
      BY <3>1, <3>4 DEF NewerIdx, Valid
    <3>6. QED
      BY <3>1, <3>5, QdbAssumption DEF NewerPlaces, NewerVersion
  <2>3. QED
    BY <2>1, <2>2
<1>4. Named = {}
  BY <1>3 DEF Named, LogIsFor, Init, NoIndex
<1>5. DataInv
  BY <1>4 DEF DataInv
<1>6. VersionInv
  BY <1>3 DEF VersionInv, Init, Defragmented
<1>7. LogInv
  BY DEF LogInv, Init, Defragmented
<1>8. SeqInv
  BY DEF SeqInv, Init, Starting, Syncing, Defragmented
<1>9. BufInv
  BY NoBuf DEF BufInv, Init, Syncing
<1>10. PendInv
  BY DEF PendInv, Init, Starting, Syncing
<1>11. QED
  BY <1>2, <1>5, <1>6, <1>7, <1>8, <1>9, <1>10 DEF Inv

\* A step that leaves the files alone.
LEMMA FilesSame ==
    ASSUME TypeInv, DataInv, UNCHANGED <<idxFile, log, dat>>, changes' \in Nat, changes <= changes'
    PROVE  /\ NewerIdx' = NewerIdx /\ NewerVersion' = NewerVersion /\ NewerPlaces' = NewerPlaces
           /\ \A i : Valid(i)' = Valid(i)
           /\ Named' = Named /\ DataInv' /\ Durable' = Durable
<1>1. /\ NewerIdx' = NewerIdx /\ NewerVersion' = NewerVersion /\ NewerPlaces' = NewerPlaces
      /\ \A i : Valid(i)' = Valid(i)
  BY SameIdx
<1>2. Named' = Named /\ DiskPlaces' = DiskPlaces
  BY <1>1, SameDisk
<1>3. DataInv' /\ Durable' = Durable
  BY <1>1, <1>2, SameData DEF TypeInv
<1>4. QED
  BY <1>1, <1>2, <1>3

\* NoSync, Sync, Defrag and Close start with the database idle.
LEMMA QuietInv ==
    ASSUME Inv, NoSync \/ Sync \/ Defrag \/ Close
    PROVE  Inv' /\ Durable' = Durable /\ Mem' = Mem
<1>1. /\ pc = "idle" /\ pc' \in {"idle", "sync", "defrag", "close"}
      /\ UNCHANGED <<Index, PendingRecords, DataSeq, LogFile, VersionSequence, DatfileIndex, logOpen, buf,
                     idxFile, log, dat, changes, crashes>>
      /\ NoSyncMode' \in BOOLEAN
      /\ pc' = "sync" => PendingRecords # {}
      /\ pc' = "defrag" => VersionSequence < MaxVersion
      /\ pc' \in {"idle", "defrag"} => after' = after
      /\ pc' = "close" => PendingRecords = {} /\ after' = "close"
      /\ after' \in {"idle", "close"}
      /\ pc' # "sync" /\ after' = "close" => after = "close" \/ PendingRecords = {}
  BY DEF NoSync, Sync, Defrag, Close, memVars, diskVars, Inv, TypeInv, TypeOK
<1>2. /\ NewerIdx' = NewerIdx /\ NewerVersion' = NewerVersion /\ NewerPlaces' = NewerPlaces
      /\ \A i : Valid(i)' = Valid(i)
      /\ Named' = Named /\ DataInv' /\ Durable' = Durable
  BY <1>1, FilesSame DEF Inv, TypeInv
<1>3. TypeInv'
  BY <1>1 DEF Inv, TypeInv, TypeOK
<1>4. VersionInv'
  BY <1>1, <1>2 DEF Inv, VersionInv, Defragmented, OtherIdx
<1>5. LogInv'
  BY <1>1, <1>2 DEF Inv, LogInv, Defragmented
<1>6. SeqInv'
  BY <1>1, <1>2 DEF Inv, SeqInv, Starting, Syncing, Defragmented
<1>7. BufInv'
  BY <1>1, NoBuf DEF Inv, BufInv, Syncing, InBuf, Written, InFile
<1>8. Mem' = Mem
  BY <1>1 DEF Mem
<1>9. PendInv'
  BY <1>1, <1>2, <1>8 DEF Inv, PendInv, Starting, Syncing
<1>10. QED
  BY <1>2, <1>3, <1>4, <1>5, <1>6, <1>7, <1>8, <1>9 DEF Inv

LEMMA LoadDatInv ==
    ASSUME Inv, LoadDat
    PROVE  Inv' /\ Durable' = Durable
<1>1. /\ pc = "down" /\ pc' = "open" /\ after' = "idle"
      /\ DatfileIndex' = IF NewerIdx = None THEN 0 ELSE NewerIdx
      /\ VersionSequence' = NewerVersion
      /\ UNCHANGED <<Index, PendingRecords, NoSyncMode, DataSeq, LogFile, logOpen, buf, dat, log,
                     changes, crashes>>
  BY DEF LoadDat
<1>2. /\ NewerIdx \in {None, 0, 1} /\ None \notin {0, 1} /\ NewerVersion \in 0..MaxVersion
      /\ NewerIdx = None => ~Valid(0) /\ ~Valid(1)
  BY NewerFacts DEF Inv, TypeInv
<1>3. /\ NewerIdx' = NewerIdx /\ NewerVersion' = NewerVersion /\ NewerPlaces' = NewerPlaces
      /\ idxFile' \in [0..1 -> IdxRec \cup {None}]
      /\ ~Valid(OtherIdx)'
  <2>1. CASE NewerIdx = None
    <3>1. idxFile' = idxFile
      BY <2>1 DEF LoadDat
    <3>2. QED
      BY <1>1, <1>2, <2>1, <3>1, SameIdx DEF Inv, TypeInv, TypeOK, OtherIdx
  <2>2. CASE NewerIdx # None
    <3>0. PICK j \in 0..1 : j = 1 - NewerIdx
      BY <1>2, <2>2
    <3>1. idxFile' = [idxFile EXCEPT ![j] = None] /\ OtherIdx' = j
      BY <1>1, <2>2, <3>0 DEF LoadDat, OtherIdx
    <3>2. j # NewerIdx
      BY <1>2, <2>2, <3>0
    <3>3. /\ NewerIdx' = NewerIdx /\ NewerVersion' = NewerVersion /\ NewerPlaces' = NewerPlaces
          /\ ~Valid(j)'
      BY <3>1, <3>2, IdxKept DEF Inv, TypeInv
    <3>4. ~Valid(OtherIdx)'
      BY <3>1, <3>3 DEF Valid
    <3>5. QED
      BY <3>1, <3>2, <3>3, <3>4 DEF Inv, TypeInv, TypeOK
  <2>3. QED
    BY <2>1, <2>2
<1>4. Named' = Named /\ DiskPlaces' = DiskPlaces
  BY <1>1, <1>3, SameDisk
<1>5. DataInv' /\ Durable' = Durable
  BY <1>1, <1>3, <1>4, SameData DEF Inv, TypeInv
<1>6. TypeInv'
  BY <1>1, <1>2, <1>3 DEF Inv, TypeInv, TypeOK
<1>7. VersionInv'
  BY <1>1, <1>3 DEF Inv, VersionInv, Defragmented
<1>8. LogInv'
  BY <1>1, <1>3 DEF Inv, LogInv, Defragmented
<1>9. SeqInv'
  BY <1>1 DEF Inv, SeqInv, Starting, Syncing, Defragmented
<1>10. BufInv'
  BY <1>1, NoBuf DEF Inv, BufInv, Syncing, InBuf
<1>11. PendInv'
  BY <1>1 DEF Inv, PendInv, Starting, Syncing
<1>12. QED
  BY <1>5, <1>6, <1>7, <1>8, <1>9, <1>10, <1>11 DEF Inv

\* A log counts if its header names the version of the index file.
LEMMA LogVersion ==
    ASSUME Inv, pc # "header"
    PROVE  LogIsFor(NewerVersion) <=> log # None /\ log.version = NewerVersion
<1>1. NewerVersion \in Nat /\ None \notin Nat
  BY NewerFacts, QdbAssumption DEF Inv, TypeInv
<1>2. QED
  BY <1>1 DEF LogIsFor, Inv, LogInv

LEMMA LoadLogInv ==
    ASSUME Inv, LoadLog
    PROVE  Inv' /\ Durable' = Durable
<1>1. /\ pc = "open" /\ pc' = "load"
      /\ UNCHANGED <<Index, PendingRecords, NoSyncMode, DataSeq, LogFile, VersionSequence, DatfileIndex,
                     buf, after, dat, idxFile, changes, crashes>>
  BY DEF LoadLog
<1>2. VersionSequence = NewerVersion
  BY <1>1 DEF Inv, VersionInv
<1>3. /\ NewerIdx' = NewerIdx /\ NewerVersion' = NewerVersion /\ NewerPlaces' = NewerPlaces
      /\ \A i : Valid(i)' = Valid(i)
  BY <1>1, SameIdx
<1>4. /\ logOpen' = LogIsFor(NewerVersion)
      /\ log' = IF LogIsFor(NewerVersion) THEN log ELSE None
  BY <1>2 DEF LoadLog
<1>5. LogIsFor(NewerVersion) <=> log # None /\ log.version = NewerVersion
  BY <1>1, LogVersion
<1>6. Named' = Named /\ DiskPlaces' = DiskPlaces
  <2>1. CASE LogIsFor(NewerVersion)
    BY <1>3, <1>4, <2>1, SameDisk
  <2>2. CASE ~LogIsFor(NewerVersion)
    <3>1. ~LogIsFor(NewerVersion)'
      BY <1>4, <2>2 DEF LogIsFor
    <3>2. QED
      BY <1>3, <2>2, <3>1, NoLogCounts DEF Inv, TypeInv
  <2>3. QED
    BY <2>1, <2>2
<1>7. DataInv' /\ Durable' = Durable
  BY <1>1, <1>3, <1>6, SameData DEF Inv, TypeInv
<1>8. TypeInv'
  <2>1. logOpen' \in BOOLEAN /\ log' \in LogRec \cup {None}
    BY <1>4 DEF Inv, TypeInv, TypeOK, LogIsFor
  <2>2. QED
    BY <1>1, <2>1 DEF Inv, TypeInv, TypeOK
<1>9. VersionInv'
  BY <1>1, <1>3 DEF Inv, VersionInv, Defragmented, OtherIdx
<1>10. LogInv'
  <2>1. NewerVersion \in Nat /\ None \notin Nat
    BY NewerFacts, QdbAssumption DEF Inv, TypeInv
  <2>2. QED
    BY <1>1, <1>3, <1>4, <1>5, <2>1 DEF Inv, LogInv, Defragmented
<1>11. SeqInv'
  BY <1>1 DEF Inv, SeqInv, Starting, Syncing, Defragmented
<1>12. BufInv'
  BY <1>1, NoBuf DEF Inv, BufInv, Syncing, InBuf
<1>13. PendInv'
  BY <1>1 DEF Inv, PendInv, Starting, Syncing
<1>14. QED
  BY <1>7, <1>8, <1>9, <1>10, <1>11, <1>12, <1>13 DEF Inv

\* The memory is gone, at any point of any operation.
LEMMA DownInv ==
    ASSUME Inv, HasIndex, Closed \/ Crash
    PROVE  Inv' /\ Durable' = Durable /\ pc' = "down"
<1>1. /\ Index' = NoIndex /\ PendingRecords' = {} /\ NoSyncMode' = FALSE
      /\ DataSeq' = 0 /\ LogFile' = FALSE
      /\ VersionSequence' = 0 /\ DatfileIndex' = 0 /\ logOpen' = FALSE /\ buf' = <<>>
      /\ pc' = "down" /\ after' = "idle"
      /\ UNCHANGED <<idxFile, log, dat, changes>>
  BY DEF Closed, Crash, Down, diskVars
<1>2. crashes' \in Nat /\ (pc = "header" => ~Fresh)
  BY QdbAssumption DEF Closed, Crash, HasIndex, Inv, TypeInv
<1>3. /\ NewerIdx' = NewerIdx /\ NewerVersion' = NewerVersion /\ NewerPlaces' = NewerPlaces
      /\ \A i : Valid(i)' = Valid(i)
      /\ Named' = Named /\ DataInv' /\ Durable' = Durable
  BY <1>1, FilesSame DEF Inv, TypeInv
<1>4. TypeInv'
  <2>1. Index' \in [Key -> Rec \cup {None}]
    BY <1>1 DEF NoIndex
  <2>2. DataSeq' \in Number /\ VersionSequence' \in 0..MaxVersion /\ DatfileIndex' \in 0..1
    BY <1>1, QdbAssumption DEF Number
  <2>3. {NoSyncMode, LogFile, logOpen}' \subseteq BOOLEAN
    BY <1>1, Zenon
  <2>4. QED
    BY <1>1, <1>2, <2>1, <2>2, <2>3 DEF Inv, TypeInv, TypeOK
<1>5. VersionInv'
  BY <1>1, <1>3 DEF Inv, VersionInv, Defragmented
<1>6. LogInv'
  BY <1>1, <1>2, <1>3 DEF Inv, LogInv, VersionInv, Defragmented
<1>7. SeqInv'
  BY <1>1 DEF SeqInv, Starting, Syncing, Defragmented
<1>8. BufInv'
  BY <1>1 DEF BufInv, Syncing, InBuf
<1>9. PendInv'
  BY <1>1 DEF PendInv, Starting, Syncing
<1>10. QED
  BY <1>1, <1>3, <1>4, <1>5, <1>6, <1>7, <1>8, <1>9 DEF Inv

\* Put and Del.
LEMMA ChangeInv ==
    ASSUME Inv, NEW k \in Key, NEW v \in Val \cup {None}, Change(k, v)
    PROVE  Inv' /\ Durable' = Durable /\ Mem' = [Mem EXCEPT ![k] = v]
<1>1. /\ pc = "idle" /\ pc' \in {"idle", "sync"} /\ changes < MaxChanges
      /\ Index' = [Index EXCEPT ![k] = IF v = None THEN None ELSE [val |-> v, at |-> Nowhere]]
      /\ PendingRecords' = PendingRecords \cup {k}
      /\ changes' = changes + 1
      /\ UNCHANGED <<NoSyncMode, DataSeq, LogFile, VersionSequence, DatfileIndex, logOpen, buf, after,
                     idxFile, log, dat, crashes>>
  BY DEF Change, diskVars
<1>2. changes \in Nat /\ changes' \in 0..MaxChanges /\ changes' \in Nat /\ changes <= changes'
  BY <1>1, QdbAssumption DEF Inv, TypeInv
<1>3. /\ NewerIdx' = NewerIdx /\ NewerVersion' = NewerVersion /\ NewerPlaces' = NewerPlaces
      /\ \A i : Valid(i)' = Valid(i)
      /\ Named' = Named /\ DataInv' /\ Durable' = Durable
  BY <1>1, <1>2, FilesSame DEF Inv
<1>4. v # None => [val |-> v, at |-> Nowhere] \in Rec /\ [val |-> v, at |-> Nowhere] # None
  BY QdbAssumption DEF Rec, Place, Nowhere, Number
<1>5. TypeInv'
  <2>1. Index' \in [Key -> Rec \cup {None}]
    BY <1>1, <1>4 DEF Inv, TypeInv, TypeOK
  <2>2. QED
    BY <1>1, <1>2, <2>1 DEF Inv, TypeInv, TypeOK
<1>6. Mem' = [Mem EXCEPT ![k] = v]
  <2>1. Index'[k] = (IF v = None THEN None ELSE [val |-> v, at |-> Nowhere])
        /\ \A x \in Key : x # k => Index'[x] = Index[x]
    BY <1>1 DEF Inv, TypeInv, TypeOK
  <2>2. \A x \in Key : Mem'[x] = IF x = k THEN v ELSE Mem[x]
    BY <1>4, <2>1 DEF Mem
  <2>3. QED
    BY <2>2 DEF Mem
<1>7. VersionInv'
  BY <1>1, <1>3 DEF Inv, VersionInv, Defragmented, OtherIdx
<1>8. LogInv'
  BY <1>1, <1>3 DEF Inv, LogInv, Defragmented
<1>9. SeqInv'
  <2>1. DataSeq \in Nat /\ VersionSequence \in Nat
    BY DEF Inv, TypeInv, TypeOK, Number
  <2>2. QED
    BY <1>1, <1>2, <1>3, <2>1 DEF Inv, SeqInv, Starting, Syncing, Defragmented
<1>10. BufInv'
  BY <1>1, NoBuf DEF Inv, BufInv, Syncing, InBuf
<1>11. PendInv'
  <2>1. \A x \in Key \ PendingRecords' : Mem'[x] = Durable'[x]
    BY <1>1, <1>3, <1>6 DEF Inv, PendInv, Starting, Mem
  <2>2. QED
    BY <1>1, <2>1 DEF Inv, PendInv, Starting, Syncing
<1>12. QED
  BY <1>3, <1>5, <1>6, <1>7, <1>8, <1>9, <1>10, <1>11 DEF Inv

\* memput: the numbers of the data files that the index and its log name.
LEMMA UsedIsNamed ==
    ASSUME Inv, pc = "load"
    PROVE  Used = {p.seq : p \in Named}
<1>1. log = None \/ LogIsFor(NewerVersion)
  BY LogVersion DEF Inv, LogInv, Defragmented
<1>2. CASE log = None
  <2>1. Named = {NewerPlaces[k] : k \in Key} \ {None}
    BY <1>2 DEF Named, LogIsFor
  <2>2. Used = {NewerPlaces[k].seq : k \in {x \in Key : NewerPlaces[x] # None}}
    BY <1>2 DEF Used
  <2>3. QED
    BY <2>1, <2>2
<1>3. CASE log # None
  <2> DEFINE es == log.entries
  <2>1. Named = ({NewerPlaces[k] : k \in Key} \cup {es[i].at : i \in DOMAIN es}) \ {None}
    BY <1>1, <1>3 DEF Named
  <2>2. Used = {NewerPlaces[k].seq : k \in {x \in Key : NewerPlaces[x] # None}}
                 \cup {es[i].at.seq : i \in {j \in DOMAIN es : es[j].at # None}}
    BY <1>3 DEF Used
  <2> HIDE DEF es
  <2>3. QED
    BY <2>1, <2>2
<1>4. QED
  BY <1>2, <1>3

LEMMA NextSeqFacts ==
    ASSUME Inv, pc = "load"
    PROVE  /\ NextSeq \in Number
           /\ NextSeq <= 2 * NewerVersion + changes + 1
           /\ \A p \in Named : p.seq < NextSeq
<1> DEFINE U == Used \cup {0}
           b == 2 * NewerVersion + changes
<1>1. NewerVersion \in 0..MaxVersion /\ changes \in 0..MaxChanges
  BY NewerFacts DEF Inv, TypeInv
<1>2. b \in Nat /\ b + 1 \in Number
  <2>1. NewerVersion \in Nat /\ changes \in Nat /\ MaxVersion \in Nat /\ MaxChanges \in Nat /\ MaxCrash \in Nat
        /\ NewerVersion <= MaxVersion /\ changes <= MaxChanges
    BY <1>1, QdbAssumption
  <2>2. 2 * NewerVersion + changes + 1 <= 2 * MaxVersion + MaxCrash + MaxChanges + 1
    BY <2>1
  <2>3. QED
    BY <2>1, <2>2 DEF Number
<1>3. \A p \in Named : p.seq \in Nat /\ p.seq <= b
  BY DiskFacts DEF Inv, TypeInv, DataInv, Place, Number
<1> HIDE DEF b
<1>4. U \in SUBSET Nat /\ U # {} /\ \A y \in U : y <= b
  BY <1>2, <1>3, UsedIsNamed
<1>5. \A p \in Named : p.seq \in U
  BY UsedIsNamed
<1>6. NextSeq = 1 + Max(U)
  BY DEF NextSeq
<1> HIDE DEF U
<1>7. \E x \in U : \A y \in U : x >= y
  <2>1. \E x \in U : \A y \in U : y <= x
    BY <1>2, <1>4, GreatestNat
  <2>2. QED
    BY <1>4, <2>1
<1>8. Max(U) \in U /\ \A y \in U : Max(U) >= y
  BY <1>7 DEF Max
<1>9. Max(U) \in Nat /\ Max(U) <= b
  BY <1>4, <1>8
<1>10. NextSeq <= b + 1 /\ NextSeq \in Nat
  BY <1>2, <1>6, <1>9
<1>11. NextSeq \in Number
  <2>1. b + 1 <= 2 * MaxVersion + MaxCrash + MaxChanges + 1
    BY <1>2 DEF Number
  <2>2. NextSeq <= 2 * MaxVersion + MaxCrash + MaxChanges + 1
    BY <1>2, <1>10, <2>1, QdbAssumption
  <2>3. QED
    BY <1>10, <2>2 DEF Number
<1>12. \A p \in Named : p.seq < NextSeq
  BY <1>3, <1>5, <1>6, <1>8, <1>9
<1>13. QED
  BY <1>10, <1>11, <1>12 DEF b

\* What was loaded is what was on disk.
LEMMA CleanAndLoadInv ==
    ASSUME Inv, CleanAndLoad
    PROVE  Inv' /\ Durable' = Durable /\ Mem' = Durable
<1>1. /\ pc = "load" /\ pc' = "idle"
      /\ dat' = [n \in Number |-> IF n \in Used THEN dat[n] ELSE None]
      /\ Index' = [k \in Key |-> IF DiskPlaces[k] = None THEN None
                                 ELSE [val |-> ValueAt(DiskPlaces[k]), at |-> DiskPlaces[k]]]
      /\ DataSeq' = NextSeq
      /\ UNCHANGED <<PendingRecords, NoSyncMode, LogFile, VersionSequence, DatfileIndex, logOpen, buf,
                     after, idxFile, log, changes, crashes>>
  BY DEF CleanAndLoad
<1>2. /\ NewerIdx' = NewerIdx /\ NewerVersion' = NewerVersion /\ NewerPlaces' = NewerPlaces
      /\ \A i : Valid(i)' = Valid(i)
  BY <1>1, SameIdx
<1>3. Named' = Named /\ DiskPlaces' = DiskPlaces
  BY <1>1, <1>2, SameDisk
<1>4. \A p \in Named : p \in Place /\ p.seq \in Number /\ InFile(p) /\ dat'[p.seq] = dat[p.seq]
  <2>1. \A p \in Named : p \in Place /\ p.seq \in Number /\ p.seq \in Used /\ InFile(p)
    BY <1>1, UsedIsNamed, DiskFacts DEF Place, Inv, TypeInv, DataInv
  <2>2. QED
    BY <1>1, <2>1
<1>5. DataInv' /\ Durable' = Durable
  <2>1. \A p \in Named : /\ dat'[p.seq] # None
                         /\ \A i \in DOMAIN dat[p.seq] : i \in DOMAIN dat'[p.seq] /\ dat'[p.seq][i] = dat[p.seq][i]
    BY <1>4 DEF InFile
  <2>2. QED
    BY <1>1, <1>2, <1>3, <2>1, DataKept DEF Inv, TypeInv
<1>6. \A k \in Key : DiskPlaces[k] # None =>
         /\ [val |-> ValueAt(DiskPlaces[k]), at |-> DiskPlaces[k]] \in Rec
         /\ [val |-> ValueAt(DiskPlaces[k]), at |-> DiskPlaces[k]] # None
  <2>1. \A k \in Key : DiskPlaces[k] # None => DiskPlaces[k] \in Place /\ ValueAt(DiskPlaces[k]) \in Val
    BY <1>4, DiskFacts, InFileVal DEF Inv, TypeInv
  <2>2. QED
    BY <2>1, QdbAssumption DEF Rec
<1>7. NextSeq \in Number /\ NextSeq <= 2 * NewerVersion + changes + 1 /\ \A p \in Named : p.seq < NextSeq
  BY <1>1, NextSeqFacts
<1>8. TypeInv'
  <2>1. Index' \in [Key -> Rec \cup {None}]
    BY <1>1, <1>6
  <2>2. dat' \in [Number -> Seq(Val) \cup {None}]
    BY <1>1 DEF Inv, TypeInv, TypeOK
  <2>3. QED
    BY <1>1, <1>7, <2>1, <2>2 DEF Inv, TypeInv, TypeOK
<1>9. Mem' = Durable
  BY <1>1, <1>6 DEF Mem, Durable
<1>10. VersionInv'
  BY <1>1, <1>2 DEF Inv, VersionInv, Defragmented, OtherIdx
<1>11. LogInv'
  BY <1>1, <1>2 DEF Inv, LogInv, Defragmented
<1>12. SeqInv'
  <2>1. ~LogFile /\ PendingRecords = {} /\ VersionSequence = NewerVersion
    BY <1>1 DEF Inv, SeqInv, PendInv, VersionInv, Starting, Defragmented
  <2>2. \A p \in Named : p.seq <= NextSeq
    BY <1>4, <1>7 DEF Number
  <2>3. QED
    BY <1>1, <1>3, <1>7, <2>1, <2>2 DEF SeqInv, Starting, Syncing, Defragmented
<1>13. BufInv'
  BY <1>1, NoBuf DEF Inv, BufInv, Syncing, InBuf
<1>14. PendInv'
  BY <1>1, <1>5, <1>9 DEF Inv, PendInv, Starting, Syncing
<1>15. QED
  BY <1>5, <1>8, <1>9, <1>10, <1>11, <1>12, <1>13, <1>14 DEF Inv

\* checklogfile: a data file is not created over one that is named.
LEMMA SyncOpenInv ==
    ASSUME Inv, SyncOpen
    PROVE  Inv' /\ Durable' = Durable /\ Mem' = Mem
<1>1. /\ pc = "sync" /\ pc' = "rec" /\ LogFile' = TRUE
      /\ dat' = IF LogFile THEN dat ELSE [dat EXCEPT ![DataSeq] = <<>>]
      /\ UNCHANGED <<Index, PendingRecords, NoSyncMode, DataSeq, VersionSequence, DatfileIndex, logOpen,
                     buf, after, idxFile, log, changes, crashes>>
  BY DEF SyncOpen
<1>2. /\ NewerIdx' = NewerIdx /\ NewerVersion' = NewerVersion /\ NewerPlaces' = NewerPlaces
      /\ \A i : Valid(i)' = Valid(i)
  BY <1>1, SameIdx
<1>3. Named' = Named /\ DiskPlaces' = DiskPlaces
  BY <1>1, <1>2, SameDisk
<1>4. \A p \in Named : p.seq \in Number /\ InFile(p) /\ (~LogFile => p.seq < DataSeq) /\ p.seq <= DataSeq
  BY <1>1, DiskFacts DEF Place, Inv, TypeInv, DataInv, SeqInv, Starting
<1>5. DataSeq \in Number /\ Number \subseteq Nat
  BY DEF Inv, TypeInv, TypeOK, Number
<1>6. \A p \in Named : dat'[p.seq] = dat[p.seq]
  BY <1>1, <1>4, <1>5 DEF Inv, TypeInv, TypeOK
<1>7. DataInv' /\ Durable' = Durable
  <2>1. \A p \in Named : /\ dat'[p.seq] # None
                         /\ \A i \in DOMAIN dat[p.seq] : i \in DOMAIN dat'[p.seq] /\ dat'[p.seq][i] = dat[p.seq][i]
    BY <1>4, <1>6 DEF InFile
  <2>2. QED
    BY <1>1, <1>2, <1>3, <2>1, DataKept DEF Inv, TypeInv
<1>8. TypeInv' /\ dat'[DataSeq] # None
  <2>0. <<>> \in Seq(Val)
    OBVIOUS
  <2>1. <<>> \in Seq(Val) /\ <<>> # None
    BY <2>0, QdbAssumption, Zenon
  <2>2. dat' \in [Number -> Seq(Val) \cup {None}] /\ dat'[DataSeq] # None
    BY <1>1, <1>5, <2>1 DEF Inv, TypeInv, TypeOK, SeqInv, Starting
  <2>3. QED
    BY <1>1, <2>2 DEF Inv, TypeInv, TypeOK
<1>9. Mem' = Mem
  BY <1>1 DEF Mem
<1>10. VersionInv'
  BY <1>1, <1>2 DEF Inv, VersionInv, Defragmented, OtherIdx
<1>11. LogInv'
  BY <1>1, <1>2 DEF Inv, LogInv, Defragmented
<1>12. PendingRecords # {}
  BY <1>1 DEF Inv, PendInv
<1>13. SeqInv'
  BY <1>1, <1>3, <1>4, <1>8, <1>12 DEF Inv, SeqInv, Starting, Syncing, Defragmented
<1>14. BufInv'
  BY <1>1, NoBuf DEF Inv, BufInv, Syncing, InBuf
<1>15. PendInv'
  BY <1>1, <1>7, <1>9 DEF Inv, PendInv, Starting, Syncing
<1>16. QED
  BY <1>7, <1>8, <1>9, <1>10, <1>11, <1>13, <1>14, <1>15 DEF Inv

\* One record of a sync: its value is in the data file, behind what is there.
LEMMA SyncRecInv ==
    ASSUME Inv, NEW k \in Key, SyncRec(k)
    PROVE  Inv' /\ Durable' = Durable /\ Mem' = Mem
<1>1. /\ pc = "rec" /\ pc' = "rec" /\ k \in PendingRecords \ InBuf
      /\ UNCHANGED <<PendingRecords, NoSyncMode, DataSeq, LogFile, VersionSequence, DatfileIndex,
                     logOpen, pc, after, idxFile, log, changes, crashes>>
  BY DEF SyncRec
<1> DEFINE d == dat[DataSeq]
           at == [seq |-> DataSeq, pos |-> Len(d) + 1]
           e == [key |-> k, at |-> IF Index[k] = None THEN None ELSE at]
<1>2. /\ buf' = Append(buf, e)
      /\ Index[k] = None => Index' = Index /\ dat' = dat
      /\ Index[k] # None => /\ dat' = [dat EXCEPT ![DataSeq] = Append(d, Index[k].val)]
                            /\ Index' = [Index EXCEPT ![k].at = at]
  BY DEF SyncRec
<1>3. /\ DataSeq \in Number /\ Number \subseteq Nat /\ LogFile /\ d \in Seq(Val) /\ d # None
  <2>1. DataSeq \in Number /\ Number \subseteq Nat
    BY DEF Inv, TypeInv, TypeOK, Number
  <2>2. LogFile /\ d # None
    BY <1>1 DEF Inv, SeqInv, Syncing, Starting
  <2>3. QED
    BY <2>1, <2>2 DEF Inv, TypeInv, TypeOK
<1>4. at \in Place /\ at # None /\ e \in Entry /\ Len(d) \in Nat
  <2>1. at \in Place
    BY <1>3 DEF Place
  <2>2. QED
    BY <1>3, <2>1, QdbAssumption DEF Entry
<1>5. Index[k] # None => Index[k] \in Rec /\ Index[k].val \in Val /\ Index[k].at \in Place
  BY DEF Inv, TypeInv, TypeOK, Rec
<1>6. /\ Index'[k] = IF Index[k] = None THEN None ELSE [val |-> Index[k].val, at |-> at]
      /\ \A x \in Key : x # k => Index'[x] = Index[x]
      /\ DOMAIN Index' = Key
  <2>1. CASE Index[k] = None
    BY <1>2, <2>1 DEF Inv, TypeInv, TypeOK
  <2>2. CASE Index[k] # None
    <3>1. Index' = [Index EXCEPT ![k] = [Index[k] EXCEPT !.at = at]]
      BY <1>2, <2>2
    <3>2. [Index[k] EXCEPT !.at = at] = [val |-> Index[k].val, at |-> at]
      BY <1>5, <2>2 DEF Rec
    <3> HIDE DEF at
    <3>3. QED
      BY <2>2, <3>1, <3>2 DEF Inv, TypeInv, TypeOK
  <2>3. QED
    BY <2>1, <2>2
<1>7. Index[k] # None => [val |-> Index[k].val, at |-> at] \in Rec /\ [val |-> Index[k].val, at |-> at] # None
  BY <1>4, <1>5, QdbAssumption DEF Rec
<1>8. /\ dat' \in [Number -> Seq(Val) \cup {None}]
      /\ \A n \in Number : n # DataSeq => dat'[n] = dat[n]
      /\ dat'[DataSeq] \in Seq(Val)
      /\ \A i \in DOMAIN d : i \in DOMAIN dat'[DataSeq] /\ dat'[DataSeq][i] = d[i]
      /\ Index[k] # None => /\ Len(d) + 1 \in DOMAIN dat'[DataSeq]
                            /\ dat'[DataSeq][Len(d) + 1] = Index[k].val
  <2>1. CASE Index[k] = None
    BY <1>2, <1>3, <2>1 DEF Inv, TypeInv, TypeOK
  <2>2. CASE Index[k] # None
    <3> DEFINE a == Append(d, Index[k].val)
    <3>1. /\ a \in Seq(Val) /\ \A i \in DOMAIN d : i \in DOMAIN a /\ a[i] = d[i]
          /\ Len(d) + 1 \in DOMAIN a /\ a[Len(d) + 1] = Index[k].val
      BY <1>3, <1>5, <2>2
    <3>2. dat' = [dat EXCEPT ![DataSeq] = a]
      BY <1>2, <2>2
    <3> HIDE DEF a, d
    <3>3. dat'[DataSeq] = a /\ \A n \in Number : n # DataSeq => dat'[n] = dat[n]
      BY <1>3, <3>2 DEF Inv, TypeInv, TypeOK
    <3>4. dat' \in [Number -> Seq(Val) \cup {None}]
      BY <3>1, <3>2 DEF Inv, TypeInv, TypeOK
    <3>5. QED
      BY <3>1, <3>3, <3>4
  <2>3. QED
    BY <2>1, <2>2
<1>9. dat'[DataSeq] # None
  BY <1>8, QdbAssumption
<1> HIDE DEF e
<1>10. \A n \in Number : dat[n] # None =>
         /\ dat'[n] # None
         /\ \A i \in DOMAIN dat[n] : i \in DOMAIN dat'[n] /\ dat'[n][i] = dat[n][i]
  BY <1>8, <1>9
<1>11. /\ NewerIdx' = NewerIdx /\ NewerVersion' = NewerVersion /\ NewerPlaces' = NewerPlaces
       /\ \A i : Valid(i)' = Valid(i)
  BY <1>1, SameIdx
<1>12. Named' = Named /\ DiskPlaces' = DiskPlaces
  BY <1>1, <1>11, SameDisk
<1>13. DataInv' /\ Durable' = Durable
  <2>1. \A p \in Named : p.seq \in Number /\ dat[p.seq] # None
    BY DiskFacts DEF Place, Inv, TypeInv, DataInv, InFile
  <2>2. \A p \in Named : /\ dat'[p.seq] # None
                         /\ \A i \in DOMAIN dat[p.seq] : i \in DOMAIN dat'[p.seq] /\ dat'[p.seq][i] = dat[p.seq][i]
    BY <1>10, <2>1
  <2>3. QED
    BY <1>1, <1>11, <1>12, <2>2, DataKept DEF Inv, TypeInv
<1>14. TypeInv'
  <2>1. Index' \in [Key -> Rec \cup {None}]
    <3>1. \A x \in Key : Index'[x] \in Rec \cup {None}
      <4>1. Index'[k] \in Rec \cup {None}
        BY <1>6, <1>7
      <4>2. \A x \in Key : Index[x] \in Rec \cup {None}
        BY DEF Inv, TypeInv, TypeOK
      <4>3. QED
        BY <1>6, <4>1, <4>2
    <3>2. Index' = [x \in Key |-> Index'[x]]
      BY <1>2, <1>6 DEF Inv, TypeInv, TypeOK
    <3>3. QED
      BY <3>1, <3>2
  <2>2. buf' \in Seq(Entry)
    BY <1>2, <1>4 DEF Inv, TypeInv, TypeOK
  <2>3. QED
    BY <1>1, <1>8, <2>1, <2>2 DEF Inv, TypeInv, TypeOK
<1>15. Mem' = Mem
  <2>1. \A x \in Key : Mem'[x] = Mem[x]
    <3>1. Mem'[k] = Mem[k]
      <4>1. CASE Index[k] = None
        BY <1>6, <4>1 DEF Mem
      <4>2. CASE Index[k] # None
        <5>1. Index'[k] # None /\ Index'[k].val = Index[k].val
          BY <1>6, <1>7, <4>2
        <5>2. QED
          BY <4>2, <5>1 DEF Mem
      <4>3. QED
        BY <4>1, <4>2
    <3>2. \A x \in Key : x # k => Mem'[x] = Mem[x]
      BY <1>6 DEF Mem
    <3>3. QED
      BY <3>1, <3>2
  <2>2. QED
    BY <2>1 DEF Mem
<1>16. VersionInv'
  BY <1>1, <1>11 DEF Inv, VersionInv, Defragmented, OtherIdx
<1>17. LogInv'
  BY <1>1, <1>11 DEF Inv, LogInv, Defragmented
<1>18. SeqInv'
  BY <1>1, <1>9, <1>12 DEF Inv, SeqInv, Starting, Syncing, Defragmented
<1>19. BufInv'
  <2>1. buf \in Seq(Entry)
    BY DEF Inv, TypeInv, TypeOK
  <2>2. /\ Len(buf) \in Nat /\ DOMAIN buf = 1..Len(buf) /\ DOMAIN buf' = 1..(Len(buf) + 1)
        /\ buf'[Len(buf) + 1] = e /\ \A i \in 1..Len(buf) : buf'[i] = buf[i]
    BY <1>2, <1>4, <2>1
  <2>3. \A i \in DOMAIN buf' : i = Len(buf) + 1 \/ i \in DOMAIN buf
    BY <2>2
  <2>4. e.key = k /\ e.at = IF Index[k] = None THEN None ELSE at
    BY DEF e
  <2>5. \A i \in DOMAIN buf : buf[i].key # k /\ buf[i].key \in Key
    <3>1. \A i \in DOMAIN buf : buf[i] \in Entry
      BY <2>1
    <3>2. QED
      BY <1>1, <3>1 DEF InBuf, Entry
  <2>6. InBuf' \subseteq PendingRecords'
    <3>1. InBuf \subseteq PendingRecords
      BY DEF Inv, BufInv
    <3>2. \A i \in DOMAIN buf' : buf'[i].key \in PendingRecords
      BY <1>1, <2>2, <2>3, <2>4, <3>1 DEF InBuf
    <3>3. QED
      BY <1>1, <3>2 DEF InBuf
  <2>7. \A i, j \in DOMAIN buf' : buf'[i].key = buf'[j].key => i = j
    <3>1. \A i, j \in DOMAIN buf : buf[i].key = buf[j].key => i = j
      BY DEF Inv, BufInv
    <3>2. QED
      BY <2>2, <2>3, <2>4, <2>5, <3>1
  <2>8. \A x \in Key : x # k /\ Written(x) => Written(x)'
    <3>1. ASSUME NEW x \in Key, x # k, Written(x), Index[x] # None
          PROVE  Written(x)'
      <4>1. Index'[x] = Index[x] /\ DataSeq' = DataSeq
        BY <1>1, <1>6, <3>1
      <4>2. /\ Index[x].at.seq = DataSeq /\ Index[x].at.pos \in DOMAIN d
            /\ d[Index[x].at.pos] = Index[x].val
        BY <3>1 DEF Written, InFile
      <4>3. QED
        BY <1>8, <1>9, <4>1, <4>2 DEF Written, InFile
    <3>2. ASSUME NEW x \in Key, x # k, Index[x] = None
          PROVE  Written(x)'
      BY <1>6, <3>2 DEF Written
    <3>3. QED
      BY <3>1, <3>2
  <2>9. Written(k)' /\ (Index'[k] = None <=> Index[k] = None)
    <3>1. CASE Index[k] = None
      BY <1>6, <3>1 DEF Written
    <3>2. CASE Index[k] # None
      <4>1. Index'[k] # None /\ Index'[k].at = at /\ Index'[k].val = Index[k].val
        BY <1>6, <1>7, <3>2
      <4>2. at.seq = DataSeq /\ at.pos = Len(d) + 1
        OBVIOUS
      <4> HIDE DEF at
      <4>3. QED
        BY <1>1, <1>8, <1>9, <3>2, <4>1, <4>2 DEF Written, InFile
    <3>3. QED
      BY <3>1, <3>2
  <2>10. (\A i \in DOMAIN buf :
            /\ Written(buf[i].key)
            /\ buf[i].at = IF Index[buf[i].key] = None THEN None ELSE Index[buf[i].key].at)'
    <3>1. ASSUME NEW i \in DOMAIN buf, NEW x \in Key, x = buf[i].key
          PROVE  Written(x)' /\ buf[i].at = IF Index'[x] = None THEN None ELSE Index'[x].at
      <4>1. Written(x) /\ buf[i].at = IF Index[x] = None THEN None ELSE Index[x].at
        BY <3>1 DEF Inv, BufInv
      <4>2. x # k
        BY <2>5, <3>1
      <4>3. QED
        BY <1>6, <2>8, <4>1, <4>2
    <3>2. e.at = IF Index'[k] = None THEN None ELSE Index'[k].at
      BY <1>6, <1>7, <2>4
    <3>3. ASSUME NEW i \in DOMAIN buf', NEW x \in Key, x = buf'[i].key
          PROVE  Written(x)' /\ buf'[i].at = IF Index'[x] = None THEN None ELSE Index'[x].at
      <4>1. CASE i = Len(buf) + 1
        BY <2>2, <2>4, <2>9, <3>2, <3>3, <4>1
      <4>2. CASE i \in DOMAIN buf
        BY <2>2, <3>1, <3>3, <4>2
      <4>3. QED
        BY <2>3, <4>1, <4>2
    <3>4. \A i \in DOMAIN buf' : buf'[i].key \in Key
      BY <2>2, <2>3, <2>4, <2>5
    <3>5. ASSUME NEW i \in DOMAIN buf'
          PROVE  (Written(buf[i].key) /\
                  buf[i].at = IF Index[buf[i].key] = None THEN None ELSE Index[buf[i].key].at)'
      <4>1. PICK x \in Key : x = buf'[i].key
        BY <3>4
      <4>2. Written(x)' /\ buf'[i].at = IF Index'[x] = None THEN None ELSE Index'[x].at
        BY <3>3, <4>1
      <4>3. QED
        BY <4>1, <4>2 DEF Written, InFile
    <3>6. QED
      BY <3>5
  <2>11. QED
    BY <1>1, <2>6, <2>7, <2>10 DEF BufInv, Syncing
<1>20. PendInv'
  BY <1>1, <1>13, <1>15 DEF Inv, PendInv, Starting, Syncing
<1>21. QED
  BY <1>13, <1>14, <1>15, <1>16, <1>17, <1>18, <1>19, <1>20 DEF Inv

LEMMA BufSame ==
    ASSUME BufInv, UNCHANGED <<Index, dat, buf, DataSeq, PendingRecords>>,
           pc' \in Syncing, pc' # "rec" => InBuf = PendingRecords
    PROVE  BufInv'
BY DEF BufInv, Syncing, InBuf, Written, InFile

LEMMA LogCreateInv ==
    ASSUME Inv, LogCreate
    PROVE  Inv' /\ Durable' = Durable /\ Mem' = Mem
<1>1. /\ pc = "rec" /\ InBuf = PendingRecords
      /\ log' = IF logOpen THEN log ELSE [version |-> None, entries |-> <<>>]
      /\ pc' = IF logOpen THEN "append" ELSE "header"
      /\ UNCHANGED <<Index, PendingRecords, NoSyncMode, DataSeq, LogFile, VersionSequence, DatfileIndex,
                     logOpen, buf, after, dat, idxFile, changes, crashes>>
  BY DEF LogCreate, memVars
<1>2. /\ NewerIdx' = NewerIdx /\ NewerVersion' = NewerVersion /\ NewerPlaces' = NewerPlaces
      /\ \A i : Valid(i)' = Valid(i)
  BY <1>1, SameIdx
<1>3. IF logOpen THEN log # None /\ log.version = NewerVersion ELSE log = None
  BY <1>1 DEF Inv, LogInv, Defragmented
<1>4. ~logOpen => log' \in LogRec /\ log' # None /\ log'.version = None /\ log'.entries = <<>>
  <2>1. [version |-> None, entries |-> <<>>] \in LogRec
    BY DEF LogRec
  <2>2. QED
    BY <1>1, <2>1, QdbAssumption
<1>5. Named' = Named /\ DiskPlaces' = DiskPlaces
  <2>1. CASE logOpen
    BY <1>1, <1>2, <2>1, SameDisk
  <2>2. CASE ~logOpen
    <3>1. ~LogIsFor(NewerVersion)
      BY <1>3, <2>2 DEF LogIsFor
    <3>2. log'.entries = <<>>
      BY <1>4, <2>2
    <3>3. QED
      BY <1>2, <3>1, <3>2, NoLogCounts DEF Inv, TypeInv
  <2>3. QED
    BY <2>1, <2>2
<1>6. DataInv' /\ Durable' = Durable
  BY <1>1, <1>2, <1>5, SameData DEF Inv, TypeInv
<1>7. TypeInv'
  BY <1>1, <1>4 DEF Inv, TypeInv, TypeOK
<1>8. Mem' = Mem
  BY <1>1 DEF Mem
<1>9. VersionInv'
  BY <1>1, <1>2 DEF Inv, VersionInv, Defragmented, OtherIdx
<1>10. LogInv'
  BY <1>1, <1>2, <1>3, <1>4 DEF Inv, LogInv, Defragmented
<1>11. SeqInv'
  BY <1>1, <1>5 DEF Inv, SeqInv, Starting, Syncing, Defragmented
<1>12. BufInv'
  BY <1>1, BufSame DEF Inv, Syncing
<1>13. PendInv'
  BY <1>1, <1>6, <1>8 DEF Inv, PendInv, Starting, Syncing
<1>14. QED
  BY <1>6, <1>7, <1>8, <1>9, <1>10, <1>11, <1>12, <1>13 DEF Inv

LEMMA LogHeaderInv ==
    ASSUME Inv, LogHeader
    PROVE  Inv' /\ Durable' = Durable /\ Mem' = Mem
<1>1. /\ pc = "header" /\ pc' = "append" /\ logOpen' = TRUE
      /\ log' = [log EXCEPT !.version = VersionSequence]
      /\ UNCHANGED <<Index, PendingRecords, NoSyncMode, DataSeq, LogFile, VersionSequence, DatfileIndex,
                     buf, after, dat, idxFile, changes, crashes>>
  BY DEF LogHeader
<1>2. /\ NewerIdx' = NewerIdx /\ NewerVersion' = NewerVersion /\ NewerPlaces' = NewerPlaces
      /\ \A i : Valid(i)' = Valid(i)
  BY <1>1, SameIdx
<1>3. /\ log \in LogRec /\ log.version = None /\ log.entries = <<>>
      /\ VersionSequence = NewerVersion /\ VersionSequence \in 0..MaxVersion
  BY <1>1 DEF Inv, TypeInv, TypeOK, LogInv, VersionInv, Defragmented
<1>4. log' \in LogRec /\ log' # None /\ log'.version = NewerVersion /\ log'.entries = <<>>
  <2>1. log' \in LogRec /\ log'.version = NewerVersion /\ log'.entries = <<>>
    BY <1>1, <1>3 DEF LogRec
  <2>2. QED
    BY <2>1, QdbAssumption
<1>5. Named' = Named /\ DiskPlaces' = DiskPlaces
  BY <1>2, <1>3, <1>4, NoLogCounts DEF Inv, TypeInv
<1>6. DataInv' /\ Durable' = Durable
  BY <1>1, <1>2, <1>5, SameData DEF Inv, TypeInv
<1>7. TypeInv'
  <2>1. logOpen' \in BOOLEAN
    BY <1>1
  <2>2. QED
    BY <1>1, <1>4, <2>1 DEF Inv, TypeInv, TypeOK
<1>8. Mem' = Mem
  BY <1>1 DEF Mem
<1>9. VersionInv'
  BY <1>1, <1>2 DEF Inv, VersionInv, Defragmented, OtherIdx
<1>10. LogInv'
  <2>1. NewerVersion \in Nat /\ NewerVersion # None
    BY NewerFacts, QdbAssumption DEF Inv, TypeInv
  <2>2. QED
    BY <1>1, <1>2, <1>4, <2>1 DEF LogInv, Defragmented
<1>11. SeqInv'
  BY <1>1, <1>5 DEF Inv, SeqInv, Starting, Syncing, Defragmented
<1>12. BufInv'
  <2>1. InBuf = PendingRecords
    BY <1>1 DEF Inv, BufInv
  <2>2. QED
    BY <1>1, <2>1, BufSame DEF Inv, Syncing
<1>13. PendInv'
  BY <1>1, <1>6, <1>8 DEF Inv, PendInv, Starting, Syncing
<1>14. QED
  BY <1>6, <1>7, <1>8, <1>9, <1>10, <1>11, <1>12, <1>13 DEF Inv

\* writebuf: with the entries of one sync the disk has what the memory has.
LEMMA LogAppendInv ==
    ASSUME Inv, LogAppend
    PROVE  Inv' /\ Durable' = Mem /\ Mem' = Mem
<1>1. /\ pc = "append" /\ PendingRecords' = {} /\ buf' = <<>>
      /\ log' = [log EXCEPT !.entries = log.entries \o buf]
      /\ pc' \in {after, "defrag"}
      /\ pc' = "defrag" => VersionSequence < MaxVersion \/ after = "defrag"
      /\ UNCHANGED <<Index, NoSyncMode, DataSeq, LogFile, VersionSequence, DatfileIndex, logOpen, after,
                     dat, idxFile, changes, crashes>>
  BY DEF LogAppend
<1>2. after \in {"idle", "close"} /\ pc' \in {"idle", "close", "defrag"}
  BY <1>1 DEF Inv, TypeInv, TypeOK
<1>3. /\ NewerIdx' = NewerIdx /\ NewerVersion' = NewerVersion /\ NewerPlaces' = NewerPlaces
      /\ \A i : Valid(i)' = Valid(i)
  BY <1>1, SameIdx
<1>4. NewerVersion \in Nat /\ NewerVersion # None /\ NewerPlaces \in [Key -> Place \cup {None}]
  BY NewerFacts, QdbAssumption DEF Inv, TypeInv
<1>5. log \in LogRec /\ log.version = NewerVersion /\ logOpen /\ LogIsFor(NewerVersion)
  BY <1>1 DEF Inv, TypeInv, TypeOK, LogInv, LogIsFor, Defragmented
<1> DEFINE es == log.entries
<1>6. es \in Seq(Entry) /\ buf \in Seq(Entry)
  BY <1>5 DEF LogRec, Inv, TypeInv, TypeOK
<1>7. log' \in LogRec /\ log' # None /\ log'.version = NewerVersion /\ log'.entries = es \o buf
  <2>1. es \o buf \in Seq(Entry)
    BY <1>6
  <2>2. log' \in LogRec /\ log'.version = NewerVersion /\ log'.entries = es \o buf
    BY <1>1, <1>5, <2>1 DEF LogRec
  <2>3. QED
    BY <2>2, QdbAssumption
<1>8. LogIsFor(NewerVersion)'
  BY <1>3, <1>7 DEF LogIsFor
<1>9. /\ DiskPlaces = Applied(NewerPlaces, es)
      /\ DiskPlaces' = Applied(NewerPlaces, es \o buf)
      /\ Named = ({NewerPlaces[k] : k \in Key} \cup {es[i].at : i \in DOMAIN es}) \ {None}
      /\ Named' = ({NewerPlaces[k] : k \in Key} \cup {(es \o buf)[i].at : i \in DOMAIN (es \o buf)}) \ {None}
  BY <1>3, <1>5, <1>7, <1>8 DEF DiskPlaces, Named, Applied, EntriesOf
<1> HIDE DEF es
<1>10. \A i \in DOMAIN (es \o buf) :
          \/ i \in DOMAIN es /\ (es \o buf)[i] = es[i]
          \/ \E j \in DOMAIN buf : (es \o buf)[i] = buf[j]
  <2>1. ASSUME NEW i \in DOMAIN (es \o buf), i \notin DOMAIN es
        PROVE  \E j \in DOMAIN buf : (es \o buf)[i] = buf[j]
    <3>1. i - Len(es) \in DOMAIN buf /\ (es \o buf)[i] = buf[i - Len(es)]
      BY <1>6, <2>1
    <3>2. QED
      BY <3>1
  <2>2. \A i \in DOMAIN es : (es \o buf)[i] = es[i]
    BY <1>6
  <2>3. QED
    BY <2>1, <2>2
<1>11. \A p \in Named' : p \in Named \/ \E j \in DOMAIN buf : p = buf[j].at /\ p # None
  BY <1>9, <1>10
<1>12. \A j \in DOMAIN buf : /\ buf[j].key \in Key /\ Written(buf[j].key)
                             /\ buf[j].at = IF Index[buf[j].key] = None THEN None ELSE Index[buf[j].key].at
                             /\ Index[buf[j].key] # None => buf[j].at \in Place /\ buf[j].at # None
  <2>1. \A j \in DOMAIN buf : buf[j] \in Entry
    BY <1>6
  <2>2. \A j \in DOMAIN buf : buf[j].key \in Key
    BY <2>1 DEF Entry
  <2>3. \A k \in Key : Index[k] # None => Index[k].at \in Place /\ Index[k].at # None
    BY QdbAssumption DEF Inv, TypeInv, TypeOK, Rec
  <2>4. QED
    BY <2>2, <2>3 DEF Inv, BufInv
<1>13. DataSeq <= 2 * NewerVersion + changes
  BY <1>1 DEF Inv, SeqInv, PendInv, VersionInv, Starting, Syncing, Defragmented
<1>14. \A p \in Named' : InFile(p) /\ p.seq <= DataSeq /\ p.seq <= 2 * NewerVersion + changes
  <2>1. ASSUME NEW j \in DOMAIN buf, buf[j].at # None
        PROVE  InFile(buf[j].at) /\ buf[j].at.seq = DataSeq
    BY <1>12, <2>1 DEF Written
  <2>2. \A p \in Named : InFile(p) /\ p.seq <= DataSeq /\ p.seq <= 2 * NewerVersion + changes
    BY <1>1 DEF Inv, DataInv, SeqInv, Starting
  <2>3. DataSeq <= DataSeq
    BY DEF Inv, TypeInv, TypeOK, Number
  <2>4. QED
    BY <1>11, <1>13, <2>1, <2>2, <2>3
<1>15. DataInv'
  BY <1>1, <1>3, <1>14 DEF DataInv, InFile
<1>16. Durable' = Mem
  <2>1. ASSUME NEW k \in Key PROVE Durable'[k] = Mem[k]
    <3>1. Durable'[k] = IF DiskPlaces'[k] = None THEN None ELSE ValueAt(DiskPlaces'[k])
      BY <1>1 DEF Durable, ValueAt
    <3>2. /\ \A i \in DOMAIN buf : Applied(NewerPlaces, es \o buf)[buf[i].key] = buf[i].at
          /\ (\A i \in DOMAIN buf : buf[i].key # k) => DiskPlaces'[k] = DiskPlaces[k]
      <4>1. \A i, j \in DOMAIN buf : buf[i].key = buf[j].key => i = j
        BY DEF Inv, BufInv
      <4>2. QED
        BY <1>4, <1>6, <1>9, <4>1, AppliedMore
    <3>3. ASSUME NEW j \in DOMAIN buf, buf[j].key = k PROVE Durable'[k] = Mem[k]
      <4>1. DiskPlaces'[k] = IF Index[k] = None THEN None ELSE Index[k].at
        BY <1>9, <1>12, <3>2, <3>3
      <4>2. CASE Index[k] = None
        BY <3>1, <4>1, <4>2 DEF Mem
      <4>3. CASE Index[k] # None
        <5>1. /\ Index[k].at \in Place /\ Index[k].at # None /\ InFile(Index[k].at)
              /\ dat[Index[k].at.seq][Index[k].at.pos] = Index[k].val
          BY <1>12, <3>3, <4>3 DEF Written
        <5>2. ValueAt(Index[k].at) = Index[k].val
          BY <5>1, InFileVal DEF Inv, TypeInv
        <5>3. QED
          BY <3>1, <4>1, <4>3, <5>1, <5>2 DEF Mem
      <4>4. QED
        BY <4>2, <4>3
    <3>4. CASE \A i \in DOMAIN buf : buf[i].key # k
      <4>1. k \notin PendingRecords
        BY <1>1, <3>4 DEF Inv, BufInv, InBuf
      <4>2. Mem[k] = Durable[k]
        BY <1>1, <4>1 DEF Inv, PendInv, Starting
      <4>3. Durable[k] = IF DiskPlaces[k] = None THEN None ELSE ValueAt(DiskPlaces[k])
        BY DEF Durable
      <4>4. QED
        BY <3>1, <3>2, <3>4, <4>2, <4>3
    <3>5. QED
      BY <3>3, <3>4
  <2>2. QED
    BY <2>1 DEF Durable, Mem
<1>17. Mem' = Mem
  BY <1>1 DEF Mem
<1>18. TypeInv'
  <2>1. buf' \in Seq(Entry) /\ PendingRecords' \subseteq Key
    BY <1>1
  <2>2. QED
    BY <1>1, <1>2, <1>7, <2>1 DEF Inv, TypeInv, TypeOK
<1>19. VersionInv'
  BY <1>1, <1>2, <1>3 DEF Inv, VersionInv, Defragmented, OtherIdx
<1>20. LogInv'
  BY <1>1, <1>2, <1>3, <1>4, <1>5, <1>7 DEF LogInv, Defragmented
<1>21. SeqInv'
  BY <1>1, <1>2, <1>14 DEF Inv, SeqInv, Starting, Syncing, Defragmented
<1>22. BufInv'
  BY <1>1, <1>2 DEF BufInv, InBuf, Syncing
<1>23. PendInv'
  BY <1>1, <1>2, <1>16, <1>17 DEF Inv, PendInv, Starting, Syncing
<1>24. QED
  BY <1>15, <1>16, <1>17, <1>18, <1>19, <1>20, <1>21, <1>22, <1>23 DEF Inv

\* defrag: all records in a new data file, which nothing on disk names yet.
LEMMA DefragDataInv ==
    ASSUME Inv, DefragData
    PROVE  Inv' /\ Durable' = Durable /\ Mem' = Mem
<1>1. /\ pc = "defrag" /\ pc' = "create" /\ DataSeq' = DataSeq + 1 /\ LogFile' = TRUE
      /\ UNCHANGED <<PendingRecords, NoSyncMode, VersionSequence, DatfileIndex, logOpen, buf, after,
                     idxFile, log, changes, crashes>>
  BY DEF DefragData
<1> DEFINE n == Cardinality(Records)
<1>2. PICK ks \in Bijection(1..n, Records) :
         /\ dat' = [dat EXCEPT ![DataSeq + 1] = [i \in DOMAIN ks |-> Index[ks[i]].val]]
         /\ Index' = [k \in Key |-> IF Index[k] = None THEN None
                        ELSE [val |-> Index[k].val,
                              at |-> [seq |-> DataSeq + 1, pos |-> CHOOSE i \in DOMAIN ks : ks[i] = k]]]
  BY DEF DefragData
<1>3. n \in Nat
  <2>1. Records \subseteq Key /\ IsFiniteSet(Key)
    BY QdbAssumption DEF Records
  <2>2. IsFiniteSet(Records)
    BY <2>1, FS_Subset
  <2>3. QED
    BY <2>2, FS_CardinalityType
<1> HIDE DEF n
<1>4. /\ DOMAIN ks = 1..n /\ \A i \in 1..n : ks[i] \in Key /\ Index[ks[i]] # None
      /\ \A k \in Key : Index[k] # None => \E i \in 1..n : ks[i] = k
  BY <1>2 DEF Bijection, Injection, Surjection, Records
<1> DEFINE P(k) == CHOOSE i \in DOMAIN ks : ks[i] = k
           new == [i \in DOMAIN ks |-> Index[ks[i]].val]
<1>5. \A k \in Key : Index[k] # None => P(k) \in 1..n /\ ks[P(k)] = k
  BY <1>4
<1>6. \A k \in Key : Index[k] # None => Index[k] \in Rec /\ Index[k].val \in Val
  BY DEF Inv, TypeInv, TypeOK, Rec
<1>7. /\ new \in Seq(Val) /\ DOMAIN new = 1..n /\ new # None
      /\ \A i \in 1..n : new[i] = Index[ks[i]].val
  <2>1. new \in [1..n -> Val]
    BY <1>4, <1>6
  <2>2. new \in Seq(Val)
    BY <1>3, <2>1
  <2>3. QED
    BY <1>4, <2>2, QdbAssumption
<1>8. DataSeq \in Nat /\ DataSeq \in Number /\ DataSeq + 1 \in Number /\ DataSeq <= 2 * VersionSequence + changes + 1
  <2>1. /\ DataSeq \in Number /\ DataSeq \in Nat /\ VersionSequence \in Nat /\ changes \in Nat
        /\ VersionSequence < MaxVersion /\ changes <= MaxChanges
        /\ DataSeq <= 2 * VersionSequence + changes + 1
    BY <1>1 DEF Inv, TypeInv, TypeOK, Number, VersionInv, SeqInv, Starting
  <2>2. MaxVersion \in Nat /\ MaxChanges \in Nat /\ MaxCrash \in Nat
    BY QdbAssumption
  <2>3. DataSeq + 1 <= 2 * MaxVersion + MaxCrash + MaxChanges + 1
    BY <2>1, <2>2
  <2>4. QED
    BY <2>1, <2>3 DEF Number
<1>9. /\ dat' = [dat EXCEPT ![DataSeq + 1] = new]
      /\ \A k \in Key : Index'[k] = IF Index[k] = None THEN None
                                    ELSE [val |-> Index[k].val, at |-> [seq |-> DataSeq + 1, pos |-> P(k)]]
      /\ Index' = [k \in Key |-> Index'[k]]
  BY <1>2
<1> HIDE DEF new, P
<1>10. /\ dat' \in [Number -> Seq(Val) \cup {None}] /\ dat'[DataSeq + 1] = new
       /\ \A m \in Number : m # DataSeq + 1 => dat'[m] = dat[m]
  BY <1>7, <1>8, <1>9 DEF Inv, TypeInv, TypeOK
<1>11. \A k \in Key : Index[k] # None =>
          /\ Index'[k] \in Rec /\ Index'[k] # None
          /\ Index'[k].val = Index[k].val /\ Index'[k].at.seq = DataSeq + 1 /\ Index'[k].at.pos = P(k)
  <2>1. ASSUME NEW k \in Key, Index[k] # None
        PROVE  /\ [val |-> Index[k].val, at |-> [seq |-> DataSeq + 1, pos |-> P(k)]] \in Rec
               /\ [val |-> Index[k].val, at |-> [seq |-> DataSeq + 1, pos |-> P(k)]] # None
    <3>1. P(k) \in Nat /\ Index[k].val \in Val
      BY <1>5, <1>6, <2>1
    <3>2. [val |-> Index[k].val, at |-> [seq |-> DataSeq + 1, pos |-> P(k)]] \in Rec
      BY <1>8, <3>1 DEF Rec, Place
    <3>3. QED
      BY <3>2, QdbAssumption
  <2>2. QED
    BY <1>9, <2>1
<1>12. /\ NewerIdx' = NewerIdx /\ NewerVersion' = NewerVersion /\ NewerPlaces' = NewerPlaces
       /\ \A i : Valid(i)' = Valid(i)
  BY <1>1, SameIdx
<1>13. Named' = Named /\ DiskPlaces' = DiskPlaces
  BY <1>1, <1>12, SameDisk
<1>14. \A p \in Named : p.seq \in Number /\ p.seq \in Nat /\ InFile(p) /\ p.seq <= DataSeq
  BY <1>1, DiskFacts DEF Place, Number, Inv, TypeInv, DataInv, SeqInv, Starting
<1>15. \A p \in Named : dat'[p.seq] = dat[p.seq] /\ p.seq < DataSeq + 1 /\ p.seq <= DataSeq + 1
  BY <1>8, <1>10, <1>14
<1>16. DataInv' /\ Durable' = Durable
  <2>1. \A p \in Named : /\ dat'[p.seq] # None
                         /\ \A i \in DOMAIN dat[p.seq] : i \in DOMAIN dat'[p.seq] /\ dat'[p.seq][i] = dat[p.seq][i]
    BY <1>14, <1>15 DEF InFile
  <2>2. QED
    BY <1>1, <1>12, <1>13, <2>1, DataKept DEF Inv, TypeInv
<1>17. TypeInv'
  <2>1. \A k \in Key : Index'[k] \in Rec \cup {None}
    BY <1>9, <1>11
  <2>2. Index' \in [Key -> Rec \cup {None}]
    BY <1>9, <2>1
  <2>3. LogFile' \in BOOLEAN
    BY <1>1
  <2>4. QED
    BY <1>1, <1>8, <1>10, <2>2, <2>3 DEF Inv, TypeInv, TypeOK
<1>18. Mem' = Mem
  <2>1. \A k \in Key : Mem'[k] = Mem[k]
    BY <1>9, <1>11 DEF Mem
  <2>2. QED
    BY <2>1 DEF Mem
<1>19. VersionInv'
  BY <1>1, <1>12 DEF Inv, VersionInv, Defragmented, OtherIdx
<1>20. LogInv'
  BY <1>1, <1>12 DEF Inv, LogInv, Defragmented
<1>21. SeqInv'
  <2>1. DataSeq + 1 <= 2 * VersionSequence + changes + 2
    BY <1>8 DEF Inv, TypeInv, TypeOK
  <2>2. QED
    BY <1>1, <1>7, <1>10, <1>13, <1>15, <2>1 DEF SeqInv, Starting, Syncing, Defragmented
<1>22. BufInv'
  <2>1. buf = <<>>
    BY <1>1 DEF Inv, BufInv, Syncing
  <2>2. ASSUME NEW k \in Key PROVE Written(k)'
    <3>1. CASE Index[k] = None
      BY <1>9, <3>1 DEF Written
    <3>2. CASE Index[k] # None
      <4>1. P(k) \in DOMAIN new /\ new[P(k)] = Index[k].val
        BY <1>5, <1>7, <3>2
      <4>2. QED
        BY <1>1, <1>7, <1>10, <1>11, <3>2, <4>1 DEF Written, InFile
    <3>3. QED
      BY <3>1, <3>2
  <2>3. QED
    BY <1>1, <2>1, <2>2 DEF BufInv, InBuf, Syncing
<1>23. PendInv'
  BY <1>1, <1>16, <1>18 DEF Inv, PendInv, Starting, Syncing
<1>24. QED
  BY <1>16, <1>17, <1>18, <1>19, <1>20, <1>21, <1>22, <1>23 DEF Inv

\* writedatfile creates the index file that is not in use.
LEMMA IdxCreateInv ==
    ASSUME Inv, IdxCreate
    PROVE  Inv' /\ Durable' = Durable /\ Mem' = Mem
<1>1. /\ pc = "create" /\ pc' = "index" /\ VersionSequence' = VersionSequence + 1
      /\ UNCHANGED <<Index, PendingRecords, NoSyncMode, DataSeq, LogFile, logOpen, buf, after, dat, log,
                     changes, crashes>>
  BY DEF IdxCreate
<1>2. /\ DatfileIndex \in 0..1 /\ VersionSequence \in Nat /\ VersionSequence + 1 \in 1..MaxVersion
      /\ VersionSequence = NewerVersion /\ ~Valid(OtherIdx)
      /\ NewerIdx # None => DatfileIndex = NewerIdx
  BY <1>1, QdbAssumption DEF Inv, TypeInv, TypeOK, VersionInv
<1>3. PICK j \in 0..1 : j = OtherIdx /\ j # DatfileIndex
  BY <1>2 DEF OtherIdx
<1> DEFINE x == [whole |-> FALSE, version |-> VersionSequence + 1, places |-> NoIndex]
<1>4. DatfileIndex' = j /\ idxFile' = [idxFile EXCEPT ![j] = x]
  BY <1>1, <1>3 DEF IdxCreate
<1>5. x \in IdxRec /\ ~x.whole
  BY <1>2 DEF IdxRec, NoIndex
<1> HIDE DEF x
<1>6. j # NewerIdx
  BY <1>2, <1>3, NewerFacts DEF Inv, TypeInv
<1>7. /\ NewerIdx' = NewerIdx /\ NewerVersion' = NewerVersion /\ NewerPlaces' = NewerPlaces
      /\ ~Valid(j)'
  BY <1>4, <1>5, <1>6, IdxKept DEF Inv, TypeInv
<1>8. Named' = Named /\ DiskPlaces' = DiskPlaces
  BY <1>1, <1>7, SameDisk
<1>9. DataInv' /\ Durable' = Durable
  BY <1>1, <1>7, <1>8, SameData DEF Inv, TypeInv
<1>10. TypeInv'
  <2>1. idxFile' \in [0..1 -> IdxRec \cup {None}] /\ VersionSequence' \in 0..MaxVersion /\ DatfileIndex' \in 0..1
    BY <1>1, <1>2, <1>4, <1>5 DEF Inv, TypeInv, TypeOK
  <2>2. QED
    BY <1>1, <2>1 DEF Inv, TypeInv, TypeOK
<1>11. Mem' = Mem
  BY <1>1 DEF Mem
<1>12. VersionInv'
  <2>1. ~Valid(DatfileIndex)'
    BY <1>4, <1>7 DEF Valid
  <2>2. QED
    BY <1>1, <1>2, <1>7, <2>1 DEF Inv, VersionInv, Defragmented
<1>13. LogInv'
  BY <1>1, <1>7 DEF Inv, LogInv, Defragmented
<1>14. SeqInv'
  <2>1. DataSeq \in Nat /\ changes \in Nat /\ DataSeq <= 2 * VersionSequence + changes + 2
    BY <1>1 DEF Inv, TypeInv, TypeOK, Number, SeqInv, Starting
  <2>2. DataSeq <= 2 * (VersionSequence + 1) + changes
    BY <1>2, <2>1
  <2>3. DataSeq <= 2 * (VersionSequence + 1) + changes + 1
    BY <1>2, <2>1
  <2>4. QED
    BY <1>1, <1>8, <2>2, <2>3 DEF Inv, SeqInv, Starting, Syncing, Defragmented
<1>15. BufInv'
  BY <1>1, NoBuf DEF Inv, BufInv, InBuf, Syncing, Written, InFile
<1>16. PendInv'
  BY <1>1, <1>9, <1>11 DEF Inv, PendInv, Starting, Syncing
<1>17. QED
  BY <1>9, <1>10, <1>11, <1>12, <1>13, <1>14, <1>15, <1>16 DEF Inv

\* With the end marker the new index file counts, and the old log does not.
LEMMA IdxWriteInv ==
    ASSUME Inv, IdxWrite
    PROVE  Inv' /\ Durable' = Mem /\ Mem' = Mem
<1>1. /\ pc = "index" /\ pc' = "rmlog"
      /\ UNCHANGED <<Index, PendingRecords, NoSyncMode, DataSeq, LogFile, VersionSequence, DatfileIndex,
                     logOpen, buf, after, dat, log, changes, crashes>>
  BY DEF IdxWrite, memVars
<1>2. /\ DatfileIndex \in 0..1 /\ VersionSequence \in 0..MaxVersion
      /\ VersionSequence = NewerVersion + 1 /\ ~Valid(DatfileIndex) /\ NewerVersion \in Nat
  BY <1>1, NewerFacts DEF Inv, TypeInv, TypeOK, VersionInv
<1>3. PICK j \in 0..1 : j = DatfileIndex
  BY <1>2
<1> DEFINE x == [whole |-> TRUE, version |-> VersionSequence, places |-> Places]
<1>4. idxFile' = [idxFile EXCEPT ![j] = x]
  BY <1>3 DEF IdxWrite
<1>5. \A k \in Key : Index[k] # None =>
         /\ Index[k].at \in Place /\ Index[k].at # None /\ InFile(Index[k].at)
         /\ Index[k].at.seq = DataSeq /\ ValueAt(Index[k].at) = Index[k].val
  <2>1. \A k \in Key : Index[k] # None => Index[k].at \in Place /\ Index[k].at # None
    BY QdbAssumption DEF Inv, TypeInv, TypeOK, Rec
  <2>2. \A k \in Key : Index[k] # None =>
           /\ InFile(Index[k].at) /\ Index[k].at.seq = DataSeq
           /\ dat[Index[k].at.seq][Index[k].at.pos] = Index[k].val
    BY <1>1 DEF Inv, BufInv, Written
  <2>3. QED
    BY <2>1, <2>2, InFileVal DEF Inv, TypeInv
<1>6. /\ Places \in [Key -> Place \cup {None}]
      /\ \A k \in Key : Places[k] = IF Index[k] = None THEN None ELSE Index[k].at
  BY <1>5 DEF Places
<1>7. /\ x \in IdxRec /\ x # None /\ x.whole /\ x.version = VersionSequence /\ x.places = Places
  <2>1. VersionSequence \in 1..MaxVersion
    BY <1>2
  <2>2. x \in IdxRec
    BY <1>6, <2>1 DEF IdxRec
  <2>3. QED
    BY <2>2, QdbAssumption
<1> HIDE DEF x
<1>8. /\ idxFile'[j] = x /\ idxFile'[1 - j] = idxFile[1 - j]
      /\ Valid(j)' /\ (idxFile[1 - j] # None /\ idxFile[1 - j].whole => idxFile[1 - j].version < VersionSequence)
  <2>1. idxFile'[j] = x /\ idxFile'[1 - j] = idxFile[1 - j]
    BY <1>4 DEF Inv, TypeInv, TypeOK
  <2>2. Valid(j)'
    BY <1>7, <2>1 DEF Valid
  <2>3. ASSUME Valid(1 - j) PROVE idxFile[1 - j].version < VersionSequence
    <3>1. NewerIdx = 1 - j
      BY <1>2, <1>3, <2>3 DEF NewerIdx
    <3>2. NewerVersion = idxFile[1 - j].version
      BY <3>1, NewerFacts DEF Inv, TypeInv
    <3>3. QED
      BY <1>2, <3>2
  <2>4. QED
    BY <2>1, <2>2, <2>3 DEF Valid
<1>9. NewerIdx' = j /\ NewerVersion' = VersionSequence /\ NewerPlaces' = Places
  <2>1. NewerIdx' = j
    <3>1. CASE j = 0
      <4>1. idxFile'[0].version = VersionSequence /\ (Valid(1)' => idxFile'[1].version < VersionSequence)
        BY <1>7, <1>8, <3>1 DEF Valid
      <4>2. Valid(1)' => idxFile'[0].version >= idxFile'[1].version
        <5>1. Valid(1)' => idxFile'[1].version \in Nat
          BY <1>8, <3>1 DEF Inv, TypeInv, TypeOK, IdxRec, Valid
        <5>2. QED
          BY <1>2, <4>1, <5>1
      <4>3. QED
        BY <1>8, <3>1, <4>2 DEF NewerIdx
    <3>2. CASE j = 1
      <4>1. idxFile'[1].version = VersionSequence /\ (Valid(0)' => idxFile'[0].version < VersionSequence)
        BY <1>7, <1>8, <3>2 DEF Valid
      <4>2. Valid(0)' => ~(idxFile'[0].version >= idxFile'[1].version)
        <5>1. Valid(0)' => idxFile'[0].version \in Nat
          BY <1>8, <3>2 DEF Inv, TypeInv, TypeOK, IdxRec, Valid
        <5>2. QED
          BY <1>2, <4>1, <5>1
      <4>3. QED
        BY <1>8, <3>2, <4>2 DEF NewerIdx
    <3>3. QED
      BY <3>1, <3>2
  <2>2. j # None
    BY QdbAssumption
  <2>3. QED
    BY <1>7, <1>8, <2>1, <2>2 DEF NewerVersion, NewerPlaces
<1>10. log # None => log.version = NewerVersion /\ log.version < VersionSequence /\ log.version # None
  <2>1. log # None => log.version = NewerVersion
    BY <1>1 DEF Inv, LogInv, Defragmented
  <2>2. QED
    BY <1>2, <2>1, QdbAssumption
<1>11. ~LogIsFor(NewerVersion)'
  BY <1>1, <1>2, <1>9, <1>10 DEF LogIsFor
<1>12. Named' = {Places[k] : k \in Key} \ {None} /\ DiskPlaces' = Places
  BY <1>9, <1>11 DEF Named, DiskPlaces
<1>13. \A p \in Named' : InFile(p) /\ p.seq = DataSeq
  BY <1>5, <1>6, <1>12
<1>14. LogFile /\ DataSeq \in Nat /\ DataSeq <= 2 * VersionSequence + changes
  BY <1>1 DEF Inv, SeqInv, Starting, TypeInv, TypeOK, Number
<1>15. DataInv'
  BY <1>1, <1>9, <1>13, <1>14 DEF DataInv, InFile
<1>16. Durable' = Mem
  <2>1. ASSUME NEW k \in Key PROVE Durable'[k] = Mem[k]
    <3>1. Durable'[k] = IF Places[k] = None THEN None ELSE ValueAt(Places[k])
      BY <1>1, <1>12 DEF Durable, ValueAt
    <3>2. QED
      BY <1>5, <1>6, <3>1 DEF Mem
  <2>2. QED
    BY <2>1 DEF Durable, Mem
<1>17. Mem' = Mem
  BY <1>1 DEF Mem
<1>18. TypeInv'
  <2>1. idxFile' \in [0..1 -> IdxRec \cup {None}]
    BY <1>4, <1>7 DEF Inv, TypeInv, TypeOK
  <2>2. QED
    BY <1>1, <2>1 DEF Inv, TypeInv, TypeOK
<1>19. VersionInv'
  <2>1. j # None /\ VersionSequence > 0
    BY <1>2, QdbAssumption
  <2>2. QED
    BY <1>1, <1>3, <1>9, <2>1 DEF VersionInv, Defragmented
<1>20. LogInv'
  BY <1>1, <1>2, <1>9, <1>10 DEF LogInv, Defragmented
<1>21. SeqInv'
  <2>1. dat[DataSeq] # None /\ DataSeq <= 2 * VersionSequence + changes + 1 /\ DataSeq <= DataSeq
    BY <1>1, <1>14 DEF Inv, SeqInv, Starting
  <2>2. QED
    BY <1>1, <1>13, <1>14, <2>1 DEF SeqInv, Starting, Syncing, Defragmented
<1>22. BufInv'
  BY <1>1, NoBuf DEF Inv, BufInv, InBuf, Syncing
<1>23. PendInv'
  BY <1>1, <1>16, <1>17 DEF Inv, PendInv, Starting, Syncing
<1>24. QED
  BY <1>15, <1>16, <1>17, <1>18, <1>19, <1>20, <1>21, <1>22, <1>23 DEF Inv

LEMMA RemoveLogInv ==
    ASSUME Inv, RemoveLog
    PROVE  Inv' /\ Durable' = Durable /\ Mem' = Mem
<1>1. /\ pc = "rmlog" /\ pc' = "rmidx" /\ logOpen' = FALSE /\ log' = None
      /\ UNCHANGED <<Index, PendingRecords, NoSyncMode, DataSeq, LogFile, VersionSequence, DatfileIndex,
                     buf, after, dat, idxFile, changes, crashes>>
  BY DEF RemoveLog
<1>2. /\ NewerIdx' = NewerIdx /\ NewerVersion' = NewerVersion /\ NewerPlaces' = NewerPlaces
      /\ \A i : Valid(i)' = Valid(i)
  BY <1>1, SameIdx
<1>3. ~LogIsFor(NewerVersion)
  <2>1. NewerVersion \in Nat
    BY NewerFacts DEF Inv, TypeInv
  <2>2. log # None => log.version # NewerVersion
    BY <1>1, <2>1 DEF Inv, LogInv
  <2>3. QED
    BY <1>1, <2>2, LogVersion
<1>4. ~LogIsFor(NewerVersion)'
  BY <1>1 DEF LogIsFor
<1>5. Named' = Named /\ DiskPlaces' = DiskPlaces
  BY <1>2, <1>3, <1>4, NoLogCounts DEF Inv, TypeInv
<1>6. DataInv' /\ Durable' = Durable
  BY <1>1, <1>2, <1>5, SameData DEF Inv, TypeInv
<1>7. TypeInv'
  <2>1. logOpen' \in BOOLEAN
    BY <1>1
  <2>2. QED
    BY <1>1, <2>1 DEF Inv, TypeInv, TypeOK
<1>8. Mem' = Mem
  BY <1>1 DEF Mem
<1>9. VersionInv'
  BY <1>1, <1>2 DEF Inv, VersionInv, Defragmented, OtherIdx
<1>10. LogInv'
  BY <1>1 DEF LogInv, Defragmented
<1>11. SeqInv'
  BY <1>1, <1>5 DEF Inv, SeqInv, Starting, Syncing, Defragmented
<1>12. BufInv'
  BY <1>1, NoBuf DEF Inv, BufInv, InBuf, Syncing
<1>13. PendInv'
  BY <1>1, <1>6, <1>8 DEF Inv, PendInv, Starting, Syncing
<1>14. QED
  BY <1>6, <1>7, <1>8, <1>9, <1>10, <1>11, <1>12, <1>13 DEF Inv

LEMMA RemoveIdxInv ==
    ASSUME Inv, RemoveIdx
    PROVE  Inv' /\ Durable' = Durable /\ Mem' = Mem
<1>1. /\ pc = "rmidx" /\ pc' = "clean"
      /\ UNCHANGED <<Index, PendingRecords, NoSyncMode, DataSeq, LogFile, VersionSequence, DatfileIndex,
                     logOpen, buf, after, dat, log, changes, crashes>>
  BY DEF RemoveIdx, memVars
<1>2. DatfileIndex \in 0..1 /\ NewerIdx # None /\ DatfileIndex = NewerIdx /\ log = None
  BY <1>1 DEF Inv, TypeInv, TypeOK, VersionInv, LogInv, Defragmented
<1>3. PICK j \in 0..1 : j = OtherIdx /\ j # NewerIdx
  BY <1>2 DEF OtherIdx
<1>4. idxFile' = [idxFile EXCEPT ![j] = None] /\ OtherIdx' = j
  BY <1>1, <1>3 DEF RemoveIdx, OtherIdx
<1>5. /\ NewerIdx' = NewerIdx /\ NewerVersion' = NewerVersion /\ NewerPlaces' = NewerPlaces
      /\ ~Valid(j)'
  BY <1>3, <1>4, IdxKept DEF Inv, TypeInv
<1>6. Named' = Named /\ DiskPlaces' = DiskPlaces
  BY <1>1, <1>5, SameDisk
<1>7. DataInv' /\ Durable' = Durable
  BY <1>1, <1>5, <1>6, SameData DEF Inv, TypeInv
<1>8. TypeInv'
  <2>1. idxFile' \in [0..1 -> IdxRec \cup {None}]
    BY <1>4 DEF Inv, TypeInv, TypeOK
  <2>2. QED
    BY <1>1, <2>1 DEF Inv, TypeInv, TypeOK
<1>9. Mem' = Mem
  BY <1>1 DEF Mem
<1>10. VersionInv'
  <2>1. ~Valid(OtherIdx)'
    BY <1>4, <1>5 DEF Valid
  <2>2. QED
    BY <1>1, <1>2, <1>5, <2>1 DEF Inv, VersionInv, Defragmented
<1>11. LogInv'
  BY <1>1, <1>2 DEF Inv, LogInv, Defragmented
<1>12. SeqInv'
  BY <1>1, <1>6 DEF Inv, SeqInv, Starting, Syncing, Defragmented
<1>13. BufInv'
  BY <1>1, NoBuf DEF Inv, BufInv, InBuf, Syncing
<1>14. PendInv'
  BY <1>1, <1>7, <1>9 DEF Inv, PendInv, Starting, Syncing
<1>15. QED
  BY <1>7, <1>8, <1>9, <1>10, <1>11, <1>12, <1>13, <1>14 DEF Inv

\* cleanupold removes no file that is named.
LEMMA CleanupOldInv ==
    ASSUME Inv, CleanupOld
    PROVE  Inv' /\ Durable' = Durable /\ Mem' = Mem
<1>1. /\ pc = "clean" /\ pc' = after
      /\ dat' = [n \in Number |-> IF n = DataSeq THEN dat[n] ELSE None]
      /\ UNCHANGED <<Index, PendingRecords, NoSyncMode, DataSeq, LogFile, VersionSequence, DatfileIndex,
                     logOpen, buf, after, idxFile, log, changes, crashes>>
  BY DEF CleanupOld, memVars
<1>2. /\ after \in {"idle", "close"} /\ DataSeq \in Number /\ LogFile /\ dat[DataSeq] # None
      /\ after = "close" => PendingRecords = {}
  BY <1>1 DEF Inv, TypeInv, TypeOK, SeqInv, PendInv, Starting, Syncing, Defragmented
<1>3. /\ NewerIdx' = NewerIdx /\ NewerVersion' = NewerVersion /\ NewerPlaces' = NewerPlaces
      /\ \A i : Valid(i)' = Valid(i)
  BY <1>1, SameIdx
<1>4. Named' = Named /\ DiskPlaces' = DiskPlaces
  BY <1>1, <1>3, SameDisk
<1>5. \A p \in Named : p.seq = DataSeq /\ InFile(p)
  BY <1>1 DEF Inv, SeqInv, DataInv, Defragmented
<1>6. dat'[DataSeq] = dat[DataSeq] /\ dat' \in [Number -> Seq(Val) \cup {None}]
  BY <1>1, <1>2 DEF Inv, TypeInv, TypeOK
<1>7. DataInv' /\ Durable' = Durable
  <2>1. \A p \in Named : /\ dat'[p.seq] # None
                         /\ \A i \in DOMAIN dat[p.seq] : i \in DOMAIN dat'[p.seq] /\ dat'[p.seq][i] = dat[p.seq][i]
    BY <1>5, <1>6 DEF InFile
  <2>2. QED
    BY <1>1, <1>3, <1>4, <2>1, DataKept DEF Inv, TypeInv
<1>8. TypeInv'
  BY <1>1, <1>2, <1>6 DEF Inv, TypeInv, TypeOK
<1>9. Mem' = Mem
  BY <1>1 DEF Mem
<1>10. VersionInv'
  BY <1>1, <1>2, <1>3 DEF Inv, VersionInv, Defragmented, OtherIdx
<1>11. LogInv'
  BY <1>1, <1>2, <1>3 DEF Inv, LogInv, Defragmented
<1>12. SeqInv'
  BY <1>1, <1>2, <1>4, <1>6 DEF Inv, SeqInv, Starting, Syncing, Defragmented
<1>13. BufInv'
  BY <1>1, <1>2, NoBuf DEF Inv, BufInv, InBuf, Syncing
<1>14. PendInv'
  BY <1>1, <1>2, <1>7, <1>9 DEF Inv, PendInv, Starting, Syncing
<1>15. QED
  BY <1>7, <1>8, <1>9, <1>10, <1>11, <1>12, <1>13, <1>14 DEF Inv

-----------------------------------------------------------------------------
(* The invariant, and the promises that follow *)

LEMMA InvStep ==
    ASSUME HasIndex
    PROVE  Inv /\ [Next]_vars => Inv'
<1> SUFFICES ASSUME Inv, [Next]_vars PROVE Inv'
  OBVIOUS
<1>1. ASSUME NEW k \in Key, SyncRec(k) \/ \E v \in Val \cup {None} : Change(k, v)
      PROVE  Inv'
  BY <1>1, SyncRecInv, ChangeInv
<1>2. CASE UNCHANGED vars
  <2>1. UNCHANGED <<Index, PendingRecords, NoSyncMode, DataSeq, LogFile, VersionSequence, DatfileIndex,
                    logOpen, buf, pc, after, dat, idxFile, log, changes, crashes>>
    BY <1>2 DEF vars, memVars, diskVars
  <2>2. /\ NewerIdx' = NewerIdx /\ NewerVersion' = NewerVersion /\ NewerPlaces' = NewerPlaces
        /\ \A i : Valid(i)' = Valid(i)
        /\ Named' = Named /\ DataInv' /\ Durable' = Durable
    BY <2>1, FilesSame DEF Inv, TypeInv
  <2>3. Mem' = Mem /\ InBuf' = InBuf /\ OtherIdx' = OtherIdx
    BY <2>1 DEF Mem, InBuf, OtherIdx
  <2>4. TypeInv'
    BY <2>1 DEF Inv, TypeInv, TypeOK
  <2>5. VersionInv' /\ LogInv'
    BY <2>1, <2>2, <2>3 DEF Inv, VersionInv, LogInv
  <2>6. SeqInv' /\ PendInv'
    BY <2>1, <2>2, <2>3 DEF Inv, SeqInv, PendInv
  <2>7. BufInv'
    BY <2>1, <2>3 DEF Inv, BufInv, Written, InFile
  <2>8. QED
    BY <2>2, <2>4, <2>5, <2>6, <2>7 DEF Inv
<1>3. QED
  BY <1>1, <1>2, LoadDatInv, LoadLogInv, CleanAndLoadInv, QuietInv, DownInv, SyncOpenInv, LogCreateInv,
     LogHeaderInv, LogAppendInv, DefragDataInv, IdxCreateInv, IdxWriteInv, RemoveLogInv, RemoveIdxInv,
     CleanupOldInv
     DEF Next

LEMMA InvHolds == ASSUME HasIndex PROVE Spec => []Inv
BY InitInv, InvStep, PTL DEF Spec

\* The database in memory and its files are as declared; a start never loads a
\* place that has no value.
THEOREM TypeCorrect ==
    ASSUME HasIndex
    PROVE  Spec => []TypeOK
<1>1. Inv => TypeOK
  BY DEF Inv, TypeInv
<1>2. QED
  BY <1>1, InvHolds, PTL

\* Put, Del, sync, defrag and Close: what was not written is pending, and Close
\* leaves nothing pending.
THEOREM UnsavedStaysPending ==
    ASSUME HasIndex
    PROVE  Spec => []UnsavedIsPending
<1>1. Inv => UnsavedIsPending
  BY DEF Inv, PendInv, UnsavedIsPending, Starting, Syncing
<1>2. QED
  BY <1>1, InvHolds, PTL

\* The values that a start would find, and those in memory.
LEMMA DurableType == Inv => Durable \in [Key -> Val \cup {None}]
<1> SUFFICES ASSUME Inv PROVE \A k \in Key : Durable[k] \in Val \cup {None}
  BY DEF Durable
<1>1. \A k \in Key : DiskPlaces[k] = None \/ (DiskPlaces[k] \in Place /\ InFile(DiskPlaces[k]))
  BY DiskFacts DEF Inv, TypeInv, DataInv
<1>2. QED
  BY <1>1, InFileVal DEF Inv, TypeInv, Durable

LEMMA StoreStep ==
    ASSUME HasIndex, Inv, [Next]_vars
    PROVE  [Store!Next]_(Store!vars)
<1> DEFINE m == IF pc \in {"down", "open", "load"} THEN Durable ELSE Mem
<1>1. ASSUME Durable' = Durable, m' = m PROVE UNCHANGED Store!vars
  BY <1>1 DEF Store!vars
<1>2. CASE LoadDat \/ LoadLog \/ CleanAndLoad
  <2>1. Durable' = Durable /\ (CleanAndLoad => Mem' = Durable)
    BY <1>2, LoadDatInv, LoadLogInv, CleanAndLoadInv
  <2>2. m' = m
    BY <1>2, <2>1 DEF LoadDat, LoadLog, CleanAndLoad
  <2>3. QED
    BY <1>1, <2>1, <2>2
<1>3. ASSUME NEW k \in Key, NEW v \in Val \cup {None}, Change(k, v) PROVE Store!Next
  <2>1. Durable' = Durable /\ Mem' = [Mem EXCEPT ![k] = v]
    BY <1>3, ChangeInv
  <2>2. m = Mem /\ m' = Mem'
    BY <1>3 DEF Change
  <2>3. m' = [m EXCEPT ![k] = v]
    BY <2>1, <2>2
  <2>4. QED
    BY <2>1, <2>3 DEF Store!Next, Store!Put, Store!Del
<1>4. CASE LogAppend \/ IdxWrite
  <2>1. Durable' = Mem /\ Mem' = Mem
    BY <1>4, LogAppendInv, IdxWriteInv
  <2>2. m = Mem /\ m' = Mem'
    BY <1>4 DEF LogAppend, IdxWrite, Inv, TypeInv, TypeOK
  <2>3. QED
    BY <2>1, <2>2 DEF Store!Next, Store!Save
<1>5. CASE Closed \/ Crash
  <2>1. Durable' = Durable /\ m' = Durable'
    BY <1>5, DownInv
  <2>2. QED
    BY <2>1 DEF Store!Next, Store!Restart
<1>6. CASE NoSync \/ Sync \/ Defrag \/ Close \/ SyncOpen \/ LogCreate \/ LogHeader \/ DefragData
           \/ IdxCreate \/ RemoveLog \/ RemoveIdx \/ CleanupOld \/ \E k \in Key : SyncRec(k)
  <2>1. Durable' = Durable /\ Mem' = Mem
    BY <1>6, QuietInv, SyncOpenInv, LogCreateInv, LogHeaderInv, DefragDataInv, IdxCreateInv, RemoveLogInv,
       RemoveIdxInv, CleanupOldInv, SyncRecInv
  <2>2. pc \notin {"down", "open", "load"} /\ pc' \notin {"down", "open", "load"}
    BY <1>6 DEF NoSync, Sync, Defrag, Close, SyncOpen, LogCreate, LogHeader, DefragData, IdxCreate,
       RemoveLog, RemoveIdx, CleanupOld, SyncRec, Inv, TypeInv, TypeOK
  <2>3. QED
    BY <1>1, <2>1, <2>2
<1>7. CASE UNCHANGED vars
  <2>1. UNCHANGED <<Index, pc, dat, idxFile, log, changes>>
    BY <1>7 DEF vars, memVars, diskVars
  <2>2. Durable' = Durable /\ Mem' = Mem
    BY <2>1, FilesSame DEF Inv, TypeInv, Mem
  <2>3. QED
    BY <1>1, <2>1, <2>2
<1>8. QED
  BY <1>2, <1>3, <1>4, <1>5, <1>6, <1>7 DEF Next

\* sync, defrag and restarts, killed between any two writes, implement a map
\* that is saved all at once.
THEOREM QdbImplementsStore ==
    ASSUME HasIndex
    PROVE  Spec => ImplementsQdbStore
<1>1. Init => Store!Init
  <2> SUFFICES ASSUME Init PROVE Store!Init
    OBVIOUS
  <2>1. Durable \in [Key -> Val \cup {None}]
    BY InitInv, DurableType
  <2>2. QED
    BY <2>1 DEF Store!Init, Init
<1>2. Inv /\ [Next]_vars => [Store!Next]_(Store!vars)
  BY StoreStep
<1>3. QED
  BY <1>1, <1>2, InvHolds, PTL DEF Spec, ImplementsQdbStore, Store!Spec
=============================================================================
