----------------------------- MODULE BlockStore -----------------------------
(***************************************************************************)
(* What the chain relies on from the block database: for every block       *)
(* whether it is stored, and the flags it carries.  BlockDB implements     *)
(* this with an index, a cache, a write queue and files; Chain is built on *)
(* top of it.                                                              *)
(***************************************************************************)
EXTENDS Naturals

CONSTANTS Block, Bad

VARIABLES
    running,    \* the process that uses the store is up
    store       \* Block -> Entry

\* st: not in the index, in memory only, or also on disk.
Entry == [st : {"none", "queued", "disk"}, trusted : BOOLEAN, invalid : BOOLEAN]

Absent == [st |-> "none", trusted |-> FALSE, invalid |-> FALSE]

Has(b) == store[b].st # "none"

StoreTypeOK == running \in BOOLEAN /\ store \in [Block -> Entry]

-----------------------------------------------------------------------------
(* The operations as functions of the state of the store *)

\* BlockAdd(b), with b.Trusted = t.
Added(s, b, t) ==
    [s EXCEPT ![b] = IF s[b].st = "none"
                     THEN [st |-> "queued", trusted |-> t, invalid |-> FALSE]
                     ELSE [s[b] EXCEPT !.trusted = s[b].trusted \/ t]]

\* BlockTrusted(b).
Trusted(s, b) == [s EXCEPT ![b].trusted = (s[b].st # "none")]

\* BlockInvalid(b) of a block that is not trusted.  A record on disk gets the
\* invalid flag there, and the trusted flag in memory.
Invalidated(s, b) ==
    [s EXCEPT ![b] = IF @.st = "disk" THEN [@ EXCEPT !.invalid = TRUE, !.trusted = TRUE]
                     ELSE Absent]

\* writeOne of b.
Written(s, b) == [s EXCEPT ![b].st = "disk"]

\* The index after a restart: what was on disk and not flagged invalid.
Reloaded(s) == [b \in Block |-> IF s[b].st = "disk" /\ ~s[b].invalid THEN s[b] ELSE Absent]

-----------------------------------------------------------------------------
(* The store as a specification of its own *)

StoreInit == running = FALSE /\ store = [b \in Block |-> Absent]

Add(b, t)  == running /\ (~Has(b) \/ t) /\ store' = Added(store, b, t) /\ UNCHANGED running
Trust(b)   == running /\ Has(b) /\ store' = Trusted(store, b) /\ UNCHANGED running
Invalid(b) == running /\ Has(b) /\ ~store[b].trusted
              /\ store' = Invalidated(store, b) /\ UNCHANGED running
Write(b)   == running /\ store[b].st = "queued" /\ store' = Written(store, b) /\ UNCHANGED running
Restart    == /\ running' = ~running
              /\ store' = IF running THEN Reloaded(store) ELSE store

StoreNext ==
    \/ \E b \in Block : \E t \in {FALSE, b \notin Bad} : Add(b, t)
    \/ \E b \in Block \ Bad : Trust(b)
    \/ \E b \in Bad : Invalid(b)
    \/ \E b \in Block : Write(b)
    \/ Restart

StoreSpec == StoreInit /\ [][StoreNext]_<<running, store>>
=============================================================================
