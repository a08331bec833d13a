------------------------------ MODULE Mempool ------------------------------
(***************************************************************************)
(* The memory pool (client/network/txpool_core.go, txpool_mine.go,         *)
(* txpool_sort.go, txpool_disk.go): transactions that wait to be mined,    *)
(* the outputs that they spend, the rejected ones and those of them that   *)
(* wait for an input.                                                      *)
(*                                                                         *)
(* What is done under one hold of TxMutex is one step.  Between the steps  *)
(* of the main thread come those of the connections (ParseTxNet) and of    *)
(* the web interface, which calls the same functions from its own thread.  *)
(***************************************************************************)
EXTENDS Integers, FiniteSets, SequencesExt

CONSTANTS
    Tx,             \* transactions
    Out,            \* outputs
    OutTx,          \* Out -> Tx \cup {Mined}: the transaction it is said to be of
    Mined,          \* stands for the transactions that were mined at the start
    Bogus,          \* outputs that their transaction does not have
    Ins,            \* Tx -> Seq(Out)
    Fee, Size,      \* Tx -> Nat
    Final,          \* transactions that RBF must not replace
    Immature,       \* outputs of coinbase transactions that are too young
    TooBig, Overspend, WrongScript,     \* transactions with these faults
    Local,          \* those that the user loads
    AllowMemInputs, MaxPoolSize, MaxRejectCnt, MaxRejectSize,   \* configuration
    MinMinFee,      \* FeePerByte of the configuration, per 1000 bytes
    MaxReplaced,    \* 100 in the code
    MaxQueue,       \* capacity of NetTxs
    MaxChain, MaxBlock,     \* bounds: blocks mined, transactions in a block
    Undo,           \* TRUE: blocks may be undone
    Race,           \* TRUE: two threads may get the same transaction at once
    None

VARIABLES
    mp,             \* the maps of the memory pool, see Pool
    Pending,        \* TransactionsPending
    NetTxs,         \* the channel
    minFee,         \* MinFeePerKB
    chain,          \* blocks mined since the start
    todo,           \* Thread -> what the thread will do, next step first
    file,           \* mempool.dmp: the chain that it is for and the pool, or None
    panicked

netVars == <<Pending, NetTxs>>
vars == <<mp, netVars, minFee, chain, todo, file, panicked>>

Thread == {"main", "webui"}
Id == Tx \cup {Mined}

InsOf(t) == Range(Ins[t])
OutsOf(t) == {o \in Out \ Bogus : OutTx[o] = t}

Reasons == {"TOO_BIG", "OVERSPEND", "BAD_INPUT", "NO_TXOU", "LOW_FEE", "NOT_MINED", "CB_INMATURE",
            "RBF_LOWFEE", "RBF_FINAL", "RBF_100", "REPLACED"}

\* Reasons (200 and above) for which RejectTx keeps the transaction.
Kept == Reasons \ {"TOO_BIG", "OVERSPEND", "BAD_INPUT"}

ASSUME MempoolAssumption ==
    /\ OutTx \in [Out -> Id] /\ Mined \notin Tx /\ Bogus \subseteq Out
    /\ \A t \in Tx : Ins[t] \in Seq(Out) /\ Ins[t] # <<>> /\ Fee[t] \in Nat /\ Size[t] \in Nat \ {0}
    /\ Local \subseteq Tx /\ Final \subseteq Tx /\ Immature \subseteq Out
    /\ TooBig \cup Overspend \cup WrongScript \subseteq Tx
    /\ {AllowMemInputs, Undo, Race} \subseteq BOOLEAN
    /\ {MaxPoolSize, MaxRejectCnt, MaxRejectSize, MinMinFee, MaxReplaced} \subseteq Nat
    /\ {MaxQueue, MaxChain, MaxBlock} \subseteq Nat
    /\ None \notin Id \cup Reasons
    /\ IsFiniteSet(Tx) /\ IsFiniteSet(Out)

Pool == [toSend  : SUBSET Tx,                       \* TransactionsToSend
         spent   : [Out -> Tx \cup {None}],         \* SpentOutputs
         mem     : [Tx -> SUBSET Out],              \* inputs with MemInputs set
         memCnt  : [Tx -> Int],                     \* MemInputCnt, 0 when MemInputs is nil
         size    : Int,                             \* TransactionsToSendSize
         rej     : [Tx -> Reasons \cup {None}],   \* TransactionsRejected: Reason
         w4      : [Tx -> Id \cup {None}],          \* Waiting4
         rejSize : Int,                             \* TransactionsRejectedSize
         waiting : [Id -> SUBSET Tx]]               \* WaitingForInputs: Ids

Empty == [toSend |-> {}, spent |-> [o \in Out |-> None], mem |-> [t \in Tx |-> {}],
          memCnt |-> [t \in Tx |-> 0], size |-> 0, rej |-> [t \in Tx |-> None],
          w4 |-> [t \in Tx |-> None], rejSize |-> 0, waiting |-> [i \in Id |-> {}]]

-----------------------------------------------------------------------------
(* The unspent outputs *)

TxsOf(c) == UNION {Range(c[i]) : i \in DOMAIN c}

\* The unspent outputs after the blocks of c.
Utxo(c) ==
    {o \in Out \ Bogus : OutTx[o] \in TxsOf(c) \cup {Mined}} \ UNION {InsOf(t) : t \in TxsOf(c)}

\* Unspent.TxPresent: some output of t is unspent.
TxPresent(t) == OutsOf(t) \cap Utxo(chain) # {}

\* The blocks that can be mined next.
Blocks ==
    {b \in UNION {[1..n -> Tx] : n \in 1..MaxBlock} :
        \A i \in DOMAIN b : /\ b[i] \notin Overspend \cup WrongScript \cup TxsOf(chain)
                            /\ InsOf(b[i]) \subseteq Utxo(Append(chain, SubSeq(b, 1, i - 1)))
                            /\ \A j \in 1..(i - 1) : b[j] # b[i]}

-----------------------------------------------------------------------------
(* Operations on the maps, called with TxMutex locked *)

TotalSize(S) == MapThenSumSet(LAMBDA t : Size[t], S)
TotalFee(S) == MapThenSumSet(LAMBDA t : Fee[t], S)

\* The transactions in S that are in m's pool and, with them, all that spend
\* outputs of theirs, directly or not (GetAllChildren).
WithChildren(m, S) ==
    LET Closed(D) == \A t \in D, o \in Out : OutTx[o] = t /\ m.spent[o] # None => m.spent[o] \in D
        all == {D \in SUBSET Tx : S \subseteq D /\ Closed(D)}
    IN  {t \in Tx : \A D \in all : t \in D}

\* RejectTx of the transactions S.
RejectTx(m, S, why) ==
    [m EXCEPT !.rej = [t \in Tx |-> IF t \in S THEN why ELSE m.rej[t]],
              !.w4 = [t \in Tx |-> IF t \in S THEN None ELSE m.w4[t]],
              !.rejSize = m.rejSize + IF why \in Kept THEN TotalSize(S) ELSE 0]

\* Mutant of Delete: TransactionsToSendSize is left as it is when the
\* transactions become rejected ones.
DeleteKeepsSize(m, S, why) ==
    LET gone == S \cap m.toSend
        n == [m EXCEPT
                !.toSend = m.toSend \ S,
                !.spent = [o \in Out |-> IF \E t \in gone : o \in InsOf(t) THEN None ELSE m.spent[o]],
                !.mem = [t \in Tx |-> IF t \in gone THEN {} ELSE m.mem[t]],
                !.memCnt = [t \in Tx |-> IF t \in gone THEN 0 ELSE m.memCnt[t]],
                !.size = m.size - IF why = None THEN TotalSize(gone) ELSE 0]
    IN  IF why = None THEN n ELSE RejectTx(n, gone, why)

\* Delete of the transactions S, with a reason or None.
Delete(m, S, why) ==
    LET gone == S \cap m.toSend
        n == [m EXCEPT
                !.toSend = m.toSend \ S,
                !.spent = [o \in Out |-> IF \E t \in gone : o \in InsOf(t) THEN None ELSE m.spent[o]],
                !.mem = [t \in Tx |-> IF t \in gone THEN {} ELSE m.mem[t]],
                !.memCnt = [t \in Tx |-> IF t \in gone THEN 0 ELSE m.memCnt[t]],
                !.size = m.size - TotalSize(gone)]
    IN  IF why = None THEN n ELSE RejectTx(n, gone, why)

\* Mutant of DeleteRejected: the waiting lists are left.
DeleteRejectedOnly(m, S) ==
    LET gone == {t \in S : m.rej[t] # None}
    IN  [m EXCEPT !.rej = [t \in Tx |-> IF t \in gone THEN None ELSE m.rej[t]],
                  !.w4 = [t \in Tx |-> IF t \in gone THEN None ELSE m.w4[t]],
                  !.rejSize = m.rejSize - TotalSize({t \in gone : m.rej[t] \in Kept})]

\* deleteRejected of the transactions S.
DeleteRejected(m, S) ==
    LET gone == {t \in S : m.rej[t] # None}
    IN  [m EXCEPT !.rej = [t \in Tx |-> IF t \in gone THEN None ELSE m.rej[t]],
                  !.w4 = [t \in Tx |-> IF t \in gone THEN None ELSE m.w4[t]],
                  !.rejSize = m.rejSize - TotalSize({t \in gone : m.rej[t] \in Kept}),
                  !.waiting = [i \in Id |-> m.waiting[i] \ {t \in gone : m.w4[t] = i}]]

\* UnMarkChildrenForMem: t was mined.
UnMarkChildren(m, t) ==
    LET n(c) == Cardinality({o \in OutsOf(t) : m.spent[o] = c})
        left == [c \in Tx |-> IF c \in m.toSend /\ m.memCnt[c] # 0 THEN m.memCnt[c] - n(c)
                              ELSE m.memCnt[c]]
    IN  [m EXCEPT !.memCnt = left,
                  !.mem = [c \in Tx |-> IF left[c] = 0 THEN {} ELSE m.mem[c] \ OutsOf(t)]]

\* Mutant of MarkChildren: issue #58, the children are not marked again.
MarkChildrenNot(m, t) == m

\* MarkChildrenForMem: t was undone.
MarkChildren(m, t) ==
    LET of(c) == {o \in OutsOf(t) : m.spent[o] = c}
    IN  [m EXCEPT !.memCnt = [c \in Tx |-> m.memCnt[c] + Cardinality(of(c))],
                  !.mem = [c \in Tx |-> m.mem[c] \cup of(c)]]

\* tx_mined.
TxMined(m, t) ==
    LET n == DeleteRejected(IF t \in m.toSend THEN Delete(UnMarkChildren(m, t), {t}, None) ELSE m, {t})
    IN  Delete(n, WithChildren(n, {n.spent[o] : o \in InsOf(t)} \ {None}), None)

-----------------------------------------------------------------------------
(* HandleNetTx *)

\* Mutant of Replaced: without the children.
ReplacedAlone(m, t, n) == {m.spent[Ins[t][i]] : i \in 1..n} \ {None}

\* The transactions that t replaces, as seen after its first n inputs.
Replaced(m, t, n) == WithChildren(m, {m.spent[Ins[t][i]] : i \in 1..n} \ {None})

\* What becomes of t because of its n-th input: "OK", "WAIT" or a reason.
OfInput(m, t, n, trusted) ==
    LET o == Ins[t][n]
        p == OutTx[o]
        replaced == Replaced(m, t, n)
        rbf == {w \in {"RBF_FINAL", "RBF_100"} :
                    /\ ~trusted /\ m.spent[o] # None
                    /\ w = "RBF_FINAL" => replaced \cap Final # {}
                    /\ w = "RBF_100" => Cardinality(replaced) > MaxReplaced}
    IN  CASE rbf # {} -> rbf
          [] rbf = {} /\ p \in m.toSend ->
                {IF o \in Bogus THEN "BAD_INPUT"
                 ELSE IF trusted \/ AllowMemInputs THEN "OK" ELSE "NOT_MINED"}
          [] rbf = {} /\ p \notin m.toSend /\ o \in Utxo(chain) ->
                {IF o \in Immature THEN "CB_INMATURE" ELSE "OK"}
          [] OTHER ->
                {IF ~AllowMemInputs THEN "NOT_MINED"
                 ELSE IF p \in Tx /\ m.rej[p] # None /\ m.w4[p] = None THEN "NO_TXOU" ELSE "WAIT"}

\* The first input that is not in order decides, and then the other checks.
Verdicts(m, t, trusted, local) ==
    LET bad == {n \in DOMAIN Ins[t] : OfInput(m, t, n, trusted) # {"OK"}}
        out == Replaced(m, t, Len(Ins[t]))
    IN  CASE bad # {} -> OfInput(m, t, Min(bad), trusted)
          [] bad = {} /\ t \in Overspend -> {"OVERSPEND"}
          [] bad = {} /\ t \notin Overspend /\ ~local /\ Fee[t] < (Size[t] * minFee) \div 1000 ->
                {"LOW_FEE"}
          [] OTHER ->
                {IF out # {} /\ ~local /\ TotalFee(out) * Size[t] >= Fee[t] * TotalSize(out)
                 THEN "RBF_LOWFEE"
                 ELSE IF ~trusted /\ t \in WrongScript THEN "SCRIPT" ELSE "OK"}

\* Mutant of Accept: t joins the pool beside those that it replaces.
AcceptBeside(m, t) ==
    LET mem == {o \in InsOf(t) : OutTx[o] \in m.toSend}
    IN  [m EXCEPT !.toSend = m.toSend \cup {t},
                  !.spent = [o \in Out |-> IF o \in InsOf(t) THEN t ELSE m.spent[o]],
                  !.mem[t] = mem, !.memCnt[t] = Cardinality(mem),
                  !.size = m.size + Size[t]]

\* t joins the pool in the place of those that it replaces.
Accept(m, t) ==
    LET mem == {o \in InsOf(t) : OutTx[o] \in m.toSend}
        n == Delete(m, Replaced(m, t, Len(Ins[t])), "REPLACED")
    IN  [n EXCEPT !.toSend = n.toSend \cup {t},
                  !.spent = [o \in Out |-> IF o \in InsOf(t) THEN t ELSE n.spent[o]],
                  !.mem[t] = mem, !.memCnt[t] = Cardinality(mem),
                  !.size = n.size + Size[t]]

\* t is rejected and waits for the first input that is missing.
WaitForInput(m, t, trusted) ==
    LET n == Min({i \in DOMAIN Ins[t] : OfInput(m, t, i, trusted) # {"OK"}})
        p == OutTx[Ins[t][n]]
        r == RejectTx(m, {t}, "NO_TXOU")
    IN  [r EXCEPT !.w4[t] = p, !.waiting[p] = r.waiting[p] \cup {t}]

Judged(m, t, trusted, verdict) ==
    CASE verdict = "OK" -> Accept(m, t)
      [] verdict = "WAIT" -> WaitForInput(m, t, trusted)
      [] verdict = "SCRIPT" -> m
      [] OTHER -> RejectTx(m, {t}, verdict)

\* What a thread will do: HandleNetTx of a transaction, after NeedThisTx or
\* without it, MarkChildrenForMem, or RetryWaitingForInput of some.
HandleStep(t, trusted, local, retry) ==
    [do |-> "handle", tx |-> t, trusted |-> trusted, local |-> local, retry |-> retry]
NeedStep(t, trusted, local) == [do |-> "need", tx |-> t, trusted |-> trusted, local |-> local]
MarkStep(t) == [do |-> "mark", tx |-> t]
RetryStep(t, ids) == [do |-> "retry", tx |-> t, ids |-> ids]

\* Mutant of Retries: those that became available together are not looked at.
RetriesOfFew(m, ts) == <<>>

\* The retries for those of the list ts that some are waiting for.
Retries(m, ts) ==
    LET w == m.waiting
    IN  FlattenSeq([i \in DOMAIN ts |-> IF w[ts[i]] = {} THEN <<>> ELSE <<RetryStep(ts[i], w[ts[i]])>>])

\* HandleNetTx of t by thread th, which goes on with rest.
HandleNetTx(th, t, trusted, local, retry, rest) ==
    \/ /\ ~retry /\ t \notin Pending
       /\ todo' = [todo EXCEPT ![th] = rest]
       /\ UNCHANGED <<mp, Pending>>
    \/ /\ retry \/ t \in Pending
       /\ LET m == IF retry THEN DeleteRejected(mp, {t}) ELSE mp
          IN  \E v \in Verdicts(m, t, trusted, local) :
                 /\ mp' = Judged(m, t, trusted, v)
                 /\ todo' = [todo EXCEPT ![th] =
                                (IF v = "OK" THEN Retries(mp', <<t>>) ELSE <<>>) \o rest]
       /\ Pending' = IF retry THEN Pending ELSE Pending \ {t}

-----------------------------------------------------------------------------

\* The maps of the pool; NetTxs, a channel that ParseTxNet never waits for, is
\* within its capacity.
TypeOK ==
    /\ mp \in Pool
    /\ Pending \subseteq Tx
    /\ NetTxs \in Seq(Tx \X BOOLEAN) /\ Len(NetTxs) <= MaxQueue
    /\ minFee \in Nat
    /\ chain \in Seq(Seq(Tx))
    /\ DOMAIN todo = Thread
    /\ file = None \/ (file.chain \in Seq(Seq(Tx)) /\ file.toSend \subseteq Tx /\ file.marked \subseteq Tx)
    /\ panicked \in BOOLEAN

Init ==
    /\ mp = Empty
    /\ Pending = {} /\ NetTxs = <<>>
    /\ minFee = MinMinFee
    /\ chain = <<>>
    /\ todo = [th \in Thread |-> <<>>]
    /\ file = None
    /\ panicked = FALSE

NeedThisTx(t) == t \notin mp.toSend \cup Pending /\ mp.rej[t] = None /\ ~TxPresent(t)

\* No thread is about to handle t, unless races are looked at.
Alone(t) == Race \/ \A th \in Thread : \A i \in DOMAIN todo[th] : todo[th][i].tx # t

\* ParseTxNet, in a connection's thread.
ParseTxNetTooBig(t) ==
    /\ t \in TooBig
    /\ mp' = RejectTx(mp, {t}, "TOO_BIG")
    /\ UNCHANGED <<netVars, minFee, chain, todo, file, panicked>>

\* Mutant of ParseTxNet: pending also when the channel is full.
ParseTxNetPending(t, trusted) ==
    /\ t \notin TooBig /\ NeedThisTx(t)
    /\ Alone(t)
    /\ NetTxs' = IF Len(NetTxs) < MaxQueue THEN Append(NetTxs, <<t, trusted>>) ELSE NetTxs
    /\ Pending' = Pending \cup {t}
    /\ UNCHANGED <<mp, minFee, chain, todo, file, panicked>>

ParseTxNet(t, trusted) ==
    /\ t \notin TooBig /\ NeedThisTx(t) /\ Len(NetTxs) < MaxQueue
    /\ Alone(t)
    /\ NetTxs' = Append(NetTxs, <<t, trusted>>)
    /\ Pending' = Pending \cup {t}
    /\ UNCHANGED <<mp, minFee, chain, todo, file, panicked>>

\* The main thread takes a transaction out of the channel.
TakeNetTx ==
    /\ todo["main"] = <<>> /\ NetTxs # <<>>
    /\ todo' = [todo EXCEPT !["main"] = <<HandleStep(Head(NetTxs)[1], Head(NetTxs)[2], FALSE, FALSE)>>]
    /\ NetTxs' = Tail(NetTxs)
    /\ UNCHANGED <<mp, Pending, minFee, chain, file, panicked>>

\* The thread's next step is HandleNetTx.
DoHandle(th) ==
    /\ todo[th] # <<>> /\ Head(todo[th]).do = "handle"
    /\ LET s == Head(todo[th])
       IN  HandleNetTx(th, s.tx, s.trusted, s.local, s.retry, Tail(todo[th]))
    /\ UNCHANGED <<NetTxs, minFee, chain, file, panicked>>

\* RetryWaitingForInput: the next transaction of the list, as it is by now.
DoRetry(th) ==
    /\ todo[th] # <<>> /\ Head(todo[th]).do = "retry"
    /\ LET s == Head(todo[th])
           left == s.ids \cap mp.waiting[s.tx]
       IN  \/ /\ left = {}
              /\ todo' = [todo EXCEPT ![th] = Tail(todo[th])]
              /\ UNCHANGED <<mp, Pending>>
           \/ \E t \in left : HandleNetTx(th, t, FALSE, FALSE, TRUE,
                                          <<RetryStep(s.tx, left \ {t})>> \o Tail(todo[th]))
    /\ UNCHANGED <<NetTxs, minFee, chain, file, panicked>>

\* NeedThisTx before HandleNetTx, in a hold of TxMutex of its own.
DoNeed(th) ==
    /\ todo[th] # <<>> /\ Head(todo[th]).do = "need"
    /\ LET s == Head(todo[th])
       IN  todo' = [todo EXCEPT ![th] =
                (IF NeedThisTx(s.tx) THEN <<HandleStep(s.tx, s.trusted, s.local, TRUE)>> ELSE <<>>)
                    \o Tail(todo[th])]
    /\ UNCHANGED <<mp, netVars, minFee, chain, file, panicked>>

DoMark(th) ==
    /\ todo[th] # <<>> /\ Head(todo[th]).do = "mark"
    /\ mp' = MarkChildren(mp, Head(todo[th]).tx)
    /\ todo' = [todo EXCEPT ![th] = Tail(todo[th])]
    /\ UNCHANGED <<netVars, minFee, chain, file, panicked>>

\* The maps after tx_mined of the first i transactions of b.
AfterMined(m, b) ==
    LET after[i \in 0..Len(b)] == IF i = 0 THEN m ELSE TxMined(after[i - 1], b[i])
    IN  after

\* The block b is committed and BlockMined called.
BlockMined(b) ==
    /\ todo["main"] = <<>> /\ Len(chain) < MaxChain
    /\ chain' = Append(chain, b)
    /\ mp' = AfterMined(mp, b)[Len(b)]
    /\ Pending' = Pending \ Range(b)
    /\ todo' = [todo EXCEPT !["main"] = Retries(mp', b)]
    /\ UNCHANGED <<NetTxs, minFee, file, panicked>>

\* The last block is undone and BlockUndone called.
BlockUndone ==
    /\ Undo /\ todo["main"] = <<>> /\ chain # <<>>
    /\ chain' = Front(chain)
    /\ LET b == Last(chain)
       IN  todo' = [todo EXCEPT !["main"] =
                FlattenSeq([i \in DOMAIN b |-> <<NeedStep(b[i], TRUE, FALSE), MarkStep(b[i])>>])]
    /\ UNCHANGED <<mp, netVars, minFee, file, panicked>>

-----------------------------------------------------------------------------
(* ExpireTxs *)

\* What LimitPoolSize may leave: transactions go from the end of the sorted
\* list, parents before children, until the rest fits.  The order by fee is
\* left open; the fee rate of the last one to go is the new minimum.
LimitPoolSize(m, fee) ==
    LET tick == MaxPoolSize \div 32
        floor == MinMinFee
        full == MaxPoolSize - tick
        ChildrenFirst(R) == WithChildren(m, R) = R
        GoesLast(R, t) ==
            /\ t \in R /\ ChildrenFirst(R) /\ ChildrenFirst(R \ {t})
            /\ m.size - TotalSize(R) <= full /\ m.size - TotalSize(R \ {t}) > full
        last == {x \in (SUBSET m.toSend) \X m.toSend : GoesLast(x[1], x[2])}
    IN  IF MaxPoolSize = 0 THEN {<<m, fee>>}
        ELSE IF m.size < MaxPoolSize
        THEN {IF m.size < MaxPoolSize - 2 * tick /\ fee # floor
              THEN <<DeleteRejected(m, {t \in Tx : m.rej[t] = "LOW_FEE"}), floor>>
              ELSE <<m, fee>>}
        ELSE {<<Delete(m, x[1], "LOW_FEE"), Max({floor, (1000 * Fee[x[2]]) \div Size[x[2]]})>> :
                x \in last}

\* What LimitRejectedSize may delete because there are too many, and then
\* because they take too much.  The order by size and age is left open.
LimitRejectedSize(m) ==
    LET all == {t \in Tx : m.rej[t] # None}
        keep == IF MaxRejectCnt > 0 /\ Cardinality(all) > MaxRejectCnt
                THEN MaxRejectCnt - MaxRejectCnt \div 32 ELSE Cardinality(all)
        most == MaxRejectSize - MaxRejectSize \div 32
        Left(R) == DeleteRejected(m, R).rejSize
        Deleted(R, S) ==
            /\ Cardinality(all \ R) = keep /\ R \cap S = {}
            /\ IF MaxRejectSize = 0 \/ Left(R) <= MaxRejectSize THEN S = {}
               ELSE /\ Left(R \cup S) <= most \/ R \cup S = all
                    /\ \E t \in S : S = {t} \/ Left(R \cup (S \ {t})) > most
    IN  {x \in (SUBSET all) \X (SUBSET all) : Deleted(x[1], x[2])}

\* In the second loop a record without its transaction is a nil pointer.
ExpireTxs ==
    /\ todo["main"] = <<>>
    /\ \E x \in LimitPoolSize(mp, minFee) : \E r \in LimitRejectedSize(x[1]) :
          /\ mp' = DeleteRejected(x[1], r[1] \cup r[2])
          /\ minFee' = x[2]
          /\ panicked' = (panicked \/ \E t \in r[2] : x[1].rej[t] \notin Kept)
    /\ UNCHANGED <<netVars, chain, todo, file>>

-----------------------------------------------------------------------------
(* The web interface, and the file *)

\* LoadRawTx: RemoveFromRejected, NeedThisTxExt, SubmitLocalTx.
LoadRawTx(t) ==
    /\ t \in Local /\ todo["webui"] = <<>> /\ Alone(t)
    /\ mp' = DeleteRejected(mp, {t})
    /\ todo' = [todo EXCEPT !["webui"] = <<NeedStep(t, TRUE, TRUE)>>]
    /\ UNCHANGED <<netVars, minFee, chain, file, panicked>>

\* The user deletes a transaction.
DeleteTx(t) ==
    /\ t \in mp.toSend /\ todo["webui"] = <<>>
    /\ mp' = Delete(mp, WithChildren(mp, {t}), None)
    /\ UNCHANGED <<netVars, minFee, chain, todo, file, panicked>>

\* MempoolSave, by the user or at the end.
MempoolSave ==
    /\ todo["main"] = <<>>
    /\ file' = [chain |-> chain, toSend |-> mp.toSend, marked |-> {t \in mp.toSend : mp.memCnt[t] # 0},
                spent |-> mp.spent]
    /\ UNCHANGED <<mp, netVars, minFee, chain, todo, panicked>>

\* MempoolLoadNew: the user adds the transactions of the file.
MempoolLoadNew ==
    /\ todo["main"] = <<>> /\ file # None /\ \A t \in file.toSend : Alone(t)
    /\ \E ts \in SetToSeqs(file.toSend) :
          todo' = [todo EXCEPT !["main"] = [i \in DOMAIN ts |-> NeedStep(ts[i], FALSE, FALSE)]]
    /\ UNCHANGED <<mp, netVars, minFee, chain, file, panicked>>

\* MempoolLoad2: the pool of a file that is for the last block.
MempoolLoad2(f) ==
    LET mem == [t \in Tx |-> IF t \in f.marked THEN {o \in InsOf(t) : OutTx[o] \in f.toSend} ELSE {}]
    IN  [Empty EXCEPT !.toSend = f.toSend, !.spent = f.spent, !.mem = mem,
                      !.memCnt = [t \in Tx |-> Cardinality(mem[t])], !.size = TotalSize(f.toSend)]

\* The node stops or crashes, and comes up with the first n blocks.
Restart(n) ==
    /\ chain' = SubSeq(chain, 1, n)
    /\ mp' = IF file # None /\ file.chain = chain' THEN MempoolLoad2(file) ELSE Empty
    /\ Pending' = {} /\ NetTxs' = <<>>
    /\ minFee' = MinMinFee
    /\ todo' = [th \in Thread |-> <<>>]
    /\ panicked' = FALSE
    /\ UNCHANGED file

Next ==
    \/ \E t \in Tx :
          \/ ParseTxNetTooBig(t) \/ LoadRawTx(t) \/ DeleteTx(t)
          \/ \E trusted \in BOOLEAN : ParseTxNet(t, trusted)
    \/ TakeNetTx
    \/ \E th \in Thread : DoHandle(th) \/ DoRetry(th) \/ DoNeed(th) \/ DoMark(th)
    \/ \E b \in Blocks : BlockMined(b)
    \/ BlockUndone
    \/ ExpireTxs
    \/ MempoolSave \/ MempoolLoadNew
    \/ \E n \in 0..Len(chain) : Restart(n)

Spec == Init /\ [][Next]_vars

-----------------------------------------------------------------------------
(* Properties *)

\* SpentOutputs (HandleNetTx, Delete, tx_mined): through replacing, mining,
\* expiring and loading it names every input of the pool with its spender, and
\* nothing else, so that no output is spent twice in the pool.
SpentIsExact ==
    \A o \in Out : {t \in mp.toSend : o \in InsOf(t)} =
                   IF mp.spent[o] = None THEN {} ELSE {mp.spent[o]}

\* MempoolCheck, MemInputs: an input is marked exactly if its transaction is
\* in the pool, and MemInputCnt counts the marks, once the main thread is done
\* with a block.
MemInputsAreExact ==
    todo["main"] = <<>> => \A t \in mp.toSend :
        /\ mp.mem[t] = {o \in InsOf(t) : OutTx[o] \in mp.toSend}
        /\ mp.memCnt[t] = Cardinality(mp.mem[t])

\* MempoolCheck, "has no input": what is in the pool could be mined, in an
\* order that has parents first.
InputsExist ==
    todo["main"] = <<>> =>
        \A t \in mp.toSend : \A o \in InsOf(t) : OutTx[o] \in mp.toSend \/ o \in Utxo(chain)

\* MempoolCheck, TransactionsRejectedSize: the sizes that LimitPoolSize and
\* LimitRejectedSize go by are those of the pool and of the rejected
\* transactions that are kept.
SizesAreExact ==
    /\ mp.size = TotalSize(mp.toSend)
    /\ mp.rejSize = TotalSize({t \in Tx : mp.rej[t] \in Kept})

\* WaitingForInputs (HandleNetTx, deleteRejected): the lists have exactly the
\* rejected transactions that wait, so that RetryWaitingForInput finds each.
WaitingIsExact ==
    /\ \A i \in Id : mp.waiting[i] = {t \in Tx : mp.w4[t] = i}
    /\ \A t \in Tx : mp.w4[t] # None => mp.rej[t] = "NO_TXOU"

\* RetryWaitingForInput: once the threads are done, nobody waits for a
\* transaction that is in the pool.
NobodyWaitsInVain ==
    (\A th \in Thread : todo[th] = <<>>) => \A t \in mp.toSend : mp.waiting[t] = {}

\* TransactionsPending: a pending transaction is in the channel, or in the
\* hands of the main thread; otherwise NeedThisTx would refuse it for ever.
PendingIsQueued ==
    \A t \in Pending : \/ \E i \in DOMAIN NetTxs : NetTxs[i][1] = t
                       \/ todo["main"] # <<>> /\ Head(todo["main"]) \in
                            {HandleStep(t, trusted, FALSE, FALSE) : trusted \in BOOLEAN}

\* LimitRejectedSize: no nil pointer is followed.
NoPanic == ~panicked
============================================================================
