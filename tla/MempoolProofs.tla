--------------------------- MODULE MempoolProofs ----------------------------
(***************************************************************************)
(* Proofs about Mempool for every set of transactions and outputs, every   *)
(* configuration and any number of blocks, undos, restarts and races.      *)
(***************************************************************************)
EXTENDS Mempool, NatFacts, FiniteSetTheorems, TLAPS

\* Among finite sets some set is the smallest.
LEMMA SmallestSet ==
    ASSUME NEW Q, Q # {}, \A s \in Q : IsFiniteSet(s)
    PROVE  \E s \in Q : \A u \in Q : Cardinality(s) <= Cardinality(u)
<1> DEFINE N == {Cardinality(s) : s \in Q}
<1>1. N \in SUBSET Nat /\ N # {}
  BY FS_CardinalityType
<1>2. PICK n \in N : \A k \in N : n <= k
  <2> HIDE DEF N
  <2>1. QED
    BY <1>1, LeastNat
<1>3. PICK s \in Q : Cardinality(s) = n
  OBVIOUS
<1>4. QED
  BY <1>2, <1>3

-----------------------------------------------------------------------------
(* TotalSize, which is a fold *)

First(s) == CHOOSE x \in s : TRUE

\* f is the function of the fold, on the sets in D.
IsSum(f, D) == f = [s \in D |-> IF s = {} THEN 0 ELSE Size[First(s)] + f[s \ {First(s)}]]

SumFor(f, S) == IsSum(f, SUBSET S)

LEMMA SmallerSet ==
    ASSUME NEW s, NEW x \in s, IsFiniteSet(s)
    PROVE  IsFiniteSet(s \ {x}) /\ Cardinality(s \ {x}) = Cardinality(s) - 1
           /\ Cardinality(s) \in Nat \ {0} /\ Cardinality(s \ {x}) \in Nat
BY FS_RemoveElement, FS_CardinalityType, FS_EmptySet

LEMMA FirstIn ==
    ASSUME NEW s, s # {}
    PROVE  First(s) \in s
BY DEF First

\* The recursion of the fold defines a function.
LEMMA SumExists ==
    ASSUME NEW S, IsFiniteSet(S)
    PROVE  \E f : IsSum(f, SUBSET S)
<1> DEFINE D(n) == {s \in SUBSET S : Cardinality(s) <= n}
           bad == {n \in Nat : ~ \E f : IsSum(f, D(n))}
<1>f. \A s \in SUBSET S : IsFiniteSet(s) /\ Cardinality(s) \in Nat /\ Cardinality(s) <= Cardinality(S)
  BY FS_Subset, FS_CardinalityType
<1>1. ASSUME bad # {} PROVE FALSE
  <2>1. PICK k \in bad : \A j \in bad : k <= j
    BY <1>1, LeastNat
  <2>2. CASE k = 0
    <3> DEFINE g == [s \in D(0) |-> 0]
    <3>1. \A s \in D(0) : s = {}
      BY <1>f, FS_EmptySet
    <3>2. IsSum(g, D(0))
      BY <3>1 DEF IsSum
    <3>3. QED
      BY <2>1, <2>2, <3>2
  <2>3. CASE k # 0
    <3>1. k - 1 \in Nat /\ k - 1 \notin bad
      <4>1. k \in Nat
        OBVIOUS
      <4> HIDE DEF bad
      <4>2. QED
        BY <2>1, <2>3, <4>1
    <3>2. PICK f : IsSum(f, D(k - 1))
      BY <3>1
    <3> DEFINE h(s) == IF s = {} THEN 0 ELSE Size[First(s)] + f[s \ {First(s)}]
               g == [s \in D(k) |-> h(s)]
    <3>3. \A s \in D(k - 1) : f[s] = h(s)
      BY <3>2 DEF IsSum
    <3>4. \A s \in D(k) : s # {} => s \ {First(s)} \in D(k - 1) /\ s \ {First(s)} \in D(k)
      <4> SUFFICES ASSUME NEW s \in D(k), s # {} PROVE s \ {First(s)} \in D(k - 1) /\ s \ {First(s)} \in D(k)
        OBVIOUS
      <4>1. Cardinality(s \ {First(s)}) = Cardinality(s) - 1 /\ Cardinality(s) \in Nat
        BY <1>f, FirstIn, SmallerSet
      <4>2. s \ {First(s)} \in SUBSET S
        OBVIOUS
      <4>3. k \in Nat
        BY <2>1
      <4>4. QED
        BY <4>1, <4>2, <4>3
    <3> HIDE DEF D
    <3>5. \A s \in D(k) : s # {} => g[s \ {First(s)}] = f[s \ {First(s)}]
      BY <3>3, <3>4
    <3>6. \A s \in D(k) : g[s] = IF s = {} THEN 0 ELSE Size[First(s)] + g[s \ {First(s)}]
      BY <3>5
    <3>7. g = [s \in D(k) |-> g[s]]
      OBVIOUS
    <3> HIDE DEF g
    <3>8. IsSum(g, D(k))
      BY <3>6, <3>7 DEF IsSum
    <3>9. QED
      BY <2>1, <3>8
  <2>4. QED
    BY <2>2, <2>3
<1>2. Cardinality(S) \in Nat /\ Cardinality(S) \notin bad
  BY <1>1, FS_CardinalityType
<1>3. D(Cardinality(S)) = SUBSET S
  BY <1>f
<1>4. QED
  BY <1>2, <1>3

LEMMA TotalSizeFold ==
    ASSUME NEW S, IsFiniteSet(S)
    PROVE  \E f : SumFor(f, S) /\ TotalSize(S) = f[S]
<1> DEFINE f == CHOOSE g : SumFor(g, S)
<1>1. TotalSize(S) = f[S]
  BY DEF TotalSize, MapThenSumSet, MapThenFoldSet, SumFor, IsSum, First
<1>2. SumFor(f, S)
  BY SumExists DEF SumFor
<1>3. QED
  BY <1>1, <1>2

\* Sums for different sets agree where both are defined.
LEMMA SumsAgree ==
    ASSUME NEW S, NEW T, IsFiniteSet(S), IsFiniteSet(T), NEW f, SumFor(f, S), NEW g, SumFor(g, T)
    PROVE  \A s \in SUBSET (S \cap T) : f[s] = g[s]
<1> DEFINE bad == {u \in SUBSET (S \cap T) : f[u] # g[u]}
<1> SUFFICES ASSUME bad # {} PROVE FALSE
  OBVIOUS
<1>1. \A u \in bad : IsFiniteSet(u)
  BY FS_Subset
<1>2. PICK u \in bad : \A w \in bad : Cardinality(u) <= Cardinality(w)
  <2> HIDE DEF bad
  <2>1. QED
    BY <1>1, SmallestSet
<1>3. /\ f[u] = IF u = {} THEN 0 ELSE Size[First(u)] + f[u \ {First(u)}]
      /\ g[u] = IF u = {} THEN 0 ELSE Size[First(u)] + g[u \ {First(u)}]
  BY DEF SumFor, IsSum
<1>4. u # {}
  BY <1>3
<1>5. u \ {First(u)} \notin bad
  BY <1>1, <1>2, <1>4, FirstIn, SmallerSet
<1>6. f[u \ {First(u)}] = g[u \ {First(u)}]
  BY <1>5
<1>7. QED
  BY <1>3, <1>6

LEMMA TotalSizeRec ==
    ASSUME NEW S, IsFiniteSet(S)
    PROVE  TotalSize(S) = IF S = {} THEN 0 ELSE Size[First(S)] + TotalSize(S \ {First(S)})
<1>1. PICK f : SumFor(f, S) /\ TotalSize(S) = f[S]
  BY TotalSizeFold
<1>2. f[S] = IF S = {} THEN 0 ELSE Size[First(S)] + f[S \ {First(S)}]
  BY <1>1 DEF SumFor, IsSum
<1>3. ASSUME S # {} PROVE f[S \ {First(S)}] = TotalSize(S \ {First(S)})
  <2> DEFINE T == S \ {First(S)}
  <2>1. IsFiniteSet(T) /\ T \subseteq S
    BY FS_Subset
  <2> HIDE DEF T
  <2>2. PICK g : SumFor(g, T) /\ TotalSize(T) = g[T]
    BY <2>1, TotalSizeFold
  <2>3. f[T] = g[T]
    <3>1. \A u \in SUBSET (S \cap T) : f[u] = g[u]
      BY <1>1, <2>1, <2>2, SumsAgree
    <3>2. QED
      BY <2>1, <3>1
  <2>4. QED
    BY <2>2, <2>3 DEF T
<1>4. QED
  BY <1>1, <1>2, <1>3

LEMMA TotalSizeNat ==
    ASSUME NEW S, IsFiniteSet(S), S \subseteq Tx
    PROVE  TotalSize(S) \in Nat
<1> DEFINE bad == {u \in SUBSET S : TotalSize(u) \notin Nat}
<1> SUFFICES ASSUME bad # {} PROVE FALSE
  OBVIOUS
<1>1. \A u \in bad : IsFiniteSet(u)
  BY FS_Subset
<1>2. PICK u \in bad : \A w \in bad : Cardinality(u) <= Cardinality(w)
  <2> HIDE DEF bad
  <2>1. QED
    BY <1>1, SmallestSet
<1>3. TotalSize(u) = IF u = {} THEN 0 ELSE Size[First(u)] + TotalSize(u \ {First(u)})
  BY <1>1, TotalSizeRec
<1>4. u # {}
  BY <1>3
<1>5. u \ {First(u)} \notin bad /\ First(u) \in Tx
  BY <1>1, <1>2, <1>4, FirstIn, SmallerSet
<1>6. TotalSize(u \ {First(u)}) \in Nat /\ Size[First(u)] \in Nat
  BY <1>5, MempoolAssumption
<1>7. QED
  BY <1>3, <1>4, <1>6

\* The order in which the sizes are added does not matter.
LEMMA TotalSizeRemove ==
    ASSUME NEW S, IsFiniteSet(S), S \subseteq Tx, NEW x \in S
    PROVE  TotalSize(S) = Size[x] + TotalSize(S \ {x})
<1> DEFINE bad == {u \in SUBSET S : \E y \in u : TotalSize(u) # Size[y] + TotalSize(u \ {y})}
<1> SUFFICES ASSUME bad # {} PROVE FALSE
  OBVIOUS
<1>1. \A u \in bad : IsFiniteSet(u)
  BY FS_Subset
<1>2. PICK u \in bad : \A w \in bad : Cardinality(u) <= Cardinality(w)
  <2> HIDE DEF bad
  <2>1. QED
    BY <1>1, SmallestSet
<1>3. PICK y \in u : TotalSize(u) # Size[y] + TotalSize(u \ {y})
  BY <1>2
<1> DEFINE z == First(u)
<1>4. z \in u /\ TotalSize(u) = Size[z] + TotalSize(u \ {z})
  BY <1>1, <1>3, TotalSizeRec, FirstIn
<1> HIDE DEF z
<1>5. z # y
  BY <1>3, <1>4
<1>6. u \ {z} \notin bad /\ u \ {y} \notin bad
  <2>1. /\ Cardinality(u \ {z}) \in Nat /\ Cardinality(u \ {z}) = Cardinality(u) - 1
        /\ Cardinality(u \ {y}) \in Nat /\ Cardinality(u \ {y}) = Cardinality(u) - 1
        /\ Cardinality(u) \in Nat
    BY <1>1, <1>3, <1>4, SmallerSet
  <2> HIDE DEF bad
  <2>2. QED
    BY <1>2, <2>1
<1>7. /\ TotalSize(u \ {z}) = Size[y] + TotalSize((u \ {z}) \ {y})
      /\ TotalSize(u \ {y}) = Size[z] + TotalSize((u \ {y}) \ {z})
  BY <1>3, <1>4, <1>5, <1>6
<1>8. (u \ {z}) \ {y} = (u \ {y}) \ {z}
  OBVIOUS
<1>9. /\ Size[y] \in Nat /\ Size[z] \in Nat
      /\ TotalSize((u \ {z}) \ {y}) \in Nat
  <2>1. IsFiniteSet((u \ {z}) \ {y}) /\ (u \ {z}) \ {y} \subseteq Tx
    BY <1>1, FS_Subset
  <2>2. QED
    BY <1>3, <1>4, <2>1, TotalSizeNat, MempoolAssumption
<1>10. QED
  BY <1>3, <1>4, <1>7, <1>8, <1>9

LEMMA TotalSizeUnion ==
    ASSUME NEW S, NEW T, IsFiniteSet(S), IsFiniteSet(T), S \subseteq Tx, T \subseteq Tx, S \cap T = {}
    PROVE  TotalSize(S \cup T) = TotalSize(S) + TotalSize(T)
<1> DEFINE bad == {u \in SUBSET T : TotalSize(S \cup u) # TotalSize(S) + TotalSize(u)}
<1> SUFFICES ASSUME bad # {} PROVE FALSE
  OBVIOUS
<1>1. \A u \in SUBSET T : IsFiniteSet(u) /\ IsFiniteSet(S \cup u)
  BY FS_Subset, FS_Union
<1>2. PICK u \in bad : \A w \in bad : Cardinality(u) <= Cardinality(w)
  <2>1. \A w \in bad : IsFiniteSet(w)
    BY <1>1
  <2> HIDE DEF bad
  <2>2. QED
    BY <2>1, SmallestSet
<1>3. TotalSize(S) \in Nat
  BY TotalSizeNat
<1>4. u # {}
  <2>1. S \cup {} = S /\ TotalSize({}) = 0
    BY TotalSizeRec, FS_EmptySet
  <2>2. QED
    BY <1>2, <1>3, <2>1
<1>5. PICK x \in u : TRUE
  BY <1>4
<1>6. u \ {x} \notin bad
  <2>1. /\ Cardinality(u \ {x}) \in Nat /\ Cardinality(u \ {x}) = Cardinality(u) - 1
        /\ Cardinality(u) \in Nat
    BY <1>1, SmallerSet
  <2> HIDE DEF bad
  <2>2. QED
    BY <1>2, <2>1
<1>7. TotalSize(S \cup (u \ {x})) = TotalSize(S) + TotalSize(u \ {x})
  BY <1>6
<1>8. (S \cup u) \ {x} = S \cup (u \ {x}) /\ u \subseteq Tx /\ x \in Tx
  OBVIOUS
<1>9. TotalSize(u) = Size[x] + TotalSize(u \ {x})
  BY <1>1, <1>8, TotalSizeRemove
<1>10. TotalSize(S \cup u) = Size[x] + TotalSize(S \cup (u \ {x}))
  <2>1. x \in S \cup u /\ S \cup u \subseteq Tx /\ IsFiniteSet(S \cup u)
    BY <1>1
  <2>2. QED
    BY <1>8, <2>1, TotalSizeRemove
<1>11. TotalSize(u \ {x}) \in Nat /\ Size[x] \in Nat
  <2>1. IsFiniteSet(u \ {x})
    BY <1>1
  <2>2. QED
    BY <1>8, <2>1, TotalSizeNat, MempoolAssumption
<1>12. QED
  BY <1>2, <1>3, <1>7, <1>9, <1>10, <1>11

-----------------------------------------------------------------------------
(* TransactionsPending *)

QueueInv ==
    /\ Pending \subseteq Tx
    /\ NetTxs \in Seq(Tx \X BOOLEAN)
    /\ DOMAIN todo = Thread
    /\ PendingIsQueued

\* Steps after which the queue is as it was and the head of the main thread's
\* list, if it was a pending one, too.
LEMMA QueueFrame ==
    ASSUME QueueInv, Pending' \subseteq Pending, NetTxs' = NetTxs, DOMAIN todo' = Thread,
           \A t \in Pending' : todo["main"] # <<>> /\ Head(todo["main"]) \in
                {HandleStep(t, trusted, FALSE, FALSE) : trusted \in BOOLEAN} =>
              todo'["main"] = todo["main"]
    PROVE  QueueInv'
<1>1. PendingIsQueued'
  BY DEF QueueInv, PendingIsQueued
<1>2. QED
  BY <1>1 DEF QueueInv

LEMMA QueueStep == QueueInv /\ [Next]_vars => QueueInv'
<1> SUFFICES ASSUME QueueInv, [Next]_vars PROVE QueueInv'
  OBVIOUS
<1>m. "main" \in Thread /\ "webui" \in Thread /\ "main" # "webui"
  BY DEF Thread
<1>1. ASSUME NEW t \in Tx, ParseTxNetTooBig(t) \/ DeleteTx(t) PROVE QueueInv'
  <2>1. UNCHANGED <<Pending, NetTxs, todo>>
    BY <1>1 DEF ParseTxNetTooBig, DeleteTx, netVars
  <2>2. QED
    BY <2>1, QueueFrame DEF QueueInv
<1>2. ASSUME NEW t \in Tx, LoadRawTx(t) PROVE QueueInv'
  <2>1. UNCHANGED <<Pending, NetTxs>> /\ todo' = [todo EXCEPT !["webui"] = <<NeedStep(t, TRUE, TRUE)>>]
    BY <1>2 DEF LoadRawTx, netVars
  <2>2. DOMAIN todo' = Thread /\ todo'["main"] = todo["main"]
    BY <1>m, <2>1 DEF QueueInv
  <2>3. QED
    BY <2>1, <2>2, QueueFrame
<1>3. ASSUME NEW t \in Tx, NEW trusted \in BOOLEAN, ParseTxNet(t, trusted) PROVE QueueInv'
  <2>1. /\ NetTxs' = Append(NetTxs, <<t, trusted>>) /\ Pending' = Pending \cup {t} /\ todo' = todo
        /\ NetTxs \in Seq(Tx \X BOOLEAN)
    BY <1>3 DEF ParseTxNet, QueueInv
  <2>2. /\ NetTxs' \in Seq(Tx \X BOOLEAN)
        /\ \A i \in DOMAIN NetTxs : i \in DOMAIN NetTxs' /\ NetTxs'[i] = NetTxs[i]
        /\ Len(NetTxs) + 1 \in DOMAIN NetTxs' /\ NetTxs'[Len(NetTxs) + 1] = <<t, trusted>>
    BY <2>1
  <2>3. PendingIsQueued'
    <3> SUFFICES ASSUME NEW q \in Pending'
                 PROVE  \/ \E i \in DOMAIN NetTxs' : NetTxs'[i][1] = q
                        \/ todo["main"] # <<>> /\ Head(todo["main"]) \in
                             {HandleStep(q, x, FALSE, FALSE) : x \in BOOLEAN}
      BY <2>1 DEF PendingIsQueued
    <3>1. CASE q = t
      <4>1. NetTxs'[Len(NetTxs) + 1][1] = q
        BY <2>2, <3>1
      <4>2. QED
        BY <2>2, <4>1
    <3>2. CASE q \in Pending
      <4>1. \/ \E i \in DOMAIN NetTxs : NetTxs[i][1] = q
            \/ todo["main"] # <<>> /\ Head(todo["main"]) \in
                 {HandleStep(q, x, FALSE, FALSE) : x \in BOOLEAN}
        BY <3>2 DEF QueueInv, PendingIsQueued
      <4>2. (\E i \in DOMAIN NetTxs : NetTxs[i][1] = q) => \E i \in DOMAIN NetTxs' : NetTxs'[i][1] = q
        BY <2>2
      <4>3. QED
        BY <4>1, <4>2
    <3>3. QED
      BY <2>1, <3>1, <3>2
  <2>4. QED
    BY <2>1, <2>2, <2>3 DEF QueueInv
<1>4. CASE TakeNetTx
  <2>1. /\ todo["main"] = <<>> /\ NetTxs # <<>> /\ NetTxs \in Seq(Tx \X BOOLEAN)
        /\ todo' = [todo EXCEPT !["main"] = <<HandleStep(Head(NetTxs)[1], Head(NetTxs)[2], FALSE, FALSE)>>]
        /\ NetTxs' = Tail(NetTxs) /\ Pending' = Pending
    BY <1>4 DEF TakeNetTx, QueueInv
  <2>2. /\ NetTxs' \in Seq(Tx \X BOOLEAN) /\ DOMAIN todo' = Thread
        /\ todo'["main"] = <<HandleStep(Head(NetTxs)[1], Head(NetTxs)[2], FALSE, FALSE)>>
    <3>1. NetTxs' \in Seq(Tx \X BOOLEAN)
      BY <2>1
    <3> DEFINE x == <<HandleStep(Head(NetTxs)[1], Head(NetTxs)[2], FALSE, FALSE)>>
    <3> HIDE DEF x
    <3>2. todo' = [todo EXCEPT !["main"] = x]
      BY <2>1 DEF x
    <3>3. DOMAIN todo' = Thread /\ todo'["main"] = x
      BY <1>m, <3>2 DEF QueueInv
    <3>4. QED
      BY <3>1, <3>3 DEF x
  <2>3. Head(NetTxs)[2] \in BOOLEAN
    BY <2>1
  <2>4. ASSUME NEW t \in Pending
        PROVE  \/ \E i \in DOMAIN NetTxs' : NetTxs'[i][1] = t
               \/ todo'["main"] # <<>> /\ Head(todo'["main"]) \in
                    {HandleStep(t, trusted, FALSE, FALSE) : trusted \in BOOLEAN}
    <3>1. PICK i \in DOMAIN NetTxs : NetTxs[i][1] = t
      BY <2>1 DEF QueueInv, PendingIsQueued
    <3>2. CASE i = 1
      <4>1. Head(NetTxs)[1] = t
        BY <2>1, <3>1, <3>2
      <4>2. todo'["main"] = <<HandleStep(t, Head(NetTxs)[2], FALSE, FALSE)>>
        BY <2>2, <4>1
      <4>3. todo'["main"] # <<>> /\ Head(todo'["main"]) = HandleStep(t, Head(NetTxs)[2], FALSE, FALSE)
        BY <4>2
      <4>4. QED
        BY <2>3, <4>3
    <3>3. CASE i # 1
      <4>1. i - 1 \in DOMAIN NetTxs' /\ NetTxs'[i - 1] = NetTxs[i]
        BY <2>1, <3>3
      <4>2. QED
        BY <3>1, <4>1
    <3>4. QED
      BY <3>2, <3>3
  <2>5. PendingIsQueued'
    BY <2>1, <2>4 DEF PendingIsQueued
  <2>6. QED
    BY <2>1, <2>2, <2>5 DEF QueueInv
<1>5. ASSUME NEW th \in Thread, DoHandle(th) PROVE QueueInv'
  <2> DEFINE s == Head(todo[th])
  <2>1. /\ todo[th] # <<>> /\ s.do = "handle" /\ NetTxs' = NetTxs
        /\ HandleNetTx(th, s.tx, s.trusted, s.local, s.retry, Tail(todo[th]))
    BY <1>5 DEF DoHandle
  <2>2. Pending' \subseteq Pending /\ (s.tx \in Pending' => s.retry \/ s.tx \notin Pending)
    BY <2>1 DEF HandleNetTx
  <2>3. \E x : todo' = [todo EXCEPT ![th] = x]
    BY <2>1 DEF HandleNetTx
  <2>4. DOMAIN todo' = Thread /\ (th # "main" => todo'["main"] = todo["main"])
    BY <2>3 DEF QueueInv, Thread
  <2>5. ASSUME NEW t \in Pending', NEW x \in BOOLEAN, th = "main", s = HandleStep(t, x, FALSE, FALSE)
        PROVE  FALSE
    <3>1. s.tx = t /\ s.retry = FALSE
      <4>1. Head(todo[th]) = HandleStep(t, x, FALSE, FALSE)
        BY <2>5
      <4>2. QED
        BY <4>1 DEF HandleStep
    <3>2. QED
      BY <2>2, <3>1
  <2>6. QED
    BY <2>1, <2>2, <2>4, <2>5, QueueFrame
<1>6. ASSUME NEW th \in Thread, DoRetry(th) PROVE QueueInv'
  <2>1. todo[th] # <<>> /\ Head(todo[th]).do = "retry" /\ NetTxs' = NetTxs
    BY <1>6 DEF DoRetry
  <2>2. Pending' \subseteq Pending
    BY <1>6 DEF DoRetry, HandleNetTx
  <2>3. \E x : todo' = [todo EXCEPT ![th] = x]
    BY <1>6 DEF DoRetry, HandleNetTx
  <2>4. DOMAIN todo' = Thread /\ (th # "main" => todo'["main"] = todo["main"])
    BY <2>3 DEF QueueInv, Thread
  <2>5. ASSUME NEW t, NEW x, Head(todo[th]) = HandleStep(t, x, FALSE, FALSE) PROVE FALSE
    <3>1. Head(todo[th]).do = "handle"
      <4>1. Head(todo[th]) = HandleStep(t, x, FALSE, FALSE)
        BY <2>5
      <4>2. QED
        BY <4>1 DEF HandleStep
    <3>2. QED
      BY <2>1, <3>1
  <2>6. QED
    BY <2>1, <2>2, <2>4, <2>5, QueueFrame
<1>7. ASSUME NEW th \in Thread, DoNeed(th) \/ DoMark(th) PROVE QueueInv'
  <2>1. todo[th] # <<>> /\ Head(todo[th]).do \in {"need", "mark"} /\ UNCHANGED <<NetTxs, Pending>>
    BY <1>7 DEF DoNeed, DoMark, netVars
  <2>3. \E x : todo' = [todo EXCEPT ![th] = x]
    BY <1>7 DEF DoNeed, DoMark
  <2>4. DOMAIN todo' = Thread /\ (th # "main" => todo'["main"] = todo["main"])
    BY <2>3 DEF QueueInv, Thread
  <2>5. ASSUME NEW t, NEW x, Head(todo[th]) = HandleStep(t, x, FALSE, FALSE) PROVE FALSE
    <3>1. Head(todo[th]).do = "handle"
      <4>1. Head(todo[th]) = HandleStep(t, x, FALSE, FALSE)
        BY <2>5
      <4>2. QED
        BY <4>1 DEF HandleStep
    <3>2. QED
      BY <2>1, <3>1
  <2>6. QED
    BY <2>1, <2>4, <2>5, QueueFrame
<1>8. ASSUME BlockUndone \/ MempoolLoadNew \/ ExpireTxs \/ MempoolSave \/ \E b \in Blocks : BlockMined(b)
      PROVE  QueueInv'
  <2>1. todo["main"] = <<>> /\ Pending' \subseteq Pending /\ NetTxs' = NetTxs
    BY <1>8 DEF BlockUndone, MempoolLoadNew, ExpireTxs, MempoolSave, BlockMined, netVars
  <2>2. todo' = todo \/ \E x : todo' = [todo EXCEPT !["main"] = x]
    BY <1>8 DEF BlockUndone, MempoolLoadNew, ExpireTxs, MempoolSave, BlockMined
  <2>3. DOMAIN todo' = Thread
    BY <2>2 DEF QueueInv
  <2>4. QED
    BY <2>1, <2>3, QueueFrame
<1>9. ASSUME NEW n, Restart(n) PROVE QueueInv'
  BY <1>9 DEF Restart, QueueInv, PendingIsQueued
<1>10. CASE UNCHANGED vars
  BY <1>10, QueueFrame DEF vars, netVars, QueueInv
<1>11. QED
  BY <1>1, <1>2, <1>3, <1>4, <1>5, <1>6, <1>7, <1>8, <1>9, <1>10 DEF Next

\* TransactionsPending: a transaction that NeedThisTx refuses because it is
\* pending is going to be handled, with the channel full, blocks mined and
\* undone meanwhile, and whatever the web interface does.
THEOREM PendingStaysQueued == Spec => []PendingIsQueued
<1>1. Init => QueueInv
  BY DEF Init, QueueInv, PendingIsQueued
<1>2. QueueInv => PendingIsQueued
  BY DEF QueueInv
<1>3. QED
  BY <1>1, <1>2, QueueStep, PTL DEF Spec

-----------------------------------------------------------------------------
(* The types *)

LEMMA FiniteSums ==
    ASSUME NEW S, S \subseteq Tx
    PROVE  IsFiniteSet(S) /\ TotalSize(S) \in Nat
BY TotalSizeNat, FS_Subset, MempoolAssumption

LEMMA FiniteOuts ==
    ASSUME NEW S, S \subseteq Out
    PROVE  IsFiniteSet(S) /\ Cardinality(S) \in Nat
BY FS_CardinalityType, FS_Subset, MempoolAssumption

LEMMA InsAreOuts ==
    ASSUME NEW t \in Tx
    PROVE  /\ InsOf(t) \subseteq Out
           /\ InsOf(t) = {Ins[t][i] : i \in 1..Len(Ins[t])}
BY MempoolAssumption DEF InsOf, Range

LEMMA EmptyType == Empty \in Pool
BY DEF Empty, Pool, Id

LEMMA RejectTxType ==
    ASSUME NEW m \in Pool, NEW S, S \subseteq Tx, NEW why \in Reasons
    PROVE  RejectTx(m, S, why) \in Pool
<1> DEFINE rej == [t \in Tx |-> IF t \in S THEN why ELSE m.rej[t]]
           w4 == [t \in Tx |-> IF t \in S THEN None ELSE m.w4[t]]
           size == m.rejSize + IF why \in Kept THEN TotalSize(S) ELSE 0
<1>1. rej \in [Tx -> Reasons \cup {None}] /\ w4 \in [Tx -> Id \cup {None}] /\ size \in Int
  BY FiniteSums DEF Pool
<1>2. RejectTx(m, S, why) = [m EXCEPT !.rej = rej, !.w4 = w4, !.rejSize = size]
  BY Zenon DEF RejectTx
<1> HIDE DEF rej, w4, size
<1>3. [m EXCEPT !.rej = rej, !.w4 = w4, !.rejSize = size] \in Pool
  BY <1>1 DEF Pool
<1>4. QED
  BY <1>2, <1>3

LEMMA DeleteType ==
    ASSUME NEW m \in Pool, NEW S, NEW why \in Reasons \cup {None}
    PROVE  Delete(m, S, why) \in Pool
<1> DEFINE gone == S \cap m.toSend
           toSend == m.toSend \ S
           spent == [o \in Out |-> IF \E t \in gone : o \in InsOf(t) THEN None ELSE m.spent[o]]
           mem == [t \in Tx |-> IF t \in gone THEN {} ELSE m.mem[t]]
           memCnt == [t \in Tx |-> IF t \in gone THEN 0 ELSE m.memCnt[t]]
           size == m.size - TotalSize(gone)
           n == [m EXCEPT !.toSend = toSend, !.spent = spent, !.mem = mem, !.memCnt = memCnt, !.size = size]
<1>1. gone \subseteq Tx
  BY DEF Pool
<1>2. /\ toSend \in SUBSET Tx /\ spent \in [Out -> Tx \cup {None}] /\ mem \in [Tx -> SUBSET Out]
      /\ memCnt \in [Tx -> Int] /\ size \in Int
  BY <1>1, FiniteSums DEF Pool
<1>3. Delete(m, S, why) = IF why = None THEN n ELSE RejectTx(n, gone, why)
  BY Zenon DEF Delete
<1> HIDE DEF gone, toSend, spent, mem, memCnt, size
<1>4. n \in Pool
  BY <1>2 DEF Pool
<1> HIDE DEF n
<1>5. why # None => RejectTx(n, gone, why) \in Pool
  BY <1>1, <1>4, RejectTxType
<1>6. QED
  BY <1>3, <1>4, <1>5

LEMMA DeleteRejectedType ==
    ASSUME NEW m \in Pool, NEW S, S \subseteq Tx
    PROVE  DeleteRejected(m, S) \in Pool
<1> DEFINE gone == {t \in S : m.rej[t] # None}
           kept == {t \in gone : m.rej[t] \in Kept}
           rej == [t \in Tx |-> IF t \in gone THEN None ELSE m.rej[t]]
           w4 == [t \in Tx |-> IF t \in gone THEN None ELSE m.w4[t]]
           size == m.rejSize - TotalSize(kept)
           waiting == [i \in Id |-> m.waiting[i] \ {t \in gone : m.w4[t] = i}]
<1>1. kept \subseteq Tx
  OBVIOUS
<1>2. TotalSize(kept) \in Nat
  BY <1>1, FiniteSums
<1>3. /\ rej \in [Tx -> Reasons \cup {None}] /\ w4 \in [Tx -> Id \cup {None}] /\ size \in Int
      /\ waiting \in [Id -> SUBSET Tx]
  BY <1>2 DEF Pool
<1>4. DeleteRejected(m, S) = [m EXCEPT !.rej = rej, !.w4 = w4, !.rejSize = size, !.waiting = waiting]
  BY Zenon DEF DeleteRejected
<1> HIDE DEF rej, w4, size, waiting
<1>5. [m EXCEPT !.rej = rej, !.w4 = w4, !.rejSize = size, !.waiting = waiting] \in Pool
  BY <1>3 DEF Pool
<1>6. QED
  BY <1>4, <1>5

LEMMA MarkType ==
    ASSUME NEW m \in Pool, NEW t
    PROVE  MarkChildren(m, t) \in Pool /\ UnMarkChildren(m, t) \in Pool
<1> DEFINE of(c) == {o \in OutsOf(t) : m.spent[o] = c}
           more == [c \in Tx |-> m.memCnt[c] + Cardinality(of(c))]
           with == [c \in Tx |-> m.mem[c] \cup of(c)]
           left == [c \in Tx |-> IF c \in m.toSend /\ m.memCnt[c] # 0 THEN m.memCnt[c] - Cardinality(of(c))
                                 ELSE m.memCnt[c]]
           without == [c \in Tx |-> IF left[c] = 0 THEN {} ELSE m.mem[c] \ OutsOf(t)]
<1>1. \A c \in Tx : of(c) \subseteq Out
  BY DEF OutsOf
<1>2. \A c \in Tx : Cardinality(of(c)) \in Nat
  <2> HIDE DEF of
  <2>1. QED
    BY <1>1, FiniteOuts
<1>3. MarkChildren(m, t) = [m EXCEPT !.memCnt = more, !.mem = with]
  BY Zenon DEF MarkChildren
<1>4. UnMarkChildren(m, t) = [m EXCEPT !.memCnt = left, !.mem = without]
  BY Zenon DEF UnMarkChildren
<1> HIDE DEF of
<1>5. more \in [Tx -> Int] /\ with \in [Tx -> SUBSET Out]
  BY <1>1, <1>2 DEF Pool
<1>6. left \in [Tx -> Int]
  BY <1>2 DEF Pool
<1> HIDE DEF left
<1>7. without \in [Tx -> SUBSET Out]
  BY DEF Pool
<1> HIDE DEF more, with, without
<1>8. [m EXCEPT !.memCnt = more, !.mem = with] \in Pool
  BY <1>5 DEF Pool
<1>9. [m EXCEPT !.memCnt = left, !.mem = without] \in Pool
  BY <1>6, <1>7 DEF Pool
<1>10. QED
  BY <1>3, <1>4, <1>8, <1>9

LEMMA AcceptType ==
    ASSUME NEW m \in Pool, NEW t \in Tx
    PROVE  Accept(m, t) \in Pool
<1> DEFINE mem == {o \in InsOf(t) : OutTx[o] \in m.toSend}
           cnt == Cardinality(mem)
           n == Delete(m, Replaced(m, t, Len(Ins[t])), "REPLACED")
           toSend == n.toSend \cup {t}
           spent == [o \in Out |-> IF o \in InsOf(t) THEN t ELSE n.spent[o]]
           size == n.size + Size[t]
<1>1. Accept(m, t) = [n EXCEPT !.toSend = toSend, !.spent = spent, !.mem[t] = mem, !.memCnt[t] = cnt,
                               !.size = size]
  BY Zenon DEF Accept
<1>2. n \in Pool
  BY DeleteType DEF Reasons
<1> HIDE DEF n
<1>3. mem \subseteq Out
  BY InsAreOuts
<1> HIDE DEF mem
<1>4. cnt \in Int
  BY <1>3, FiniteOuts
<1>5. toSend \in SUBSET Tx /\ spent \in [Out -> Tx \cup {None}] /\ size \in Int
  BY <1>2, MempoolAssumption, SMTT(30) DEF Pool
<1> HIDE DEF cnt, toSend, spent, size
<1>6. [n EXCEPT !.toSend = toSend, !.spent = spent, !.mem[t] = mem, !.memCnt[t] = cnt, !.size = size] \in Pool
  BY <1>2, <1>3, <1>4, <1>5 DEF Pool
<1>7. QED
  BY <1>1, <1>6

\* The input that decides is one of the transaction's.
LEMMA FirstBad ==
    ASSUME NEW t \in Tx, NEW B, B \subseteq DOMAIN Ins[t], B # {}
    PROVE  Min(B) \in B /\ Ins[t][Min(B)] \in InsOf(t) /\ Ins[t][Min(B)] \in Out
           /\ OutTx[Ins[t][Min(B)]] \in Id
<1>1. Ins[t] \in Seq(Out) /\ OutTx \in [Out -> Id]
  BY MempoolAssumption
<1>2. B \in SUBSET Nat
  BY <1>1
<1>3. \E x \in B : \A y \in B : x <= y
  BY <1>2, LeastNat
<1>4. Min(B) \in B
  BY <1>3 DEF Min
<1>5. QED
  BY <1>1, <1>4 DEF InsOf, Range

LEMMA WaitForInputType ==
    ASSUME NEW m \in Pool, NEW t \in Tx, NEW trusted,
           {i \in DOMAIN Ins[t] : OfInput(m, t, i, trusted) # {"OK"}} # {}
    PROVE  WaitForInput(m, t, trusted) \in Pool
<1> DEFINE B == {i \in DOMAIN Ins[t] : OfInput(m, t, i, trusted) # {"OK"}}
           p == OutTx[Ins[t][Min(B)]]
           r == RejectTx(m, {t}, "NO_TXOU")
           n == [r EXCEPT !.w4[t] = p, !.waiting[p] = r.waiting[p] \cup {t}]
<1>1. WaitForInput(m, t, trusted) = n
  BY Zenon DEF WaitForInput
<1>2. p \in Id
  <2>1. B \subseteq DOMAIN Ins[t] /\ B # {}
    OBVIOUS
  <2> HIDE DEF B
  <2>2. QED
    BY <2>1, FirstBad
<1>3. r \in Pool
  BY RejectTxType DEF Reasons
<1> HIDE DEF p, r
<1>4. r.waiting[p] \cup {t} \in SUBSET Tx
  BY <1>2, <1>3 DEF Pool
<1>5. n \in Pool
  BY <1>2, <1>3, <1>4 DEF Pool
<1>6. QED
  BY <1>1, <1>5

\* Only an input makes a transaction wait, and a verdict is a reason else.
LEMMA VerdictType ==
    ASSUME NEW m, NEW t, NEW trusted, NEW local, NEW v \in Verdicts(m, t, trusted, local)
    PROVE  /\ v \in Reasons \cup {"OK", "WAIT", "SCRIPT"}
           /\ v = "WAIT" => {i \in DOMAIN Ins[t] : OfInput(m, t, i, trusted) # {"OK"}} # {}
<1> DEFINE bad == {n \in DOMAIN Ins[t] : OfInput(m, t, n, trusted) # {"OK"}}
<1>1. ASSUME NEW n, NEW w \in OfInput(m, t, n, trusted) PROVE w \in Reasons \cup {"OK", "WAIT"}
  BY <1>1 DEF OfInput, Reasons
<1>2. CASE bad # {}
  <2>1. v \in OfInput(m, t, Min(bad), trusted)
    BY <1>2 DEF Verdicts
  <2> HIDE DEF bad
  <2>2. v \in Reasons \cup {"OK", "WAIT"}
    BY <1>1, <2>1
  <2>3. QED
    BY <1>2, <2>2 DEF bad
<1>3. CASE bad = {}
  <2>1. v \in {"OVERSPEND", "LOW_FEE", "RBF_LOWFEE", "SCRIPT", "OK"}
    BY <1>3 DEF Verdicts
  <2>2. QED
    BY <2>1 DEF Reasons
<1>4. QED
  BY <1>2, <1>3

LEMMA JudgedType ==
    ASSUME NEW m \in Pool, NEW t \in Tx, NEW trusted, NEW local, NEW v \in Verdicts(m, t, trusted, local)
    PROVE  Judged(m, t, trusted, v) \in Pool
<1>1. CASE v = "OK"
  BY <1>1, AcceptType DEF Judged
<1>2. CASE v = "WAIT"
  <2>1. WaitForInput(m, t, trusted) \in Pool
    BY <1>2, VerdictType, WaitForInputType
  <2>2. QED
    BY <1>2, <2>1 DEF Judged
<1>3. CASE v = "SCRIPT"
  BY <1>3 DEF Judged
<1>4. CASE v \notin {"OK", "WAIT", "SCRIPT"}
  <2>1. RejectTx(m, {t}, v) \in Pool
    BY <1>4, VerdictType, RejectTxType
  <2>2. QED
    BY <1>4, <2>1 DEF Judged
<1>5. QED
  BY <1>1, <1>2, <1>3, <1>4

LEMMA TxMinedType ==
    ASSUME NEW m \in Pool, NEW t \in Tx
    PROVE  TxMined(m, t) \in Pool
<1> DEFINE k == IF t \in m.toSend THEN Delete(UnMarkChildren(m, t), {t}, None) ELSE m
           n == DeleteRejected(k, {t})
           S == WithChildren(n, {n.spent[o] : o \in InsOf(t)} \ {None})
<1>1. TxMined(m, t) = Delete(n, S, None)
  BY Zenon DEF TxMined
<1>2. k \in Pool
  BY MarkType, DeleteType
<1> HIDE DEF k
<1>3. n \in Pool
  BY <1>2, DeleteRejectedType
<1> HIDE DEF n, S
<1>4. QED
  BY <1>1, <1>3, DeleteType

\* The transactions of a block, one after the other.
LEMMA AfterMinedRec ==
    ASSUME NEW m, NEW b, Len(b) \in Nat
    PROVE  \A i \in 0..Len(b) : AfterMined(m, b)[i] =
                                  IF i = 0 THEN m ELSE TxMined(AfterMined(m, b)[i - 1], b[i])
<1> DEFINE Is(f, n) == f = [i \in 0..n |-> IF i = 0 THEN m ELSE TxMined(f[i - 1], b[i])]
           after == AfterMined(m, b)
<1>1. ASSUME NEW n \in Nat PROVE \E f : Is(f, n)
  <2> DEFINE bad == {k \in Nat : ~ \E f : Is(f, k)}
  <2> SUFFICES ASSUME bad # {} PROVE FALSE
    OBVIOUS
  <2>1. PICK k \in bad : \A j \in bad : k <= j
    BY LeastNat
  <2>2. CASE k = 0
    <3>1. Is([i \in 0..0 |-> m], 0)
      OBVIOUS
    <3>2. QED
      BY <2>1, <2>2, <3>1
  <2>3. CASE k # 0
    <3>1. k - 1 \in Nat /\ k - 1 \notin bad
      <4>1. k \in Nat
        OBVIOUS
      <4> HIDE DEF bad
      <4>2. QED
        BY <2>1, <2>3, <4>1
    <3>2. PICK f : Is(f, k - 1)
      BY <3>1
    <3> DEFINE g == [i \in 0..k |-> IF i = k THEN TxMined(f[k - 1], b[k]) ELSE f[i]]
    <3>3. \A i \in 0..(k - 1) : g[i] = f[i] /\ f[i] = IF i = 0 THEN m ELSE TxMined(f[i - 1], b[i])
      BY <2>1, <3>2
    <3>4. ASSUME NEW i \in 0..k PROVE g[i] = IF i = 0 THEN m ELSE TxMined(g[i - 1], b[i])
      <4>1. CASE i = k
        <5>1. g[i] = TxMined(f[k - 1], b[k]) /\ k - 1 \in 0..(k - 1)
          BY <2>1, <2>3, <4>1
        <5>2. QED
          BY <2>3, <3>3, <4>1, <5>1
      <4>2. CASE i # k
        <5>1. i \in 0..(k - 1) /\ (i # 0 => i - 1 \in 0..(k - 1))
          BY <2>1, <4>2
        <5>2. QED
          BY <3>3, <5>1
      <4>3. QED
        BY <4>1, <4>2
    <3>5. g = [i \in 0..k |-> g[i]]
      OBVIOUS
    <3> HIDE DEF g
    <3>6. Is(g, k)
      BY <3>4, <3>5
    <3>7. QED
      BY <2>1, <3>6
  <2>4. QED
    BY <2>2, <2>3
<1>2. after = CHOOSE f : Is(f, Len(b))
  BY DEF AfterMined
<1>3. Is(after, Len(b))
  <2> HIDE DEF Is, after
  <2>1. QED
    BY <1>1, <1>2
<1> HIDE DEF after
<1>4. \A i \in 0..Len(b) : after[i] = IF i = 0 THEN m ELSE TxMined(after[i - 1], b[i])
  BY <1>3
<1>5. QED
  BY <1>4 DEF after

LEMMA AfterMinedType ==
    ASSUME NEW m \in Pool, NEW b \in Seq(Tx)
    PROVE  AfterMined(m, b)[Len(b)] \in Pool
<1> DEFINE after == AfterMined(m, b)
           bad == {k \in 0..Len(b) : after[k] \notin Pool}
<1>1. SUFFICES ASSUME bad # {} PROVE FALSE
  OBVIOUS
<1>2. \A i \in 0..Len(b) : after[i] = IF i = 0 THEN m ELSE TxMined(after[i - 1], b[i])
  BY AfterMinedRec
<1> HIDE DEF after
<1>3. PICK k \in bad : \A j \in bad : k <= j
  <2>1. bad \in SUBSET Nat
    OBVIOUS
  <2> HIDE DEF bad
  <2>2. QED
    BY <1>1, <2>1, LeastNat
<1>4. k # 0
  BY <1>2, <1>3
<1>5. k - 1 \in 0..Len(b) /\ k - 1 \notin bad /\ b[k] \in Tx
  BY <1>3, <1>4
<1>6. TxMined(after[k - 1], b[k]) \in Pool
  BY <1>5, TxMinedType
<1>7. QED
  BY <1>2, <1>3, <1>4, <1>6

\* FlattenSeq, which is recursive: the elements of the flat sequence are those
\* of the sequences in it.
LEMMA FlattenType ==
    ASSUME NEW X, NEW ss, Len(ss) \in Nat, \A i \in 1..Len(ss) : ss[i] \in Seq(X), Len(ss) = 0 => ss = <<>>
    PROVE  FlattenSeq(ss) \in Seq(X)
<1> DEFINE Is(f, n) == f = [i \in 1..n |-> IF i = 1 THEN ss[i] ELSE f[i - 1] \o ss[i]]
           flat == CHOOSE f : Is(f, Len(ss))
<1>1. CASE Len(ss) = 0
  BY <1>1 DEF FlattenSeq
<1>2. CASE Len(ss) # 0
  <2>1. FlattenSeq(ss) = flat[Len(ss)]
    BY <1>2 DEF FlattenSeq
  <2>2. ASSUME NEW n \in Nat PROVE \E f : Is(f, n)
    <3> DEFINE bad == {k \in Nat : ~ \E f : Is(f, k)}
    <3> SUFFICES ASSUME bad # {} PROVE FALSE
      OBVIOUS
    <3>1. PICK k \in bad : \A j \in bad : k <= j
      BY LeastNat
    <3>2. CASE k = 0
      <4>1. Is([i \in 1..0 |-> ss], 0)
        OBVIOUS
      <4>2. QED
        BY <3>1, <3>2, <4>1
    <3>3. CASE k # 0
      <4>1. k - 1 \in Nat /\ k - 1 \notin bad
        <5>1. k \in Nat
          OBVIOUS
        <5> HIDE DEF bad
        <5>2. QED
          BY <3>1, <3>3, <5>1
      <4>2. PICK f : Is(f, k - 1)
        BY <4>1
      <4> DEFINE g == [i \in 1..k |-> IF i = k THEN IF k = 1 THEN ss[k] ELSE f[k - 1] \o ss[k] ELSE f[i]]
      <4>3. \A i \in 1..(k - 1) : g[i] = f[i] /\ f[i] = IF i = 1 THEN ss[i] ELSE f[i - 1] \o ss[i]
        <5>1. k \in Nat /\ \A i \in 1..(k - 1) : i \in 1..k /\ i # k
          OBVIOUS
        <5>2. \A i \in 1..(k - 1) : g[i] = f[i]
          BY <5>1
        <5> HIDE DEF g
        <5>3. QED
          BY <4>2, <5>2
      <4>4. ASSUME NEW i \in 1..k PROVE g[i] = IF i = 1 THEN ss[i] ELSE g[i - 1] \o ss[i]
        <5>1. CASE i = k
          <6>1. g[i] = IF k = 1 THEN ss[k] ELSE f[k - 1] \o ss[k]
            BY <5>1
          <6>2. k # 1 => k - 1 \in 1..(k - 1)
            BY <3>1, <3>3
          <6>3. k # 1 => g[k - 1] = f[k - 1]
            BY <4>3, <6>2
          <6> HIDE DEF g
          <6>4. QED
            BY <5>1, <6>1, <6>3
        <5>2. CASE i # k
          <6>1. i \in 1..(k - 1) /\ (i # 1 => i - 1 \in 1..(k - 1))
            BY <3>1, <5>2
          <6> HIDE DEF g
          <6>2. QED
            BY <4>3, <6>1
        <5>3. QED
          BY <5>1, <5>2
      <4>5. g = [i \in 1..k |-> g[i]]
        OBVIOUS
      <4> HIDE DEF g
      <4>6. Is(g, k)
        BY <4>4, <4>5
      <4>7. QED
        BY <3>1, <4>6
    <3>4. QED
      BY <3>2, <3>3
  <2>3. Is(flat, Len(ss))
    <3> HIDE DEF Is
    <3>1. QED
      BY <2>2
  <2> HIDE DEF flat
  <2>4. \A i \in 1..Len(ss) : flat[i] = IF i = 1 THEN ss[i] ELSE flat[i - 1] \o ss[i]
    BY <2>3
  <2> DEFINE bad == {k \in 1..Len(ss) : flat[k] \notin Seq(X)}
  <2>5. SUFFICES ASSUME bad # {} PROVE FALSE
    BY <1>2, <2>1
  <2>6. PICK k \in bad : \A j \in bad : k <= j
    <3>1. bad \in SUBSET Nat
      OBVIOUS
    <3> HIDE DEF bad
    <3>2. QED
      BY <2>5, <3>1, LeastNat
  <2>7. k # 1
    BY <2>4, <2>6
  <2>8. k - 1 \in 1..Len(ss) /\ k - 1 \notin bad
    BY <2>6, <2>7
  <2>9. flat[k - 1] \in Seq(X) /\ ss[k] \in Seq(X) /\ flat[k] = flat[k - 1] \o ss[k]
    BY <2>4, <2>7, <2>8
  <2>10. \A x, y \in Seq(X) : x \o y \in Seq(X)
    OBVIOUS
  <2>11. QED
    BY <2>6, <2>9, <2>10
<1>3. QED
  BY <1>1, <1>2

\* What the threads have to do.
Steps ==
    {HandleStep(t, a, b, c) : t \in Tx, a \in BOOLEAN, b \in BOOLEAN, c \in BOOLEAN}
    \cup {NeedStep(t, a, b) : t \in Tx, a \in BOOLEAN, b \in BOOLEAN}
    \cup {MarkStep(t) : t \in Tx}
    \cup {RetryStep(t, ids) : t \in Tx, ids \in SUBSET Tx}

LEMMA StepType ==
    ASSUME NEW s \in Steps
    PROVE  /\ s.tx \in Tx
           /\ s.do = "handle" => {s.trusted, s.local, s.retry} \subseteq BOOLEAN
           /\ s.do = "need" => {s.trusted, s.local} \subseteq BOOLEAN
           /\ s.do = "retry" => s.ids \subseteq Tx
BY DEF Steps, HandleStep, NeedStep, MarkStep, RetryStep

RetrySteps == {RetryStep(t, ids) : t \in Tx, ids \in SUBSET Tx}

LEMMA RetriesForm ==
    ASSUME NEW m \in Pool, NEW ts \in Seq(Tx)
    PROVE  Retries(m, ts) \in Seq(RetrySteps)
<1> DEFINE w == m.waiting
           ss == [i \in DOMAIN ts |-> IF w[ts[i]] = {} THEN <<>> ELSE <<RetryStep(ts[i], w[ts[i]])>>]
<1>1. Retries(m, ts) = FlattenSeq(ss)
  BY Zenon DEF Retries
<1>2. ASSUME NEW i \in DOMAIN ts PROVE ss[i] \in Seq(RetrySteps)
  <2>1. ts[i] \in Tx /\ w[ts[i]] \in SUBSET Tx
    BY DEF Pool, Id
  <2>2. RetryStep(ts[i], w[ts[i]]) \in RetrySteps
    <3>1. ASSUME NEW t \in Tx, NEW ids \in SUBSET Tx PROVE RetryStep(t, ids) \in RetrySteps
      BY DEF RetrySteps
    <3>2. QED
      BY <2>1, <3>1
  <2>3. QED
    BY <2>2
<1>3. Len(ss) = Len(ts) /\ DOMAIN ts = 1..Len(ts) /\ Len(ts) \in Nat /\ (Len(ss) = 0 => ss = <<>>)
  <2>1. DOMAIN ts = 1..Len(ts) /\ Len(ts) \in Nat /\ DOMAIN ss = DOMAIN ts
    OBVIOUS
  <2> HIDE DEF w
  <2>2. QED
    BY <2>1
<1> HIDE DEF ss
<1>4. QED
  BY <1>1, <1>2, <1>3, FlattenType

LEMMA RetriesType ==
    ASSUME NEW m \in Pool, NEW ts \in Seq(Tx)
    PROVE  Retries(m, ts) \in Seq(Steps)
<1>1. RetrySteps \subseteq Steps
  BY DEF Steps, RetrySteps
<1>2. Retries(m, ts) \in Seq(RetrySteps)
  BY RetriesForm
<1>3. QED
  BY <1>1, <1>2

LowFee(m) == {t \in Tx : m.rej[t] = "LOW_FEE"}
Rate(t) == Max({MinMinFee, (1000 * Fee[t]) \div Size[t]})

LEMMA LimitPoolSizeForm ==
    ASSUME NEW m, NEW fee, NEW x \in LimitPoolSize(m, fee)
    PROVE  \/ x = <<m, fee>>
           \/ x = <<DeleteRejected(m, LowFee(m)), MinMinFee>>
           \/ \E R \in SUBSET m.toSend, t \in m.toSend :
                /\ WithChildren(m, R) = R
                /\ x = <<Delete(m, R, "LOW_FEE"), Rate(t)>>
<1> DEFINE tick == MaxPoolSize \div 32
           full == MaxPoolSize - tick
           ChildrenFirst(R) == WithChildren(m, R) = R
           GoesLast(R, t) ==
              /\ t \in R /\ ChildrenFirst(R) /\ ChildrenFirst(R \ {t})
              /\ m.size - TotalSize(R) <= full /\ m.size - TotalSize(R \ {t}) > full
           last == {y \in (SUBSET m.toSend) \X m.toSend : GoesLast(y[1], y[2])}
           gone == {<<Delete(m, y[1], "LOW_FEE"), Rate(y[2])>> : y \in last}
<1>1. x = <<m, fee>> \/ x = <<DeleteRejected(m, LowFee(m)), MinMinFee>> \/ x \in gone
  BY Zenon DEF LimitPoolSize, LowFee, Rate
<1>2. \A R, t : GoesLast(R, t) => WithChildren(m, R) = R
  OBVIOUS
<1> HIDE DEF GoesLast
<1>3. ASSUME x \in gone
      PROVE  \E R \in SUBSET m.toSend, t \in m.toSend :
                WithChildren(m, R) = R /\ x = <<Delete(m, R, "LOW_FEE"), Rate(t)>>
  <2>1. PICK y \in last : x = <<Delete(m, y[1], "LOW_FEE"), Rate(y[2])>>
    BY <1>3
  <2>2. y[1] \in SUBSET m.toSend /\ y[2] \in m.toSend /\ GoesLast(y[1], y[2])
    OBVIOUS
  <2>3. QED
    BY <1>2, <2>1, <2>2
<1>4. QED
  BY <1>1, <1>3

LEMMA LimitPoolSizeType ==
    ASSUME NEW m \in Pool, NEW fee \in Nat, NEW x \in LimitPoolSize(m, fee)
    PROVE  x[1] \in Pool /\ x[2] \in Nat
<1>1. \/ x = <<m, fee>>
      \/ x = <<DeleteRejected(m, LowFee(m)), MinMinFee>>
      \/ \E R, t : t \in m.toSend /\ x = <<Delete(m, R, "LOW_FEE"), Rate(t)>>
  BY LimitPoolSizeForm
<1>2. \A t \in Tx : Rate(t) \in Nat
  <2> SUFFICES ASSUME NEW t \in Tx PROVE Rate(t) \in Nat
    OBVIOUS
  <2> DEFINE r == (1000 * Fee[t]) \div Size[t]
  <2>1. r \in Nat /\ MinMinFee \in Nat
    <3>1. Fee[t] \in Nat /\ Size[t] \in Nat \ {0} /\ MinMinFee \in Nat
      BY MempoolAssumption DEF Id
    <3>2. QED
      BY <3>1
  <2> HIDE DEF r
  <2>2. \E y \in {MinMinFee, r} : \A z \in {MinMinFee, r} : y >= z
    BY <2>1
  <2>3. Max({MinMinFee, r}) \in {MinMinFee, r}
    BY <2>2 DEF Max
  <2>4. QED
    BY <2>1, <2>3 DEF r, Rate
<1>3. DeleteRejected(m, LowFee(m)) \in Pool
  BY DeleteRejectedType DEF LowFee
<1>4. \A R : Delete(m, R, "LOW_FEE") \in Pool
  BY DeleteType DEF Reasons
<1>5. m.toSend \subseteq Tx /\ MinMinFee \in Nat
  BY MempoolAssumption DEF Pool
<1>6. QED
  BY <1>1, <1>2, <1>3, <1>4, <1>5

LEMMA LimitRejectedType ==
    ASSUME NEW m, NEW r \in LimitRejectedSize(m)
    PROVE  r[1] \cup r[2] \subseteq {t \in Tx : m.rej[t] # None}
BY DEF LimitRejectedSize

LEMMA LoadType ==
    ASSUME NEW f, f.toSend \subseteq Tx, f.spent \in [Out -> Tx \cup {None}]
    PROVE  MempoolLoad2(f) \in Pool /\ MempoolLoad2(f).toSend = f.toSend /\ MempoolLoad2(f).spent = f.spent
           /\ MempoolLoad2(f).size = TotalSize(f.toSend)
           /\ MempoolLoad2(f).rej = Empty.rej /\ MempoolLoad2(f).w4 = Empty.w4
           /\ MempoolLoad2(f).waiting = Empty.waiting /\ MempoolLoad2(f).rejSize = 0
<1> DEFINE mem == [t \in Tx |-> IF t \in f.marked THEN {o \in InsOf(t) : OutTx[o] \in f.toSend} ELSE {}]
           cnt == [t \in Tx |-> Cardinality(mem[t])]
           size == TotalSize(f.toSend)
           n == [Empty EXCEPT !.toSend = f.toSend, !.spent = f.spent, !.mem = mem, !.memCnt = cnt, !.size = size]
<1>1. MempoolLoad2(f) = n
  BY Zenon DEF MempoolLoad2
<1>2. mem \in [Tx -> SUBSET Out]
  BY InsAreOuts
<1> HIDE DEF mem
<1>3. cnt \in [Tx -> Int]
  <2>1. \A t \in Tx : Cardinality(mem[t]) \in Int
    BY <1>2, FiniteOuts
  <2>2. QED
    BY <2>1
<1>4. size \in Int
  BY FiniteSums
<1> HIDE DEF cnt, size
<1>5. n \in Pool
  BY <1>2, <1>3, <1>4, EmptyType DEF Pool
<1>6. n.toSend = f.toSend /\ n.spent = f.spent /\ n.size = size /\ n.rej = Empty.rej
      /\ n.w4 = Empty.w4 /\ n.waiting = Empty.waiting /\ n.rejSize = 0
  BY DEF Empty
<1>7. QED
  BY <1>1, <1>5, <1>6 DEF size

TypeInv ==
    /\ TypeOK
    /\ \A th \in Thread : todo[th] \in Seq(Steps)
    /\ file # None => file.spent \in [Out -> Tx \cup {None}]

\* The thread th goes on with the list x.
LEMMA TodoType ==
    ASSUME TypeInv, NEW th \in Thread, NEW x \in Seq(Steps), todo' = [todo EXCEPT ![th] = x]
    PROVE  DOMAIN todo' = Thread /\ \A h \in Thread : todo'[h] \in Seq(Steps)
BY DEF TypeInv, TypeOK

LEMMA HandleNetTxType ==
    ASSUME TypeInv, NEW th \in Thread, NEW t \in Tx, NEW trusted, NEW local, NEW retry \in BOOLEAN,
           NEW rest \in Seq(Steps), HandleNetTx(th, t, trusted, local, retry, rest)
    PROVE  mp' \in Pool /\ Pending' \subseteq Tx
           /\ DOMAIN todo' = Thread /\ \A h \in Thread : todo'[h] \in Seq(Steps)
<1> DEFINE m == IF retry THEN DeleteRejected(mp, {t}) ELSE mp
<1>t. mp \in Pool /\ Pending \subseteq Tx
  BY DEF TypeInv, TypeOK
<1>1. m \in Pool
  BY <1>t, DeleteRejectedType
<1>2. CASE UNCHANGED <<mp, Pending>> /\ todo' = [todo EXCEPT ![th] = rest]
  BY <1>2, <1>t, TodoType
<1>3. ASSUME NEW v \in Verdicts(m, t, trusted, local), mp' = Judged(m, t, trusted, v),
             todo' = [todo EXCEPT ![th] = (IF v = "OK" THEN Retries(mp', <<t>>) ELSE <<>>) \o rest],
             Pending' = IF retry THEN Pending ELSE Pending \ {t}
      PROVE  mp' \in Pool /\ Pending' \subseteq Tx
             /\ DOMAIN todo' = Thread /\ \A h \in Thread : todo'[h] \in Seq(Steps)
  <2> HIDE DEF m
  <2>1. mp' \in Pool
    BY <1>1, <1>3, JudgedType
  <2> DEFINE x == (IF v = "OK" THEN Retries(mp', <<t>>) ELSE <<>>) \o rest
  <2>2. x \in Seq(Steps)
    <3>1. <<t>> \in Seq(Tx)
      OBVIOUS
    <3>2. Retries(mp', <<t>>) \in Seq(Steps)
      BY <2>1, <3>1, RetriesType
    <3>3. \A a, b \in Seq(Steps) : a \o b \in Seq(Steps)
      OBVIOUS
    <3>4. <<>> \in Seq(Steps)
      OBVIOUS
    <3>5. QED
      BY <3>2, <3>3, <3>4
  <2>3. todo' = [todo EXCEPT ![th] = x]
    BY <1>3
  <2> HIDE DEF x
  <2>4. DOMAIN todo' = Thread /\ \A h \in Thread : todo'[h] \in Seq(Steps)
    BY <2>2, <2>3, TodoType
  <2>5. Pending' \subseteq Tx
    BY <1>3, <1>t
  <2>6. QED
    BY <2>1, <2>4, <2>5
<1>4. QED
  BY <1>2, <1>3, Zenon DEF HandleNetTx

LEMMA BlocksType ==
    ASSUME NEW b \in Blocks
    PROVE  b \in Seq(Tx)
<1>1. PICK n \in 1..MaxBlock : b \in [1..n -> Tx]
  BY DEF Blocks
<1>2. QED
  BY <1>1, MempoolAssumption

LEMMA TypeStep == TypeInv /\ [Next]_vars => TypeInv'
<1> SUFFICES ASSUME TypeInv, [Next]_vars PROVE TypeInv'
  OBVIOUS
<1>t. /\ mp \in Pool /\ Pending \subseteq Tx /\ NetTxs \in Seq(Tx \X BOOLEAN) /\ Len(NetTxs) <= MaxQueue
      /\ minFee \in Nat /\ chain \in Seq(Seq(Tx)) /\ DOMAIN todo = Thread /\ panicked \in BOOLEAN
      /\ \A th \in Thread : todo[th] \in Seq(Steps)
      /\ MaxQueue \in Nat
  BY MempoolAssumption DEF TypeInv, TypeOK
<1>th. "main" \in Thread /\ "webui" \in Thread
  BY DEF Thread
<1> DEFINE TodoOK == DOMAIN todo = Thread /\ \A th \in Thread : todo[th] \in Seq(Steps)
<1>f. ASSUME UNCHANGED <<file, chain, minFee, panicked, NetTxs>>, mp' \in Pool, Pending' \subseteq Tx, TodoOK'
      PROVE  TypeInv'
  BY <1>f, <1>t DEF TypeInv, TypeOK
<1>n. \A t \in Tx : \A a, b \in BOOLEAN : NeedStep(t, a, b) \in Steps /\ MarkStep(t) \in Steps
          /\ \A c \in BOOLEAN : HandleStep(t, a, b, c) \in Steps
  BY DEF Steps
<1>1. ASSUME NEW t \in Tx, ParseTxNetTooBig(t) PROVE TypeInv'
  <2>1. mp' = RejectTx(mp, {t}, "TOO_BIG") /\ UNCHANGED <<file, chain, minFee, panicked, NetTxs, Pending, todo>>
    BY <1>1 DEF ParseTxNetTooBig, netVars
  <2>2. mp' \in Pool
    BY <1>t, <2>1, RejectTxType DEF Reasons
  <2>3. QED
    BY <1>f, <1>t, <2>1, <2>2
<1>2. ASSUME NEW t \in Tx, LoadRawTx(t) PROVE TypeInv'
  <2>1. /\ mp' = DeleteRejected(mp, {t}) /\ UNCHANGED <<file, chain, minFee, panicked, NetTxs, Pending>>
        /\ todo' = [todo EXCEPT !["webui"] = <<NeedStep(t, TRUE, TRUE)>>]
    BY <1>2 DEF LoadRawTx, netVars
  <2>2. mp' \in Pool
    BY <1>t, <2>1, DeleteRejectedType
  <2>3. \A s \in Steps : <<s>> \in Seq(Steps)
    OBVIOUS
  <2>4. <<NeedStep(t, TRUE, TRUE)>> \in Seq(Steps)
    BY <1>n, <2>3
  <2>5. TodoOK'
    BY <1>th, <2>1, <2>4, TodoType
  <2>6. QED
    BY <1>f, <1>t, <2>1, <2>2, <2>5
<1>3. ASSUME NEW t \in Tx, DeleteTx(t) PROVE TypeInv'
  <2>1. /\ mp' = Delete(mp, WithChildren(mp, {t}), None)
        /\ UNCHANGED <<file, chain, minFee, panicked, NetTxs, Pending, todo>>
    BY <1>3 DEF DeleteTx, netVars
  <2>2. mp' \in Pool
    BY <1>t, <2>1, DeleteType
  <2>3. QED
    BY <1>f, <1>t, <2>1, <2>2
<1>4. ASSUME NEW t \in Tx, NEW trusted \in BOOLEAN, ParseTxNet(t, trusted) PROVE TypeInv'
  <2>1. /\ NetTxs' = Append(NetTxs, <<t, trusted>>) /\ Len(NetTxs) < MaxQueue /\ Pending' = Pending \cup {t}
        /\ UNCHANGED <<mp, file, chain, minFee, panicked, todo>>
    BY <1>4 DEF ParseTxNet
  <2>2. NetTxs' \in Seq(Tx \X BOOLEAN) /\ Len(NetTxs') <= MaxQueue
    BY <1>t, <2>1
  <2>3. QED
    BY <1>t, <2>1, <2>2 DEF TypeInv, TypeOK
<1>5. CASE TakeNetTx
  <2>1. /\ NetTxs # <<>> /\ NetTxs' = Tail(NetTxs)
        /\ todo' = [todo EXCEPT !["main"] = <<HandleStep(Head(NetTxs)[1], Head(NetTxs)[2], FALSE, FALSE)>>]
        /\ UNCHANGED <<mp, Pending, minFee, chain, file, panicked>>
    BY <1>5 DEF TakeNetTx
  <2>2. NetTxs' \in Seq(Tx \X BOOLEAN) /\ Len(NetTxs') <= MaxQueue /\ Head(NetTxs) \in Tx \X BOOLEAN
    BY <1>t, <2>1
  <2>3. HandleStep(Head(NetTxs)[1], Head(NetTxs)[2], FALSE, FALSE) \in Steps
    <3>1. Head(NetTxs)[1] \in Tx /\ Head(NetTxs)[2] \in BOOLEAN
      BY <2>2
    <3>2. QED
      BY <1>n, <3>1
  <2>4. \A s \in Steps : <<s>> \in Seq(Steps)
    OBVIOUS
  <2>5. <<HandleStep(Head(NetTxs)[1], Head(NetTxs)[2], FALSE, FALSE)>> \in Seq(Steps)
    BY <2>3, <2>4
  <2>6. TodoOK'
    BY <1>th, <2>1, <2>5, TodoType
  <2>7. QED
    BY <1>t, <2>1, <2>2, <2>6 DEF TypeInv, TypeOK
<1>6. ASSUME NEW th \in Thread, DoHandle(th) PROVE TypeInv'
  <2>1. /\ todo[th] # <<>> /\ Head(todo[th]).do = "handle"
        /\ HandleNetTx(th, Head(todo[th]).tx, Head(todo[th]).trusted, Head(todo[th]).local,
                       Head(todo[th]).retry, Tail(todo[th]))
        /\ UNCHANGED <<file, chain, minFee, panicked, NetTxs>>
    BY <1>6 DEF DoHandle
  <2>2. Head(todo[th]) \in Steps /\ Tail(todo[th]) \in Seq(Steps)
    BY <1>t, <2>1
  <2>3. Head(todo[th]).tx \in Tx /\ Head(todo[th]).retry \in BOOLEAN
    BY <2>1, <2>2, StepType
  <2>4. mp' \in Pool /\ Pending' \subseteq Tx /\ TodoOK'
    BY <2>1, <2>2, <2>3, HandleNetTxType
  <2>5. QED
    BY <1>f, <2>1, <2>4
<1>7. ASSUME NEW th \in Thread, DoRetry(th) PROVE TypeInv'
  <2> DEFINE s == Head(todo[th])
             left == s.ids \cap mp.waiting[s.tx]
  <2>1. /\ todo[th] # <<>> /\ s.do = "retry" /\ UNCHANGED <<file, chain, minFee, panicked, NetTxs>>
        /\ \/ todo' = [todo EXCEPT ![th] = Tail(todo[th])] /\ UNCHANGED <<mp, Pending>>
           \/ \E t \in left : HandleNetTx(th, t, FALSE, FALSE, TRUE,
                                          <<RetryStep(s.tx, left \ {t})>> \o Tail(todo[th]))
    BY <1>7 DEF DoRetry
  <2>2. s \in Steps /\ Tail(todo[th]) \in Seq(Steps)
    BY <1>t, <2>1
  <2>3. s.tx \in Tx /\ s.ids \subseteq Tx
    BY <2>1, <2>2, StepType
  <2>4. CASE todo' = [todo EXCEPT ![th] = Tail(todo[th])] /\ UNCHANGED <<mp, Pending>>
    <3>1. TodoOK'
      BY <2>2, <2>4, TodoType
    <3>2. QED
      BY <1>f, <1>t, <2>1, <2>4, <3>1
  <2>5. ASSUME NEW t \in left,
               HandleNetTx(th, t, FALSE, FALSE, TRUE, <<RetryStep(s.tx, left \ {t})>> \o Tail(todo[th]))
        PROVE  TypeInv'
    <3>1. t \in Tx /\ left \ {t} \in SUBSET Tx
      BY <2>3
    <3>2. RetryStep(s.tx, left \ {t}) \in Steps
      <4>1. ASSUME NEW u \in Tx, NEW ids \in SUBSET Tx PROVE RetryStep(u, ids) \in Steps
        BY DEF Steps
      <4>2. QED
        BY <2>3, <3>1, <4>1
    <3>3. <<RetryStep(s.tx, left \ {t})>> \o Tail(todo[th]) \in Seq(Steps)
      <4>1. \A x \in Steps, y \in Seq(Steps) : <<x>> \o y \in Seq(Steps)
        OBVIOUS
      <4>2. QED
        BY <2>2, <3>2, <4>1
    <3> HIDE DEF left, s
    <3>4. mp' \in Pool /\ Pending' \subseteq Tx /\ TodoOK'
      BY <2>5, <3>1, <3>3, HandleNetTxType
    <3>5. QED
      BY <1>f, <2>1, <3>4
  <2>6. QED
    BY <2>1, <2>4, <2>5
<1>8. ASSUME NEW th \in Thread, DoNeed(th) PROVE TypeInv'
  <2> DEFINE s == Head(todo[th])
             x == (IF NeedThisTx(s.tx) THEN <<HandleStep(s.tx, s.trusted, s.local, TRUE)>> ELSE <<>>)
                    \o Tail(todo[th])
  <2>1. /\ todo[th] # <<>> /\ s.do = "need" /\ UNCHANGED <<file, chain, minFee, panicked, NetTxs, mp, Pending>>
        /\ todo' = [todo EXCEPT ![th] = x]
    BY <1>8, Zenon DEF DoNeed, netVars
  <2>2. s \in Steps /\ Tail(todo[th]) \in Seq(Steps)
    BY <1>t, <2>1
  <2>3. s.tx \in Tx /\ s.trusted \in BOOLEAN /\ s.local \in BOOLEAN
    BY <2>1, <2>2, StepType
  <2>4. HandleStep(s.tx, s.trusted, s.local, TRUE) \in Steps
    BY <1>n, <2>3
  <2>5. x \in Seq(Steps)
    <3>1. \A y \in Steps, z \in Seq(Steps) : <<y>> \o z \in Seq(Steps) /\ <<>> \o z \in Seq(Steps)
      OBVIOUS
    <3>2. QED
      BY <2>2, <2>4, <3>1
  <2> HIDE DEF x
  <2>6. TodoOK'
    BY <2>1, <2>5, TodoType
  <2>7. QED
    BY <1>f, <1>t, <2>1, <2>6
<1>9. ASSUME NEW th \in Thread, DoMark(th) PROVE TypeInv'
  <2>1. /\ todo[th] # <<>> /\ UNCHANGED <<file, chain, minFee, panicked, NetTxs, Pending>>
        /\ mp' = MarkChildren(mp, Head(todo[th]).tx)
        /\ todo' = [todo EXCEPT ![th] = Tail(todo[th])]
    BY <1>9 DEF DoMark, netVars
  <2>2. Tail(todo[th]) \in Seq(Steps)
    BY <1>t, <2>1
  <2>3. TodoOK'
    BY <2>1, <2>2, TodoType
  <2>4. mp' \in Pool
    BY <1>t, <2>1, MarkType
  <2>5. QED
    BY <1>f, <1>t, <2>1, <2>3, <2>4
<1>10. ASSUME NEW b \in Blocks, BlockMined(b) PROVE TypeInv'
  <2>1. /\ chain' = Append(chain, b) /\ mp' = AfterMined(mp, b)[Len(b)] /\ Pending' = Pending \ Range(b)
        /\ todo' = [todo EXCEPT !["main"] = Retries(mp', b)] /\ UNCHANGED <<NetTxs, minFee, file, panicked>>
    BY <1>10 DEF BlockMined
  <2>2. b \in Seq(Tx)
    BY BlocksType
  <2>3. mp' \in Pool
    BY <1>t, <2>1, <2>2, AfterMinedType
  <2>4. Retries(mp', b) \in Seq(Steps)
    BY <2>2, <2>3, RetriesType
  <2>5. TodoOK'
    BY <1>th, <2>1, <2>4, TodoType
  <2>6. chain' \in Seq(Seq(Tx))
    <3>1. \A S, c, x : c \in Seq(S) /\ x \in S => Append(c, x) \in Seq(S)
      OBVIOUS
    <3>2. QED
      BY <1>t, <2>1, <2>2, <3>1
  <2>7. QED
    BY <1>t, <2>1, <2>3, <2>5, <2>6 DEF TypeInv, TypeOK
<1>11. CASE BlockUndone
  <2> DEFINE b == Last(chain)
             e(i) == <<NeedStep(b[i], TRUE, FALSE), MarkStep(b[i])>>
             ss == [i \in DOMAIN b |-> e(i)]
  <2>1. /\ chain # <<>> /\ chain' = Front(chain) /\ UNCHANGED <<mp, Pending, NetTxs, minFee, file, panicked>>
        /\ todo' = [todo EXCEPT !["main"] = FlattenSeq(ss)]
    BY <1>11, Zenon DEF BlockUndone, netVars
  <2>2. b \in Seq(Tx) /\ chain' \in Seq(Seq(Tx))
    <3>1. \A S, c : c \in Seq(S) /\ c # <<>> => Last(c) \in S /\ Front(c) \in Seq(S)
      BY DEF Last, Front
    <3>2. QED
      BY <1>t, <2>1, <3>1
  <2> HIDE DEF b
  <2>3. ASSUME NEW i \in DOMAIN b PROVE ss[i] \in Seq(Steps)
    <3>1. b[i] \in Tx
      BY <2>2
    <3>2. NeedStep(b[i], TRUE, FALSE) \in Steps /\ MarkStep(b[i]) \in Steps
      BY <1>n, <3>1
    <3>3. \A x, y \in Steps : <<x, y>> \in Seq(Steps)
      OBVIOUS
    <3>4. ss[i] = <<NeedStep(b[i], TRUE, FALSE), MarkStep(b[i])>>
      OBVIOUS
    <3> HIDE DEF ss
    <3>5. QED
      BY <3>2, <3>3, <3>4
  <2>4. Len(ss) = Len(b) /\ DOMAIN b = 1..Len(b) /\ Len(b) \in Nat /\ (Len(ss) = 0 => ss = <<>>)
    <3>1. DOMAIN b = 1..Len(b) /\ Len(b) \in Nat /\ DOMAIN ss = DOMAIN b
      BY <2>2
    <3> HIDE DEF e
    <3>2. QED
      BY <3>1
  <2> HIDE DEF ss
  <2>5. FlattenSeq(ss) \in Seq(Steps)
    BY <2>3, <2>4, FlattenType
  <2>6. TodoOK'
    BY <1>th, <2>1, <2>5, TodoType
  <2>7. QED
    BY <1>t, <2>1, <2>2, <2>6 DEF TypeInv, TypeOK
<1>12. CASE ExpireTxs
  <2>1. PICK x \in LimitPoolSize(mp, minFee) : \E r \in LimitRejectedSize(x[1]) :
          /\ mp' = DeleteRejected(x[1], r[1] \cup r[2])
          /\ minFee' = x[2]
          /\ panicked' = (panicked \/ \E t \in r[2] : x[1].rej[t] \notin Kept)
    BY <1>12, Zenon DEF ExpireTxs
  <2>2. PICK r \in LimitRejectedSize(x[1]) :
          /\ mp' = DeleteRejected(x[1], r[1] \cup r[2])
          /\ minFee' = x[2]
          /\ panicked' = (panicked \/ \E t \in r[2] : x[1].rej[t] \notin Kept)
    BY <2>1, Zenon
  <2>3. UNCHANGED <<Pending, NetTxs, chain, todo, file>>
    BY <1>12 DEF ExpireTxs, netVars
  <2>4. x[1] \in Pool /\ x[2] \in Nat
    BY <1>t, LimitPoolSizeType
  <2>5. r[1] \cup r[2] \subseteq Tx
    BY LimitRejectedType
  <2>6. mp' \in Pool
    BY <2>2, <2>4, <2>5, DeleteRejectedType
  <2>7. minFee' \in Nat /\ panicked' \in BOOLEAN
    BY <2>2, <2>4
  <2>8. QED
    BY <1>t, <2>3, <2>6, <2>7 DEF TypeInv, TypeOK
<1>13. CASE MempoolSave
  <2>1. /\ file' = [chain |-> chain, toSend |-> mp.toSend, marked |-> {t \in mp.toSend : mp.memCnt[t] # 0},
                    spent |-> mp.spent]
        /\ UNCHANGED <<mp, Pending, NetTxs, minFee, chain, todo, panicked>>
    BY <1>13 DEF MempoolSave, netVars
  <2>2. mp.toSend \subseteq Tx /\ mp.spent \in [Out -> Tx \cup {None}]
    BY <1>t DEF Pool
  <2>3. /\ file'.chain \in Seq(Seq(Tx)) /\ file'.toSend \subseteq Tx /\ file'.marked \subseteq Tx
        /\ file'.spent \in [Out -> Tx \cup {None}]
    BY <1>t, <2>1, <2>2
  <2>4. QED
    BY <1>t, <2>1, <2>3 DEF TypeInv, TypeOK
<1>14. CASE MempoolLoadNew
  <2>1. file # None /\ UNCHANGED <<mp, Pending, NetTxs, minFee, chain, file, panicked>>
    BY <1>14 DEF MempoolLoadNew, netVars
  <2>2. PICK ts \in SetToSeqs(file.toSend) :
          todo' = [todo EXCEPT !["main"] = [i \in DOMAIN ts |-> NeedStep(ts[i], FALSE, FALSE)]]
    BY <1>14 DEF MempoolLoadNew
  <2> DEFINE x == [i \in DOMAIN ts |-> NeedStep(ts[i], FALSE, FALSE)]
             n == Cardinality(file.toSend)
  <2>3. ts \in [1..n -> file.toSend] /\ file.toSend \subseteq Tx
    BY <2>1, <2>2 DEF SetToSeqs, TypeInv, TypeOK
  <2>4. n \in Nat
    BY <2>3, FiniteSums, FS_CardinalityType
  <2> HIDE DEF n
  <2>5. \A i \in 1..n : NeedStep(ts[i], FALSE, FALSE) \in Steps
    BY <1>n, <2>3
  <2>6. x \in Seq(Steps)
    <3>1. x = [i \in 1..n |-> x[i]] /\ \A i \in 1..n : x[i] \in Steps
      BY <2>3, <2>5
    <3> HIDE DEF x
    <3>2. QED
      BY <2>4, <3>1
  <2>7. todo' = [todo EXCEPT !["main"] = x]
    BY <2>2
  <2> HIDE DEF x
  <2>8. TodoOK'
    BY <1>th, <2>6, <2>7, TodoType
  <2>9. QED
    BY <1>f, <1>t, <2>1, <2>8
<1>15. ASSUME NEW n \in 0..Len(chain), Restart(n) PROVE TypeInv'
  <2>1. /\ chain' = SubSeq(chain, 1, n)
        /\ mp' = IF file # None /\ file.chain = chain' THEN MempoolLoad2(file) ELSE Empty
        /\ Pending' = {} /\ NetTxs' = <<>>
        /\ minFee' = MinMinFee
        /\ todo' = [th \in Thread |-> <<>>]
        /\ panicked' = FALSE
        /\ file' = file
    BY <1>15 DEF Restart
  <2>2. chain' \in Seq(Seq(Tx))
    <3>1. \A S, c : \A k \in 0..Len(c) : c \in Seq(S) => SubSeq(c, 1, k) \in Seq(S)
      OBVIOUS
    <3>2. QED
      BY <1>t, <2>1, <3>1
  <2>3. file # None => MempoolLoad2(file) \in Pool
    BY LoadType DEF TypeInv, TypeOK
  <2>4. mp' \in Pool
    BY <2>1, <2>3, EmptyType
  <2>5. NetTxs' \in Seq(Tx \X BOOLEAN) /\ Len(NetTxs') <= MaxQueue /\ minFee' \in Nat
    BY <1>t, <2>1, MempoolAssumption
  <2>6. TodoOK'
    BY <2>1
  <2>7. QED
    BY <1>t, <2>1, <2>2, <2>4, <2>5, <2>6 DEF TypeInv, TypeOK
<1>16. CASE UNCHANGED vars
  <2>1. UNCHANGED <<mp, Pending, NetTxs, minFee, chain, todo, file, panicked>>
    BY <1>16 DEF vars, netVars
  <2>2. QED
    BY <1>f, <1>t, <2>1
<1>17. QED
  BY <1>1, <1>2, <1>3, <1>4, <1>5, <1>6, <1>7, <1>8, <1>9, <1>10, <1>11, <1>12, <1>13, <1>14, <1>15, <1>16
     DEF Next

LEMMA InitType == Init => TypeInv
<1>1. MinMinFee \in Nat /\ MaxQueue \in Nat
  BY MempoolAssumption
<1>2. <<>> \in Seq(Steps) /\ <<>> \in Seq(Tx \X BOOLEAN) /\ <<>> \in Seq(Seq(Tx)) /\ Len(<<>>) = 0
  OBVIOUS
<1>3. SUFFICES ASSUME Init PROVE TypeInv
  OBVIOUS
<1>4. mp \in Pool /\ Pending \subseteq Tx /\ NetTxs = <<>> /\ minFee = MinMinFee /\ chain = <<>>
  BY <1>3, EmptyType DEF Init
<1>5. file = None /\ panicked \in BOOLEAN
  BY <1>3 DEF Init
<1>6. DOMAIN todo = Thread /\ \A th \in Thread : todo[th] \in Seq(Steps)
  BY <1>2, <1>3 DEF Init
<1>7. QED
  BY <1>1, <1>2, <1>4, <1>5, <1>6 DEF TypeInv, TypeOK

\* The maps of the pool are as declared, NetTxs stays within its capacity and
\* the steps that a thread has before it are for transactions.
THEOREM TypeCorrect == Spec => []TypeOK
<1>1. Init => TypeInv
  BY InitType
<1>2. TypeInv => TypeOK
  BY DEF TypeInv
<1>3. QED
  BY <1>1, <1>2, TypeStep, PTL DEF Spec

-----------------------------------------------------------------------------
(* SpentOutputs and TransactionsToSendSize *)

\* What SpentOutputs says of the transactions in the pool.
Exact(toSend, spent) ==
    \A o \in Out, t \in Tx : (t \in toSend /\ o \in InsOf(t)) <=> spent[o] = t

PoolOK(m) == m \in Pool /\ Exact(m.toSend, m.spent) /\ m.size = TotalSize(m.toSend)

\* n has the transactions and the spent outputs of m.
SamePool(m, n) == n.toSend = m.toSend /\ n.spent = m.spent /\ n.size = m.size

LEMMA SamePoolOK ==
    ASSUME NEW m, NEW n \in Pool, PoolOK(m), SamePool(m, n)
    PROVE  PoolOK(n)
BY DEF PoolOK, SamePool

LEMMA EmptyOK == PoolOK(Empty)
<1>1. Exact({}, [o \in Out |-> None])
  BY MempoolAssumption DEF Exact, Id
<1>2. Empty.toSend = {} /\ Empty.spent = [o \in Out |-> None] /\ Empty.size = 0
  BY DEF Empty
<1>3. TotalSize({}) = 0
  BY TotalSizeRec, FS_EmptySet
<1>4. QED
  BY <1>1, <1>2, <1>3, EmptyType DEF PoolOK

LEMMA RejectTxSame ==
    ASSUME NEW m \in Pool, NEW S, NEW why
    PROVE  SamePool(m, RejectTx(m, S, why))
<1> DEFINE rej == [t \in Tx |-> IF t \in S THEN why ELSE m.rej[t]]
           w4 == [t \in Tx |-> IF t \in S THEN None ELSE m.w4[t]]
           size == m.rejSize + IF why \in Kept THEN TotalSize(S) ELSE 0
           n == [m EXCEPT !.rej = rej, !.w4 = w4, !.rejSize = size]
<1>1. RejectTx(m, S, why) = n
  BY Zenon DEF RejectTx
<1> HIDE DEF rej, w4, size
<1>2. SamePool(m, n)
  BY DEF Pool, SamePool
<1>3. QED
  BY <1>1, <1>2

LEMMA DeleteRejectedSame ==
    ASSUME NEW m \in Pool, NEW S
    PROVE  SamePool(m, DeleteRejected(m, S))
<1> DEFINE gone == {t \in S : m.rej[t] # None}
           rej == [t \in Tx |-> IF t \in gone THEN None ELSE m.rej[t]]
           w4 == [t \in Tx |-> IF t \in gone THEN None ELSE m.w4[t]]
           size == m.rejSize - TotalSize({t \in gone : m.rej[t] \in Kept})
           waiting == [i \in Id |-> m.waiting[i] \ {t \in gone : m.w4[t] = i}]
           n == [m EXCEPT !.rej = rej, !.w4 = w4, !.rejSize = size, !.waiting = waiting]
<1>1. DeleteRejected(m, S) = n
  BY Zenon DEF DeleteRejected
<1> HIDE DEF rej, w4, size, waiting
<1>2. SamePool(m, n)
  BY DEF Pool, SamePool
<1>3. QED
  BY <1>1, <1>2

LEMMA MarkSame ==
    ASSUME NEW m \in Pool, NEW t
    PROVE  SamePool(m, MarkChildren(m, t)) /\ SamePool(m, UnMarkChildren(m, t))
<1> DEFINE of(c) == {o \in OutsOf(t) : m.spent[o] = c}
           more == [c \in Tx |-> m.memCnt[c] + Cardinality(of(c))]
           with == [c \in Tx |-> m.mem[c] \cup of(c)]
           left == [c \in Tx |-> IF c \in m.toSend /\ m.memCnt[c] # 0 THEN m.memCnt[c] - Cardinality(of(c))
                                 ELSE m.memCnt[c]]
           without == [c \in Tx |-> IF left[c] = 0 THEN {} ELSE m.mem[c] \ OutsOf(t)]
<1>1. MarkChildren(m, t) = [m EXCEPT !.memCnt = more, !.mem = with]
  BY Zenon DEF MarkChildren
<1>2. UnMarkChildren(m, t) = [m EXCEPT !.memCnt = left, !.mem = without]
  BY Zenon DEF UnMarkChildren
<1> HIDE DEF more, with, left, without
<1>3. /\ SamePool(m, [m EXCEPT !.memCnt = more, !.mem = with])
      /\ SamePool(m, [m EXCEPT !.memCnt = left, !.mem = without])
  BY DEF Pool, SamePool
<1>4. QED
  BY <1>1, <1>2, <1>3

\* Delete forgets the inputs of those that go.  This rests on each output
\* having one spender: the entry that is cleared is nobody else's.
LEMMA DeleteExact ==
    ASSUME NEW m, NEW S, NEW why \in Reasons \cup {None}, PoolOK(m)
    PROVE  /\ PoolOK(Delete(m, S, why))
           /\ Delete(m, S, why).toSend = m.toSend \ S
           /\ \A o \in Out : Delete(m, S, why).spent[o] =
                               IF m.spent[o] \in S \cap m.toSend THEN None ELSE m.spent[o]
<1> DEFINE gone == S \cap m.toSend
           toSend == m.toSend \ S
           spent == [o \in Out |-> IF \E t \in gone : o \in InsOf(t) THEN None ELSE m.spent[o]]
           mem == [t \in Tx |-> IF t \in gone THEN {} ELSE m.mem[t]]
           memCnt == [t \in Tx |-> IF t \in gone THEN 0 ELSE m.memCnt[t]]
           size == m.size - TotalSize(gone)
           n == [m EXCEPT !.toSend = toSend, !.spent = spent, !.mem = mem, !.memCnt = memCnt, !.size = size]
           r == Delete(m, S, why)
<1>t. m \in Pool /\ m.toSend \subseteq Tx /\ m.spent \in [Out -> Tx \cup {None}]
  BY DEF PoolOK, Pool
<1>1. ASSUME NEW o \in Out PROVE spent[o] = IF m.spent[o] \in gone THEN None ELSE m.spent[o]
  <2>1. (\E t \in gone : o \in InsOf(t)) <=> m.spent[o] \in gone
    BY <1>t, Zenon DEF PoolOK, Exact
  <2>2. QED
    BY <2>1
<1>2. Exact(toSend, spent)
  <2>1. ASSUME NEW o \in Out, NEW t \in Tx
        PROVE  (t \in m.toSend \ S /\ o \in InsOf(t)) <=> spent[o] = t
    <3>1. spent[o] = IF m.spent[o] \in gone THEN None ELSE m.spent[o]
      BY <1>1
    <3> HIDE DEF spent
    <3>2. (t \in m.toSend /\ o \in InsOf(t)) <=> m.spent[o] = t
      BY DEF PoolOK, Exact
    <3>3. t # None
      BY MempoolAssumption DEF Id
    <3>4. QED
      BY <3>1, <3>2, <3>3
  <2> HIDE DEF spent
  <2>2. QED
    BY <2>1 DEF Exact
<1>3. size = TotalSize(toSend)
  <2>1. gone \subseteq Tx /\ toSend \subseteq Tx /\ gone \cap toSend = {} /\ m.toSend = toSend \cup gone
    BY <1>t
  <2> HIDE DEF gone, toSend
  <2>2. TotalSize(toSend \cup gone) = TotalSize(toSend) + TotalSize(gone)
    BY <2>1, TotalSizeUnion, FiniteSums
  <2>3. TotalSize(toSend) \in Nat /\ TotalSize(gone) \in Nat
    BY <2>1, FiniteSums
  <2>4. QED
    BY <2>1, <2>2, <2>3 DEF PoolOK
<1>4. r = IF why = None THEN n ELSE RejectTx(n, gone, why)
  BY Zenon DEF Delete
<1>5. r \in Pool
  BY <1>t, DeleteType
<1>6. n \in Pool
  <2>1. Delete(m, S, None) = n
    BY Zenon DEF Delete
  <2> HIDE DEF n
  <2>2. QED
    BY <1>t, <2>1, DeleteType
<1> HIDE DEF spent, mem, memCnt, size
<1>7. n.toSend = toSend /\ n.spent = spent /\ n.size = size
  BY <1>t DEF Pool
<1> HIDE DEF n, r, toSend, gone
<1>8. r.toSend = n.toSend /\ r.spent = n.spent /\ r.size = n.size
  <2>1. why # None => SamePool(n, r)
    BY <1>4, <1>6, RejectTxSame
  <2>2. QED
    BY <1>4, <2>1 DEF SamePool
<1>9. PoolOK(r)
  BY <1>2, <1>3, <1>5, <1>7, <1>8 DEF PoolOK
<1>10. QED
  BY <1>1, <1>7, <1>8, <1>9 DEF r, toSend, gone

LEMMA WithChildrenHas ==
    ASSUME NEW m, NEW S, S \subseteq Tx
    PROVE  S \subseteq WithChildren(m, S)
BY DEF WithChildren

\* All that spend an input of t go before t takes their place, t itself too
\* if it is there already.
LEMMA AcceptOK ==
    ASSUME NEW m, NEW t \in Tx, PoolOK(m)
    PROVE  PoolOK(Accept(m, t))
<1> DEFINE spenders == {m.spent[Ins[t][i]] : i \in 1..Len(Ins[t])} \ {None}
           R == Replaced(m, t, Len(Ins[t]))
           n == Delete(m, R, "REPLACED")
<1>t. m \in Pool /\ m.toSend \subseteq Tx /\ m.spent \in [Out -> Tx \cup {None}]
  BY DEF PoolOK, Pool
<1>1. ASSUME NEW o \in InsOf(t) PROVE m.spent[o] \in R \cup {None}
  <2>1. spenders \subseteq Tx
    BY <1>t, InsAreOuts
  <2>2. m.spent[o] \in spenders \cup {None}
    BY InsAreOuts
  <2>3. spenders \subseteq R
    BY <2>1, WithChildrenHas DEF Replaced
  <2>4. QED
    BY <2>2, <2>3
<1> HIDE DEF R
<1>2. /\ PoolOK(n) /\ n.toSend = m.toSend \ R
      /\ \A o \in Out : n.spent[o] = IF m.spent[o] \in R \cap m.toSend THEN None ELSE m.spent[o]
  BY DeleteExact DEF Reasons
<1> HIDE DEF n
<1>3. ASSUME NEW o \in InsOf(t) PROVE o \in Out /\ n.spent[o] = None
  <2>1. o \in Out /\ (m.spent[o] = None \/ m.spent[o] \in m.toSend)
    BY <1>t, InsAreOuts DEF PoolOK, Exact
  <2>2. QED
    BY <1>1, <1>2, <2>1
<1> DEFINE spent == [o \in Out |-> IF o \in InsOf(t) THEN t ELSE n.spent[o]]
           toSend == n.toSend \cup {t}
           size == n.size + Size[t]
<1>4. Exact(toSend, spent)
  <2>2. ASSUME NEW o \in Out, NEW u \in Tx
        PROVE  (u \in n.toSend \cup {t} /\ o \in InsOf(u)) <=> spent[o] = u
    <3>1. (u \in n.toSend /\ o \in InsOf(u)) <=> n.spent[o] = u
      BY <1>2 DEF PoolOK, Exact
    <3>2. spent[o] = IF o \in InsOf(t) THEN t ELSE n.spent[o]
      OBVIOUS
    <3>3. u # None
      BY MempoolAssumption DEF Id
    <3> HIDE DEF spent
    <3>4. CASE o \in InsOf(t)
      BY <1>3, <3>1, <3>2, <3>3, <3>4
    <3>5. CASE o \notin InsOf(t)
      BY <3>1, <3>2, <3>5
    <3>6. QED
      BY <3>4, <3>5
  <2> HIDE DEF spent
  <2>3. QED
    BY <2>2 DEF Exact
<1>5. size = TotalSize(toSend)
  <2>1. t \notin n.toSend
    <3>1. Ins[t][1] \in InsOf(t)
      BY MempoolAssumption DEF InsOf, Range
    <3>2. n.spent[Ins[t][1]] # t /\ Ins[t][1] \in Out
      BY <1>3, <3>1, MempoolAssumption DEF Id
    <3>3. QED
      BY <1>2, <3>1, <3>2 DEF PoolOK, Exact
  <2>2. toSend \subseteq Tx /\ toSend \ {t} = n.toSend /\ t \in toSend
    BY <1>t, <1>2, <2>1
  <2> HIDE DEF toSend
  <2>3. TotalSize(toSend) = Size[t] + TotalSize(n.toSend)
    <3>1. IsFiniteSet(toSend)
      BY <2>2, FiniteSums
    <3>2. TotalSize(toSend) = Size[t] + TotalSize(toSend \ {t})
      BY <2>2, <3>1, TotalSizeRemove
    <3>3. QED
      BY <2>2, <3>2
  <2>4. n.size = TotalSize(n.toSend)
    BY <1>2 DEF PoolOK
  <2>5. n.size \in Int /\ Size[t] \in Int
    BY <1>2, MempoolAssumption DEF PoolOK, Pool
  <2>6. QED
    BY <2>3, <2>4, <2>5
<1> DEFINE mem == {o \in InsOf(t) : OutTx[o] \in m.toSend}
           cnt == Cardinality(mem)
           r == [n EXCEPT !.toSend = toSend, !.spent = spent,
                          !.mem[t] = mem, !.memCnt[t] = cnt, !.size = size]
<1>6. Accept(m, t) = r
  BY Zenon DEF Accept, R, n
<1> HIDE DEF spent, mem, cnt, toSend, size
<1>7. r.toSend = toSend /\ r.spent = spent /\ r.size = size
  BY <1>2 DEF PoolOK, Pool
<1> HIDE DEF r
<1>8. r \in Pool
  BY <1>t, <1>6, AcceptType
<1>9. QED
  BY <1>4, <1>5, <1>6, <1>7, <1>8 DEF PoolOK

LEMMA WaitForInputSame ==
    ASSUME NEW m \in Pool, NEW t, NEW trusted
    PROVE  SamePool(m, WaitForInput(m, t, trusted))
<1> DEFINE p == OutTx[Ins[t][Min({i \in DOMAIN Ins[t] : OfInput(m, t, i, trusted) # {"OK"}})]]
           rej == [u \in Tx |-> IF u \in {t} THEN "NO_TXOU" ELSE m.rej[u]]
           w4 == [u \in Tx |-> IF u \in {t} THEN None ELSE m.w4[u]]
           size == m.rejSize + IF "NO_TXOU" \in Kept THEN TotalSize({t}) ELSE 0
           r == [m EXCEPT !.rej = rej, !.w4 = w4, !.rejSize = size]
           n == [r EXCEPT !.w4[t] = p, !.waiting[p] = r.waiting[p] \cup {t}]
<1>1. WaitForInput(m, t, trusted) = n
  BY Zenon DEF WaitForInput, RejectTx
<1> HIDE DEF p, rej, w4, size
<1>2. SamePool(m, n)
  BY DEF SamePool, Pool
<1>3. QED
  BY <1>1, <1>2

LEMMA JudgedOK ==
    ASSUME NEW m, NEW t \in Tx, NEW trusted, NEW local, NEW v \in Verdicts(m, t, trusted, local), PoolOK(m)
    PROVE  PoolOK(Judged(m, t, trusted, v))
<1>t. m \in Pool
  BY DEF PoolOK
<1>1. Judged(m, t, trusted, v) \in Pool
  BY <1>t, JudgedType
<1>2. PoolOK(Accept(m, t)) /\ SamePool(m, WaitForInput(m, t, trusted)) /\ SamePool(m, RejectTx(m, {t}, v))
  BY <1>t, AcceptOK, WaitForInputSame, RejectTxSame
<1>3. \/ Judged(m, t, trusted, v) = Accept(m, t) \/ Judged(m, t, trusted, v) = WaitForInput(m, t, trusted)
      \/ Judged(m, t, trusted, v) = RejectTx(m, {t}, v) \/ Judged(m, t, trusted, v) = m
  BY DEF Judged
<1>4. QED
  BY <1>1, <1>2, <1>3, SamePoolOK

LEMMA TxMinedOK ==
    ASSUME NEW m, NEW t \in Tx, PoolOK(m)
    PROVE  PoolOK(TxMined(m, t))
<1> DEFINE k == IF t \in m.toSend THEN Delete(UnMarkChildren(m, t), {t}, None) ELSE m
           n == DeleteRejected(k, {t})
           S == WithChildren(n, {n.spent[o] : o \in InsOf(t)} \ {None})
<1>1. TxMined(m, t) = Delete(n, S, None)
  BY Zenon DEF TxMined
<1>t. m \in Pool
  BY DEF PoolOK
<1>2. PoolOK(UnMarkChildren(m, t))
  BY <1>t, MarkType, MarkSame, SamePoolOK
<1>3. PoolOK(k)
  BY <1>2, DeleteExact
<1> HIDE DEF k
<1>4. PoolOK(n)
  <2>1. k \in Pool
    BY <1>3 DEF PoolOK
  <2>2. QED
    BY <1>3, <2>1, DeleteRejectedType, DeleteRejectedSame, SamePoolOK
<1> HIDE DEF n, S
<1>5. QED
  BY <1>1, <1>4, DeleteExact

LEMMA AfterMinedOK ==
    ASSUME NEW m, NEW b \in Seq(Tx), PoolOK(m)
    PROVE  PoolOK(AfterMined(m, b)[Len(b)])
<1> DEFINE after == AfterMined(m, b)
           bad == {k \in 0..Len(b) : ~ PoolOK(after[k])}
<1>1. SUFFICES ASSUME bad # {} PROVE FALSE
  OBVIOUS
<1>2. \A i \in 0..Len(b) : after[i] = IF i = 0 THEN m ELSE TxMined(after[i - 1], b[i])
  BY AfterMinedRec
<1> HIDE DEF after
<1>3. PICK k \in bad : \A j \in bad : k <= j
  <2>1. bad \in SUBSET Nat
    OBVIOUS
  <2> HIDE DEF bad
  <2>2. QED
    BY <1>1, <2>1, LeastNat
<1>4. k # 0
  BY <1>2, <1>3
<1>5. k - 1 \in 0..Len(b) /\ k - 1 \notin bad /\ b[k] \in Tx
  BY <1>3, <1>4
<1>6. PoolOK(TxMined(after[k - 1], b[k]))
  BY <1>5, TxMinedOK
<1>7. QED
  BY <1>2, <1>3, <1>4, <1>6

LEMMA LimitPoolSizeOK ==
    ASSUME NEW m, NEW fee \in Nat, NEW x \in LimitPoolSize(m, fee), PoolOK(m)
    PROVE  PoolOK(x[1])
<1>t. m \in Pool
  BY DEF PoolOK
<1>1. x[1] = m \/ x[1] = DeleteRejected(m, LowFee(m)) \/ \E R : x[1] = Delete(m, R, "LOW_FEE")
  BY LimitPoolSizeForm
<1>2. PoolOK(DeleteRejected(m, LowFee(m)))
  BY <1>t, DeleteRejectedType, DeleteRejectedSame, SamePoolOK DEF LowFee
<1>3. \A R : PoolOK(Delete(m, R, "LOW_FEE"))
  BY DeleteExact DEF Reasons
<1>4. QED
  BY <1>1, <1>2, <1>3

SpentInv ==
    /\ PoolOK(mp)
    /\ file # None => Exact(file.toSend, file.spent)

LEMMA HandleNetTxOK ==
    ASSUME SpentInv, NEW th, NEW t \in Tx, NEW trusted, NEW local, NEW retry, NEW rest,
           HandleNetTx(th, t, trusted, local, retry, rest)
    PROVE  PoolOK(mp')
<1> DEFINE m == IF retry THEN DeleteRejected(mp, {t}) ELSE mp
<1>t. PoolOK(mp) /\ mp \in Pool
  BY DEF SpentInv, PoolOK
<1>1. PoolOK(m)
  BY <1>t, DeleteRejectedType, DeleteRejectedSame, SamePoolOK
<1>2. mp' = mp \/ \E v \in Verdicts(m, t, trusted, local) : mp' = Judged(m, t, trusted, v)
  BY Zenon DEF HandleNetTx
<1> HIDE DEF m
<1>3. QED
  BY <1>t, <1>1, <1>2, JudgedOK

LEMMA SpentStep == TypeInv /\ SpentInv /\ [Next]_vars => SpentInv'
<1> SUFFICES ASSUME TypeInv, SpentInv, [Next]_vars PROVE SpentInv'
  OBVIOUS
<1>t. PoolOK(mp) /\ mp \in Pool /\ minFee \in Nat /\ \A th \in Thread : todo[th] \in Seq(Steps)
  BY DEF SpentInv, TypeInv, TypeOK
<1>f. ASSUME file' = file, PoolOK(mp') PROVE SpentInv'
  BY <1>f DEF SpentInv
<1>1. ASSUME NEW t \in Tx, ParseTxNetTooBig(t) PROVE SpentInv'
  <2>1. mp' = RejectTx(mp, {t}, "TOO_BIG") /\ file' = file
    BY <1>1 DEF ParseTxNetTooBig
  <2>2. PoolOK(mp')
    BY <1>t, <2>1, RejectTxType, RejectTxSame, SamePoolOK DEF Reasons
  <2>3. QED
    BY <1>f, <2>1, <2>2
<1>2. ASSUME NEW t \in Tx, LoadRawTx(t) PROVE SpentInv'
  <2>1. mp' = DeleteRejected(mp, {t}) /\ file' = file
    BY <1>2 DEF LoadRawTx
  <2>2. PoolOK(mp')
    BY <1>t, <2>1, DeleteRejectedType, DeleteRejectedSame, SamePoolOK
  <2>3. QED
    BY <1>f, <2>1, <2>2
<1>3. ASSUME NEW t \in Tx, DeleteTx(t) PROVE SpentInv'
  <2>1. mp' = Delete(mp, WithChildren(mp, {t}), None) /\ file' = file
    BY <1>3 DEF DeleteTx
  <2>2. PoolOK(mp')
    BY <1>t, <2>1, DeleteExact
  <2>3. QED
    BY <1>f, <2>1, <2>2
<1>4. ASSUME mp' = mp, file' = file PROVE SpentInv'
  BY <1>4, <1>t, <1>f
<1>5. ASSUME NEW th \in Thread, DoHandle(th) PROVE SpentInv'
  <2>1. /\ todo[th] # <<>> /\ Head(todo[th]).do = "handle" /\ file' = file
        /\ HandleNetTx(th, Head(todo[th]).tx, Head(todo[th]).trusted, Head(todo[th]).local,
                       Head(todo[th]).retry, Tail(todo[th]))
    BY <1>5 DEF DoHandle
  <2>2. Head(todo[th]) \in Steps
    BY <1>t, <2>1
  <2>3. Head(todo[th]).tx \in Tx
    BY <2>2, StepType
  <2>4. PoolOK(mp')
    BY <2>1, <2>3, HandleNetTxOK
  <2>5. QED
    BY <1>f, <2>1, <2>4
<1>6. ASSUME NEW th \in Thread, DoRetry(th) PROVE SpentInv'
  <2> DEFINE s == Head(todo[th])
  <2>1. /\ todo[th] # <<>> /\ s.do = "retry" /\ file' = file
        /\ \/ mp' = mp
           \/ \E t \in s.ids : \E rest : HandleNetTx(th, t, FALSE, FALSE, TRUE, rest)
    BY <1>6 DEF DoRetry
  <2>2. s \in Steps
    BY <1>t, <2>1
  <2>3. s.ids \subseteq Tx
    BY <2>1, <2>2, StepType
  <2> HIDE DEF s
  <2>4. PoolOK(mp')
    BY <1>t, <2>1, <2>3, HandleNetTxOK
  <2>5. QED
    BY <1>f, <2>1, <2>4
<1>7. ASSUME NEW th \in Thread, DoMark(th) PROVE SpentInv'
  <2>1. mp' = MarkChildren(mp, Head(todo[th]).tx) /\ file' = file
    BY <1>7 DEF DoMark
  <2>2. PoolOK(mp')
    BY <1>t, <2>1, MarkType, MarkSame, SamePoolOK
  <2>3. QED
    BY <1>f, <2>1, <2>2
<1>8. ASSUME NEW b \in Blocks, BlockMined(b) PROVE SpentInv'
  <2>1. mp' = AfterMined(mp, b)[Len(b)] /\ file' = file
    BY <1>8 DEF BlockMined
  <2>2. b \in Seq(Tx)
    BY BlocksType
  <2>3. PoolOK(mp')
    BY <1>t, <2>1, <2>2, AfterMinedOK
  <2>4. QED
    BY <1>f, <2>1, <2>3
<1>9. CASE ExpireTxs
  <2>1. PICK x \in LimitPoolSize(mp, minFee) : \E r \in LimitRejectedSize(x[1]) :
          mp' = DeleteRejected(x[1], r[1] \cup r[2])
    BY <1>9, Zenon DEF ExpireTxs
  <2>2. PICK r \in LimitRejectedSize(x[1]) : mp' = DeleteRejected(x[1], r[1] \cup r[2])
    BY <2>1, Zenon
  <2>3. PoolOK(x[1])
    BY <1>t, LimitPoolSizeOK
  <2>4. x[1] \in Pool /\ r[1] \cup r[2] \subseteq Tx
    BY <2>3, LimitRejectedType DEF PoolOK
  <2>5. PoolOK(mp')
    BY <2>2, <2>3, <2>4, DeleteRejectedType, DeleteRejectedSame, SamePoolOK
  <2>6. file' = file
    BY <1>9 DEF ExpireTxs
  <2>7. QED
    BY <1>f, <2>5, <2>6
<1>10. CASE MempoolSave
  <2>1. mp' = mp /\ file'.toSend = mp.toSend /\ file'.spent = mp.spent
    BY <1>10 DEF MempoolSave
  <2>2. QED
    BY <1>t, <2>1 DEF SpentInv, PoolOK
<1>11. ASSUME NEW n, Restart(n) PROVE SpentInv'
  <2>1. /\ mp' = Empty \/ (file # None /\ mp' = MempoolLoad2(file))
        /\ file' = file
    BY <1>11 DEF Restart
  <2>2. file # None => PoolOK(MempoolLoad2(file))
    BY LoadType DEF TypeInv, TypeOK, SpentInv, PoolOK
  <2>3. PoolOK(mp')
    BY <2>1, <2>2, EmptyOK
  <2>4. QED
    BY <1>f, <2>1, <2>3
<1>12. ASSUME \/ \E t \in Tx, trusted \in BOOLEAN : ParseTxNet(t, trusted)
              \/ TakeNetTx \/ BlockUndone \/ MempoolLoadNew \/ (\E th \in Thread : DoNeed(th)) \/ UNCHANGED vars
       PROVE  SpentInv'
  <2>1. mp' = mp /\ file' = file
    BY <1>12 DEF ParseTxNet, TakeNetTx, BlockUndone, MempoolLoadNew, DoNeed, vars
  <2>2. QED
    BY <1>4, <2>1
<1>13. QED
  BY <1>1, <1>2, <1>3, <1>5, <1>6, <1>7, <1>8, <1>9, <1>10, <1>11, <1>12 DEF Next

\* SpentOutputs names every input of the pool with its one spender and nothing
\* else, whatever is accepted, replaced, mined, undone, expired, deleted or
\* loaded, with two threads at it and without any assumption on races.
THEOREM SpentStaysExact == Spec => []SpentIsExact
<1>1. Init => TypeInv /\ SpentInv
  BY InitType, EmptyOK DEF Init, SpentInv
<1>2. TypeInv /\ SpentInv => SpentIsExact
  <2> SUFFICES ASSUME TypeInv, SpentInv, NEW o \in Out
               PROVE  {t \in mp.toSend : o \in InsOf(t)} = IF mp.spent[o] = None THEN {} ELSE {mp.spent[o]}
    BY DEF SpentIsExact
  <2>1. mp.toSend \subseteq Tx /\ mp.spent[o] \in Tx \cup {None} /\ None \notin Tx
    BY MempoolAssumption DEF SpentInv, PoolOK, Pool, Id
  <2>2. \A t \in Tx : (t \in mp.toSend /\ o \in InsOf(t)) <=> mp.spent[o] = t
    BY DEF SpentInv, PoolOK, Exact
  <2>3. QED
    BY <2>1, <2>2
<1>3. QED
  BY <1>1, <1>2, TypeStep, SpentStep, PTL DEF Spec

-----------------------------------------------------------------------------
(* TransactionsRejected and WaitingForInputs *)

\* The rejected transactions of m are accounted for and not in the pool.
RejOK(m) ==
    /\ m.rejSize = TotalSize({t \in Tx : m.rej[t] \in Kept})
    /\ \A i \in Id, t \in Tx : t \in m.waiting[i] <=> m.w4[t] = i
    /\ \A t \in Tx : m.w4[t] # None => m.rej[t] = "NO_TXOU"
    /\ \A t \in m.toSend : m.rej[t] = None

Free(m, t) == t \notin m.toSend /\ m.rej[t] = None

\* From m to n only transactions of T, or of m's pool, are accepted or rejected.
Touches(m, n, T) ==
    \A u \in Tx \ T : u \notin m.toSend => u \notin n.toSend /\ n.rej[u] \in {None, m.rej[u]}

LEMMA TouchesTwice ==
    ASSUME NEW k, NEW m, NEW n, NEW T, Touches(k, m, T), Touches(m, n, T)
    PROVE  Touches(k, n, T)
BY DEF Touches

LEMMA NoneIsNone == None \notin Tx /\ None \notin Id /\ None \notin Reasons /\ None \notin Kept
                    /\ "NO_TXOU" \in Kept /\ Kept \subseteq Reasons /\ "TOO_BIG" \notin Kept
BY MempoolAssumption DEF Id, Kept, Reasons

LEMMA EmptyRej == RejOK(Empty)
<1>1. {t \in Tx : Empty.rej[t] \in Kept} = {} /\ Empty.rejSize = 0
  BY NoneIsNone DEF Empty
<1>2. TotalSize({}) = 0
  BY TotalSizeRec, FS_EmptySet
<1>3. /\ Empty.toSend = {} /\ \A t \in Tx : Empty.w4[t] = None
      /\ \A i \in Id : Empty.waiting[i] = {}
  BY DEF Empty
<1>4. QED
  BY <1>1, <1>2, <1>3, NoneIsNone DEF RejOK

LEMMA RejectTxFields ==
    ASSUME NEW m \in Pool, NEW S, NEW why, NEW n, n = RejectTx(m, S, why)
    PROVE  /\ \A t \in Tx : n.rej[t] = IF t \in S THEN why ELSE m.rej[t]
           /\ \A t \in Tx : n.w4[t] = IF t \in S THEN None ELSE m.w4[t]
           /\ n.rejSize = m.rejSize + IF why \in Kept THEN TotalSize(S) ELSE 0
           /\ n.waiting = m.waiting /\ n.toSend = m.toSend
<1> DEFINE rej == [t \in Tx |-> IF t \in S THEN why ELSE m.rej[t]]
           w4 == [t \in Tx |-> IF t \in S THEN None ELSE m.w4[t]]
           size == m.rejSize + IF why \in Kept THEN TotalSize(S) ELSE 0
<1>1. n = [m EXCEPT !.rej = rej, !.w4 = w4, !.rejSize = size]
  BY Zenon DEF RejectTx
<1>2. /\ \A t \in Tx : rej[t] = IF t \in S THEN why ELSE m.rej[t]
      /\ \A t \in Tx : w4[t] = IF t \in S THEN None ELSE m.w4[t]
  OBVIOUS
<1> HIDE DEF rej, w4, size
<1>3. n.rej = rej /\ n.w4 = w4 /\ n.rejSize = size /\ n.waiting = m.waiting /\ n.toSend = m.toSend
  BY <1>1 DEF Pool
<1>4. QED
  BY <1>2, <1>3 DEF size

\* RejectTx of transactions that were not kept, nor waiting, nor in the pool.
LEMMA RejectTxRej ==
    ASSUME NEW m \in Pool, RejOK(m), NEW S, S \subseteq Tx, NEW why \in Reasons,
           \A t \in S : m.rej[t] \notin Kept /\ m.w4[t] = None /\ t \notin m.toSend
    PROVE  RejOK(RejectTx(m, S, why)) /\ Touches(m, RejectTx(m, S, why), S)
<1> DEFINE n == RejectTx(m, S, why)
           old == {t \in Tx : m.rej[t] \in Kept}
           new == {t \in Tx : n.rej[t] \in Kept}
<1>1. /\ \A t \in Tx : n.rej[t] = IF t \in S THEN why ELSE m.rej[t]
      /\ \A t \in Tx : n.w4[t] = IF t \in S THEN None ELSE m.w4[t]
      /\ n.rejSize = m.rejSize + IF why \in Kept THEN TotalSize(S) ELSE 0
      /\ n.waiting = m.waiting /\ n.toSend = m.toSend
  BY RejectTxFields
<1> HIDE DEF n
<1>2. n.rejSize = TotalSize(new)
  <2>1. m.rejSize = TotalSize(old)
    BY DEF RejOK
  <2>2. old \cap S = {} /\ old \subseteq Tx /\ new = IF why \in Kept THEN old \cup S ELSE old
    BY <1>1
  <2> HIDE DEF old, new
  <2>3. TotalSize(old \cup S) = TotalSize(old) + TotalSize(S)
    BY <2>2, TotalSizeUnion, FiniteSums
  <2>4. TotalSize(old) \in Nat /\ TotalSize(S) \in Nat
    BY <2>2, FiniteSums
  <2>5. QED
    BY <1>1, <2>1, <2>2, <2>3, <2>4
<1>3. \A t \in Tx : n.w4[t] = m.w4[t]
  BY <1>1
<1>4. \A t \in Tx : n.w4[t] # None => n.rej[t] = "NO_TXOU"
  BY <1>1 DEF RejOK
<1>5. \A t \in n.toSend : n.rej[t] = None
  BY <1>1 DEF RejOK, Pool
<1>6. RejOK(n)
  BY <1>1, <1>2, <1>3, <1>4, <1>5 DEF RejOK
<1>7. Touches(m, n, S)
  BY <1>1 DEF Touches
<1>8. QED
  BY <1>6, <1>7 DEF n

LEMMA DeleteRej ==
    ASSUME NEW m \in Pool, RejOK(m), NEW S, NEW why \in Reasons \cup {None}
    PROVE  RejOK(Delete(m, S, why)) /\ Touches(m, Delete(m, S, why), {})
<1> DEFINE gone == S \cap m.toSend
           toSend == m.toSend \ S
           spent == [o \in Out |-> IF \E t \in gone : o \in InsOf(t) THEN None ELSE m.spent[o]]
           mem == [t \in Tx |-> IF t \in gone THEN {} ELSE m.mem[t]]
           memCnt == [t \in Tx |-> IF t \in gone THEN 0 ELSE m.memCnt[t]]
           size == m.size - TotalSize(gone)
           n == [m EXCEPT !.toSend = toSend, !.spent = spent, !.mem = mem, !.memCnt = memCnt, !.size = size]
           r == Delete(m, S, why)
<1>1. r = IF why = None THEN n ELSE RejectTx(n, gone, why)
  BY Zenon DEF Delete
<1>2. n \in Pool
  <2>1. Delete(m, S, None) = n
    BY Zenon DEF Delete
  <2> HIDE DEF n
  <2>2. QED
    BY <2>1, DeleteType
<1> HIDE DEF spent, mem, memCnt, size
<1>3. n.toSend = toSend /\ n.rej = m.rej /\ n.w4 = m.w4 /\ n.rejSize = m.rejSize /\ n.waiting = m.waiting
  BY DEF Pool
<1> HIDE DEF n, r
<1>4. RejOK(n)
  BY <1>3 DEF RejOK
<1>5. Touches(m, n, {})
  BY <1>3 DEF Touches
<1>6. \A t \in gone : t \in Tx /\ n.rej[t] \notin Kept /\ n.w4[t] = None /\ t \notin n.toSend
  BY <1>3, NoneIsNone DEF RejOK, Pool
<1>7. CASE why = None
  BY <1>1, <1>4, <1>5, <1>7 DEF r
<1>8. CASE why # None
  <2>1. r = RejectTx(n, gone, why) /\ gone \subseteq Tx /\ gone \subseteq m.toSend
    BY <1>1, <1>6, <1>8
  <2> HIDE DEF gone
  <2>2. RejOK(r) /\ Touches(n, r, gone)
    BY <1>2, <1>4, <1>6, <1>8, <2>1, RejectTxRej
  <2>3. Touches(m, r, {})
    BY <1>3, <2>1, <2>2 DEF Touches
  <2>4. QED
    BY <2>2, <2>3 DEF r
<1>9. QED
  BY <1>7, <1>8

LEMMA DeleteRejectedFields ==
    ASSUME NEW m \in Pool, NEW S, NEW n, n = DeleteRejected(m, S)
    PROVE  /\ \A t \in Tx : n.rej[t] = IF t \in S THEN None ELSE m.rej[t]
           /\ \A t \in Tx : n.w4[t] = IF t \in S /\ m.rej[t] # None THEN None ELSE m.w4[t]
           /\ n.rejSize = m.rejSize - TotalSize({t \in S : m.rej[t] # None /\ m.rej[t] \in Kept})
           /\ \A i \in Id : n.waiting[i] = m.waiting[i] \ {t \in S : m.rej[t] # None /\ m.w4[t] = i}
           /\ n.toSend = m.toSend
<1> DEFINE gone == {t \in S : m.rej[t] # None}
           kept == {t \in gone : m.rej[t] \in Kept}
           rej == [t \in Tx |-> IF t \in gone THEN None ELSE m.rej[t]]
           w4 == [t \in Tx |-> IF t \in gone THEN None ELSE m.w4[t]]
           size == m.rejSize - TotalSize(kept)
           waiting == [i \in Id |-> m.waiting[i] \ {t \in gone : m.w4[t] = i}]
<1>1. n = [m EXCEPT !.rej = rej, !.w4 = w4, !.rejSize = size, !.waiting = waiting]
  BY Zenon DEF DeleteRejected
<1>2. /\ \A t \in Tx : rej[t] = IF t \in S THEN None ELSE m.rej[t]
      /\ \A t \in Tx : w4[t] = IF t \in S /\ m.rej[t] # None THEN None ELSE m.w4[t]
      /\ \A i \in Id : waiting[i] = m.waiting[i] \ {t \in S : m.rej[t] # None /\ m.w4[t] = i}
      /\ kept = {t \in S : m.rej[t] # None /\ m.rej[t] \in Kept}
  OBVIOUS
<1> HIDE DEF rej, w4, size, waiting
<1>3. n.rej = rej /\ n.w4 = w4 /\ n.rejSize = size /\ n.waiting = waiting /\ n.toSend = m.toSend
  BY <1>1 DEF Pool
<1>4. n.rejSize = m.rejSize - TotalSize({t \in S : m.rej[t] # None /\ m.rej[t] \in Kept})
  BY <1>2, <1>3 DEF size
<1>5. QED
  BY <1>2, <1>3, <1>4

LEMMA DeleteRejectedRej ==
    ASSUME NEW m \in Pool, RejOK(m), NEW S, S \subseteq Tx
    PROVE  /\ RejOK(DeleteRejected(m, S)) /\ Touches(m, DeleteRejected(m, S), {})
           /\ \A t \in S : t \notin m.toSend => Free(DeleteRejected(m, S), t)
<1> DEFINE n == DeleteRejected(m, S)
           old == {t \in Tx : m.rej[t] \in Kept}
           new == {t \in Tx : n.rej[t] \in Kept}
           gone == {t \in S : m.rej[t] # None /\ m.rej[t] \in Kept}
<1>1. /\ \A t \in Tx : n.rej[t] = IF t \in S THEN None ELSE m.rej[t]
      /\ \A t \in Tx : n.w4[t] = IF t \in S /\ m.rej[t] # None THEN None ELSE m.w4[t]
      /\ n.rejSize = m.rejSize - TotalSize(gone)
      /\ \A i \in Id : n.waiting[i] = m.waiting[i] \ {t \in S : m.rej[t] # None /\ m.w4[t] = i}
      /\ n.toSend = m.toSend
  BY DeleteRejectedFields
<1> HIDE DEF n
<1>2. n.rejSize = TotalSize(new)
  <2>1. m.rejSize = TotalSize(old)
    BY DEF RejOK
  <2>2. new \cap gone = {} /\ new \subseteq Tx /\ gone \subseteq Tx /\ old = new \cup gone
    BY <1>1, NoneIsNone
  <2>3. n.rejSize = m.rejSize - TotalSize(gone)
    BY <1>1
  <2> HIDE DEF old, new, gone
  <2>4. TotalSize(new \cup gone) = TotalSize(new) + TotalSize(gone)
    BY <2>2, TotalSizeUnion, FiniteSums
  <2>5. TotalSize(new) \in Nat /\ TotalSize(gone) \in Nat
    BY <2>2, FiniteSums
  <2>6. m.rejSize = TotalSize(new) + TotalSize(gone)
    BY <2>1, <2>2, <2>4
  <2>7. QED
    BY <2>3, <2>5, <2>6
<1>3. ASSUME NEW i \in Id, NEW t \in Tx PROVE t \in n.waiting[i] <=> n.w4[t] = i
  <2>1. t \in m.waiting[i] <=> m.w4[t] = i
    BY DEF RejOK
  <2>2. i # None
    BY NoneIsNone
  <2>3. QED
    BY <1>1, <2>1, <2>2
<1>4. \A t \in Tx : n.w4[t] # None => n.rej[t] = "NO_TXOU"
  BY <1>1 DEF RejOK
<1>5. \A t \in n.toSend : n.rej[t] = None
  BY <1>1 DEF RejOK, Pool
<1>6. RejOK(n)
  BY <1>2, <1>3, <1>4, <1>5 DEF RejOK
<1>7. Touches(m, n, {})
  BY <1>1 DEF Touches
<1>8. \A t \in S : t \notin m.toSend => Free(n, t)
  BY <1>1 DEF Free
<1>9. QED
  BY <1>6, <1>7, <1>8 DEF n

LEMMA MarkRej ==
    ASSUME NEW m \in Pool, RejOK(m), NEW t
    PROVE  /\ RejOK(MarkChildren(m, t)) /\ Touches(m, MarkChildren(m, t), {})
           /\ RejOK(UnMarkChildren(m, t)) /\ Touches(m, UnMarkChildren(m, t), {})
<1> DEFINE of(c) == {o \in OutsOf(t) : m.spent[o] = c}
           more == [c \in Tx |-> m.memCnt[c] + Cardinality(of(c))]
           with == [c \in Tx |-> m.mem[c] \cup of(c)]
           left == [c \in Tx |-> IF c \in m.toSend /\ m.memCnt[c] # 0 THEN m.memCnt[c] - Cardinality(of(c))
                                 ELSE m.memCnt[c]]
           without == [c \in Tx |-> IF left[c] = 0 THEN {} ELSE m.mem[c] \ OutsOf(t)]
           a == [m EXCEPT !.memCnt = more, !.mem = with]
           b == [m EXCEPT !.memCnt = left, !.mem = without]
<1>1. MarkChildren(m, t) = a
  BY Zenon DEF MarkChildren
<1>2. UnMarkChildren(m, t) = b
  BY Zenon DEF UnMarkChildren
<1> HIDE DEF more, with, left, without
<1>3. /\ a.toSend = m.toSend /\ a.rej = m.rej /\ a.w4 = m.w4 /\ a.rejSize = m.rejSize /\ a.waiting = m.waiting
      /\ b.toSend = m.toSend /\ b.rej = m.rej /\ b.w4 = m.w4 /\ b.rejSize = m.rejSize /\ b.waiting = m.waiting
  BY DEF Pool
<1> HIDE DEF a, b
<1>4. RejOK(a) /\ RejOK(b) /\ Touches(m, a, {}) /\ Touches(m, b, {})
  BY <1>3 DEF RejOK, Touches
<1>5. QED
  BY <1>1, <1>2, <1>4

LEMMA AcceptRej ==
    ASSUME NEW m \in Pool, RejOK(m), NEW t \in Tx, Free(m, t)
    PROVE  RejOK(Accept(m, t)) /\ Touches(m, Accept(m, t), {t})
<1> DEFINE mem == {o \in InsOf(t) : OutTx[o] \in m.toSend}
           cnt == Cardinality(mem)
           n == Delete(m, Replaced(m, t, Len(Ins[t])), "REPLACED")
           toSend == n.toSend \cup {t}
           spent == [o \in Out |-> IF o \in InsOf(t) THEN t ELSE n.spent[o]]
           size == n.size + Size[t]
           r == [n EXCEPT !.toSend = toSend, !.spent = spent, !.mem[t] = mem, !.memCnt[t] = cnt, !.size = size]
<1>1. Accept(m, t) = r
  BY Zenon DEF Accept
<1>2. n \in Pool /\ RejOK(n) /\ Touches(m, n, {})
  BY DeleteType, DeleteRej DEF Reasons
<1> HIDE DEF n
<1>3. n.rej[t] = None
  BY <1>2 DEF Touches, Free
<1> HIDE DEF cnt, spent, size, mem
<1>4. r.toSend = toSend /\ r.rej = n.rej /\ r.w4 = n.w4 /\ r.rejSize = n.rejSize /\ r.waiting = n.waiting
  BY <1>2 DEF Pool
<1> HIDE DEF r
<1>5. RejOK(r)
  BY <1>2, <1>3, <1>4 DEF RejOK
<1>6. Touches(m, r, {t})
  BY <1>2, <1>4 DEF Touches
<1>7. QED
  BY <1>1, <1>5, <1>6

\* The transaction of the first input of t that is not in order.
WaitsFor(m, t, trusted) == OutTx[Ins[t][Min({i \in DOMAIN Ins[t] : OfInput(m, t, i, trusted) # {"OK"}})]]

\* n is r with t waiting for p.
Waits(r, n, t, p) ==
    /\ r \in Pool
    /\ n.toSend = r.toSend /\ n.rej = r.rej /\ n.rejSize = r.rejSize
    /\ \A u \in Tx : n.w4[u] = IF u = t THEN p ELSE r.w4[u]
    /\ \A i \in Id : n.waiting[i] = IF i = p THEN r.waiting[i] \cup {t} ELSE r.waiting[i]

LEMMA WaitForInputFields ==
    ASSUME NEW m \in Pool, NEW t \in Tx, NEW trusted,
           {i \in DOMAIN Ins[t] : OfInput(m, t, i, trusted) # {"OK"}} # {}
    PROVE  WaitsFor(m, t, trusted) \in Id
           /\ Waits(RejectTx(m, {t}, "NO_TXOU"), WaitForInput(m, t, trusted), t, WaitsFor(m, t, trusted))
<1> DEFINE B == {i \in DOMAIN Ins[t] : OfInput(m, t, i, trusted) # {"OK"}}
           p == WaitsFor(m, t, trusted)
           r == RejectTx(m, {t}, "NO_TXOU")
           n == WaitForInput(m, t, trusted)
<1>1. n = [r EXCEPT !.w4[t] = p, !.waiting[p] = r.waiting[p] \cup {t}]
  BY Zenon DEF WaitForInput, WaitsFor
<1>2. p \in Id
  <2>1. B \subseteq DOMAIN Ins[t] /\ B # {}
    OBVIOUS
  <2> HIDE DEF B
  <2>2. QED
    BY <2>1, FirstBad DEF B, WaitsFor
<1>3. r \in Pool
  BY RejectTxType DEF Reasons
<1> HIDE DEF p, r, n
<1>4. /\ n.toSend = r.toSend /\ n.rej = r.rej /\ n.rejSize = r.rejSize
      /\ n.w4 = [r.w4 EXCEPT ![t] = p]
      /\ n.waiting = [r.waiting EXCEPT ![p] = r.waiting[p] \cup {t}]
  BY <1>1, <1>3 DEF Pool
<1>5. r.w4 \in [Tx -> Id \cup {None}] /\ r.waiting \in [Id -> SUBSET Tx]
  BY <1>3 DEF Pool
<1>6. /\ \A u \in Tx : n.w4[u] = IF u = t THEN p ELSE r.w4[u]
      /\ \A i \in Id : n.waiting[i] = IF i = p THEN r.waiting[i] \cup {t} ELSE r.waiting[i]
  BY <1>4, <1>5
<1>7. QED
  BY <1>2, <1>3, <1>4, <1>6 DEF p, r, n, Waits

LEMMA WaitForInputRej ==
    ASSUME NEW m \in Pool, RejOK(m), NEW t \in Tx, Free(m, t), NEW trusted,
           {i \in DOMAIN Ins[t] : OfInput(m, t, i, trusted) # {"OK"}} # {}
    PROVE  RejOK(WaitForInput(m, t, trusted)) /\ Touches(m, WaitForInput(m, t, trusted), {t})
<1> DEFINE p == WaitsFor(m, t, trusted)
           r == RejectTx(m, {t}, "NO_TXOU")
           n == WaitForInput(m, t, trusted)
<1>1. /\ p \in Id /\ r \in Pool
      /\ n.toSend = r.toSend /\ n.rej = r.rej /\ n.rejSize = r.rejSize
      /\ \A u \in Tx : n.w4[u] = IF u = t THEN p ELSE r.w4[u]
      /\ \A i \in Id : n.waiting[i] = IF i = p THEN r.waiting[i] \cup {t} ELSE r.waiting[i]
  <2>1. p \in Id /\ Waits(r, n, t, p)
    BY WaitForInputFields, Zenon
  <2> HIDE DEF p, r, n
  <2>2. QED
    BY <2>1 DEF Waits
<1>2. RejOK(r) /\ Touches(m, r, {t})
  <2>1. m.rej[t] \notin Kept /\ m.w4[t] = None /\ t \notin m.toSend
    BY NoneIsNone DEF RejOK, Free
  <2>2. QED
    BY <2>1, RejectTxRej DEF Reasons
<1>3. r.rej[t] = "NO_TXOU" /\ r.w4[t] = None
  BY RejectTxFields
<1> HIDE DEF p, r, n
<1>4. ASSUME NEW i \in Id, NEW u \in Tx PROVE u \in n.waiting[i] <=> n.w4[u] = i
  <2>1. u \in r.waiting[i] <=> r.w4[u] = i
    BY <1>2 DEF RejOK
  <2>2. i # None
    BY NoneIsNone
  <2>3. QED
    BY <1>1, <1>3, <2>1, <2>2
<1>5. RejOK(n)
  BY <1>1, <1>2, <1>3, <1>4 DEF RejOK
<1>6. Touches(m, n, {t})
  BY <1>1, <1>2 DEF Touches
<1>7. QED
  BY <1>5, <1>6 DEF n

LEMMA JudgedRej ==
    ASSUME NEW m \in Pool, RejOK(m), NEW t \in Tx, Free(m, t), NEW trusted, NEW local,
           NEW v \in Verdicts(m, t, trusted, local)
    PROVE  RejOK(Judged(m, t, trusted, v)) /\ Touches(m, Judged(m, t, trusted, v), {t})
<1>1. CASE v = "OK"
  BY <1>1, AcceptRej DEF Judged
<1>2. CASE v = "WAIT"
  <2>1. RejOK(WaitForInput(m, t, trusted)) /\ Touches(m, WaitForInput(m, t, trusted), {t})
    BY <1>2, VerdictType, WaitForInputRej
  <2>2. QED
    BY <1>2, <2>1 DEF Judged
<1>3. CASE v = "SCRIPT"
  BY <1>3 DEF Judged, Touches
<1>4. CASE v \notin {"OK", "WAIT", "SCRIPT"}
  <2>1. v \in Reasons
    BY <1>4, VerdictType
  <2>2. m.rej[t] \notin Kept /\ m.w4[t] = None /\ t \notin m.toSend
    BY NoneIsNone DEF RejOK, Free
  <2>3. RejOK(RejectTx(m, {t}, v)) /\ Touches(m, RejectTx(m, {t}, v), {t})
    BY <2>1, <2>2, RejectTxRej
  <2>4. QED
    BY <1>4, <2>3 DEF Judged
<1>5. QED
  BY <1>1, <1>2, <1>3, <1>4

LEMMA TxMinedRej ==
    ASSUME NEW m \in Pool, RejOK(m), NEW t \in Tx
    PROVE  RejOK(TxMined(m, t)) /\ Touches(m, TxMined(m, t), {})
<1> DEFINE j == UnMarkChildren(m, t)
           k == IF t \in m.toSend THEN Delete(j, {t}, None) ELSE m
           n == DeleteRejected(k, {t})
           S == WithChildren(n, {n.spent[o] : o \in InsOf(t)} \ {None})
<1>1. TxMined(m, t) = Delete(n, S, None)
  BY Zenon DEF TxMined
<1>2. j \in Pool /\ RejOK(j) /\ Touches(m, j, {})
  BY MarkType, MarkRej
<1> HIDE DEF j
<1>3. k \in Pool /\ RejOK(k) /\ Touches(m, k, {})
  <2>1. Delete(j, {t}, None) \in Pool /\ RejOK(Delete(j, {t}, None)) /\ Touches(j, Delete(j, {t}, None), {})
    BY <1>2, DeleteType, DeleteRej
  <2>2. Touches(m, Delete(j, {t}, None), {}) /\ Touches(m, m, {})
    BY <1>2, <2>1, TouchesTwice DEF Touches
  <2>3. QED
    BY <2>1, <2>2
<1> HIDE DEF k
<1>4. n \in Pool /\ RejOK(n) /\ Touches(k, n, {})
  BY <1>3, DeleteRejectedType, DeleteRejectedRej
<1> HIDE DEF n, S
<1>5. RejOK(Delete(n, S, None)) /\ Touches(n, Delete(n, S, None), {})
  BY <1>4, DeleteRej
<1>6. QED
  BY <1>1, <1>3, <1>4, <1>5, TouchesTwice

LEMMA AfterMinedRej ==
    ASSUME NEW m \in Pool, RejOK(m), NEW b \in Seq(Tx)
    PROVE  RejOK(AfterMined(m, b)[Len(b)]) /\ Touches(m, AfterMined(m, b)[Len(b)], {})
<1> DEFINE OK(n) == n \in Pool /\ RejOK(n) /\ Touches(m, n, {})
           after == AfterMined(m, b)
           bad == {k \in 0..Len(b) : ~ OK(after[k])}
<1>1. SUFFICES ASSUME bad # {} PROVE FALSE
  OBVIOUS
<1>2. \A i \in 0..Len(b) : after[i] = IF i = 0 THEN m ELSE TxMined(after[i - 1], b[i])
  BY AfterMinedRec
<1> HIDE DEF after
<1>3. PICK k \in bad : \A j \in bad : k <= j
  <2>1. bad \in SUBSET Nat
    OBVIOUS
  <2> HIDE DEF bad
  <2>2. QED
    BY <1>1, <2>1, LeastNat
<1>4. k # 0
  <2>1. OK(m)
    BY DEF Touches
  <2> HIDE DEF OK
  <2>2. QED
    BY <1>2, <1>3, <2>1
<1>5. OK(after[k - 1]) /\ b[k] \in Tx
  <2> HIDE DEF OK
  <2>1. QED
    BY <1>3, <1>4
<1>6. OK(TxMined(after[k - 1], b[k]))
  BY <1>5, TxMinedType, TxMinedRej, TouchesTwice
<1> HIDE DEF OK
<1>7. QED
  BY <1>2, <1>3, <1>4, <1>6

LEMMA LimitPoolSizeRej ==
    ASSUME NEW m \in Pool, RejOK(m), NEW fee \in Nat, NEW x \in LimitPoolSize(m, fee)
    PROVE  RejOK(x[1]) /\ Touches(m, x[1], {})
<1>1. x[1] = m \/ x[1] = DeleteRejected(m, LowFee(m)) \/ \E R : x[1] = Delete(m, R, "LOW_FEE")
  BY LimitPoolSizeForm
<1>2. RejOK(DeleteRejected(m, LowFee(m))) /\ Touches(m, DeleteRejected(m, LowFee(m)), {})
  BY DeleteRejectedRej DEF LowFee
<1>3. \A R : RejOK(Delete(m, R, "LOW_FEE")) /\ Touches(m, Delete(m, R, "LOW_FEE"), {})
  BY DeleteRej DEF Reasons
<1>4. Touches(m, m, {})
  BY DEF Touches
<1>5. QED
  BY <1>1, <1>2, <1>3, <1>4

\* Steps of a thread that hold a transaction from NeedThisTx on, and those
\* that will ask NeedThisTx first.
Holds(s) == s.do = "handle" /\ s.retry
Busy(s) == s.do = "need" \/ Holds(s)

HeldTx(q) == {q[i].tx : i \in {j \in DOMAIN q : Holds(q[j])}}
BusyTx(q) == {q[i].tx : i \in {j \in DOMAIN q : Busy(q[j])}}
Quiet(q) == \A i \in DOMAIN q : ~ Busy(q[i])

\* Only the next step of a thread holds a transaction.
Orderly(q) == \A i \in DOMAIN q : i # 1 => ~ Holds(q[i])

\* A transaction that is about to be handled is neither in the pool nor
\* rejected, nor in the hands of the other thread.
RejInv ==
    /\ RejOK(mp)
    /\ \A t \in TooBig : t \notin mp.toSend \cup Pending /\ mp.rej[t] \in {None, "TOO_BIG"}
    /\ file # None => file.toSend \cap TooBig = {}
    /\ \A t \in Pending : Free(mp, t)
    /\ \A th \in Thread : /\ Orderly(todo[th]) /\ BusyTx(todo[th]) \cap TooBig = {}
                          /\ \A t \in HeldTx(todo[th]) : Free(mp, t) /\ t \notin Pending
    /\ BusyTx(todo["main"]) \cap BusyTx(todo["webui"]) = {}
    /\ BusyTx(todo["webui"]) \subseteq Local

LEMMA QuietRetries ==
    ASSUME NEW x \in Seq(RetrySteps)
    PROVE  Quiet(x) /\ x \in Seq(Steps)
<1>1. \A s \in RetrySteps : ~ Busy(s) /\ s \in Steps
  BY DEF RetrySteps, RetryStep, Busy, Holds, Steps
<1>2. QED
  BY <1>1 DEF Quiet

\* A thread is done with its next step, which leaves x to be done first.
LEMMA QueueRest ==
    ASSUME NEW q \in Seq(Steps), q # <<>>, Orderly(q), NEW x \in Seq(Steps), Quiet(x), NEW y, y = x \o Tail(q)
    PROVE  Orderly(y) /\ HeldTx(y) = {} /\ BusyTx(y) \subseteq BusyTx(q)
<1>1. y \in Seq(Steps) /\ DOMAIN y = 1..(Len(x) + Len(q) - 1) /\ Len(x) \in Nat /\ Len(q) \in Nat
  BY DEF Steps
<1>2. ASSUME NEW i \in DOMAIN y, Busy(y[i]) PROVE ~ Holds(y[i]) /\ \E j \in DOMAIN q : Busy(q[j]) /\ q[j].tx = y[i].tx
  <2>1. CASE i \in 1..Len(x)
    <3>1. i \in DOMAIN x /\ y[i] = x[i]
      BY <2>1
    <3>2. QED
      BY <1>2, <3>1 DEF Quiet
  <2>2. CASE i \notin 1..Len(x)
    <3> DEFINE j == i - Len(x) + 1
    <3>1. j \in DOMAIN q /\ j # 1 /\ y[i] = q[j]
      BY <1>1, <2>2
    <3> HIDE DEF j
    <3>2. QED
      BY <1>2, <3>1 DEF Orderly
  <2>3. QED
    BY <2>1, <2>2
<1>3. \A i \in DOMAIN y : ~ Holds(y[i])
  BY <1>2 DEF Busy
<1>4. QED
  BY <1>2, <1>3 DEF Orderly, HeldTx, BusyTx

\* A step that asks NeedThisTx becomes one that holds the transaction.
LEMMA QueueHold ==
    ASSUME NEW q \in Seq(Steps), q # <<>>, Orderly(q), Head(q).do = "need",
           NEW s, s.tx = Head(q).tx, NEW y, y = <<s>> \o Tail(q)
    PROVE  Orderly(y) /\ HeldTx(y) \subseteq {Head(q).tx} /\ BusyTx(y) \subseteq BusyTx(q)
<1>1. DOMAIN y = 1..Len(q) /\ Len(q) \in Nat /\ DOMAIN q = 1..Len(q) /\ y[1] = s /\ q[1] = Head(q) /\ 1 \in DOMAIN q
  OBVIOUS
<1>2. \A i \in DOMAIN y : i # 1 => y[i] = q[i]
  OBVIOUS
<1>3. Orderly(y)
  BY <1>1, <1>2 DEF Orderly
<1>4. \A i \in DOMAIN y : Holds(y[i]) => y[i].tx = Head(q).tx
  BY <1>1, <1>3 DEF Orderly
<1>5. \A i \in DOMAIN y : Busy(y[i]) => \E j \in DOMAIN q : Busy(q[j]) /\ q[j].tx = y[i].tx
  BY <1>1, <1>2 DEF Busy
<1>6. HeldTx(y) \subseteq {Head(q).tx}
  BY <1>4 DEF HeldTx
<1>7. BusyTx(y) \subseteq BusyTx(q)
  BY <1>5 DEF BusyTx
<1>8. QED
  BY <1>3, <1>6, <1>7

\* The transactions T, which are not too big and nobody else's, are handled.
LEMMA RejFrame ==
    ASSUME TypeInv, RejInv, TypeInv', RejOK(mp'), NEW T, T \cap TooBig = {}, Touches(mp, mp', T),
           Pending' \subseteq Pending \ T, file' = file,
           \A th \in Thread : /\ Orderly(todo'[th]) /\ BusyTx(todo'[th]) \subseteq BusyTx(todo[th])
                              /\ HeldTx(todo'[th]) \subseteq HeldTx(todo[th]) \ T,
           \A th \in Thread : HeldTx(todo[th]) \subseteq Tx
    PROVE  RejInv'
<1>t. TooBig \subseteq Tx /\ Pending \subseteq Tx
  BY MempoolAssumption DEF TypeInv, TypeOK
<1>1. \A t \in Tx \ T : Free(mp, t) => Free(mp', t)
  BY DEF Touches, Free
<1>2. \A t \in TooBig : t \notin mp'.toSend \cup Pending' /\ mp'.rej[t] \in {None, "TOO_BIG"}
  BY <1>t DEF Touches, RejInv
<1>3. \A t \in Pending' : Free(mp', t)
  BY <1>t, <1>1 DEF RejInv
<1>4. ASSUME NEW th \in Thread
      PROVE  /\ Orderly(todo'[th]) /\ BusyTx(todo'[th]) \cap TooBig = {}
             /\ \A t \in HeldTx(todo'[th]) : Free(mp', t) /\ t \notin Pending'
  BY <1>1 DEF RejInv
<1>5. BusyTx(todo'["main"]) \cap BusyTx(todo'["webui"]) = {} /\ BusyTx(todo'["webui"]) \subseteq Local
  BY DEF RejInv, Thread
<1>6. QED
  BY <1>2, <1>3, <1>4, <1>5 DEF RejInv

LEMMA HeldType ==
    ASSUME NEW q \in Seq(Steps)
    PROVE  HeldTx(q) \subseteq Tx /\ BusyTx(q) \subseteq Tx /\ HeldTx(q) \subseteq BusyTx(q)
<1>1. \A i \in DOMAIN q : q[i].tx \in Tx
  BY StepType
<1>2. QED
  BY <1>1 DEF HeldTx, BusyTx, Busy

\* The threads do not get the same transaction at once, what the user loads is
\* not too big, and blocks are undone only where the web interface gets no
\* transaction and none is too big: BlockUndone asks neither.
Calm == ~Race /\ TooBig \cap Local = {} /\ (Undo => Local \cup TooBig = {})

\* What BlockUndone leaves to be done holds nothing yet.
LEMMA UndoneSteps ==
    ASSUME TypeInv, BlockUndone
    PROVE  \E x : /\ todo' = [todo EXCEPT !["main"] = x]
                  /\ Orderly(x) /\ HeldTx(x) = {} /\ BusyTx(x) \subseteq Tx
<1> DEFINE X == {NeedStep(t, TRUE, FALSE) : t \in Tx} \cup {MarkStep(t) : t \in Tx}
           b == Last(chain)
           e(i) == <<NeedStep(b[i], TRUE, FALSE), MarkStep(b[i])>>
           ss == [i \in DOMAIN b |-> e(i)]
<1>1. chain # <<>> /\ todo' = [todo EXCEPT !["main"] = FlattenSeq(ss)]
  BY Zenon DEF BlockUndone
<1>2. b \in Seq(Tx)
  <2>1. \A S, c : c \in Seq(S) /\ c # <<>> => Last(c) \in S
    BY DEF Last
  <2>2. QED
    BY <1>1, <2>1 DEF TypeInv, TypeOK
<1> HIDE DEF b
<1>3. ASSUME NEW i \in DOMAIN b PROVE ss[i] \in Seq(X)
  <2>1. NeedStep(b[i], TRUE, FALSE) \in X /\ MarkStep(b[i]) \in X
    <3>1. b[i] \in Tx
      BY <1>2
    <3>2. \A t \in Tx : NeedStep(t, TRUE, FALSE) \in X /\ MarkStep(t) \in X
      BY Zenon
    <3>3. QED
      BY <3>1, <3>2
  <2>2. ss[i] = <<NeedStep(b[i], TRUE, FALSE), MarkStep(b[i])>>
    OBVIOUS
  <2> HIDE DEF ss, X
  <2>3. \A x, y \in X : <<x, y>> \in Seq(X)
    OBVIOUS
  <2>4. QED
    BY <2>1, <2>2, <2>3
<1>4. Len(ss) = Len(b) /\ DOMAIN b = 1..Len(b) /\ Len(b) \in Nat /\ (Len(ss) = 0 => ss = <<>>)
  <2>1. DOMAIN b = 1..Len(b) /\ Len(b) \in Nat /\ DOMAIN ss = DOMAIN b
    BY <1>2
  <2> HIDE DEF e
  <2>2. QED
    BY <2>1
<1>5. \A s \in X : ~ Holds(s) /\ s.tx \in Tx
  BY DEF NeedStep, MarkStep, Holds
<1> HIDE DEF ss, X
<1>6. FlattenSeq(ss) \in Seq(X)
  BY <1>3, <1>4, FlattenType
<1>7. PICK x \in Seq(X) : todo' = [todo EXCEPT !["main"] = x]
  BY <1>1, <1>6
<1>8. \A i \in DOMAIN x : ~ Holds(x[i]) /\ x[i].tx \in Tx
  BY <1>5
<1>9. QED
  BY <1>7, <1>8 DEF Orderly, HeldTx, BusyTx

\* HandleNetTx by a thread whose next step is over with it.
LEMMA HandleNetTxRej ==
    ASSUME TypeInv, TypeInv', RejInv, NEW th \in Thread, todo[th] # <<>>, NEW t \in Tx, t \notin TooBig,
           NEW trusted, NEW local, NEW retry \in BOOLEAN,
           NEW x \in Seq(Steps), Quiet(x), HandleNetTx(th, t, trusted, local, retry, x \o Tail(todo[th])),
           retry => t \notin mp.toSend \cup Pending /\ \A h \in Thread \ {th} : t \notin HeldTx(todo[h]),
           file' = file
    PROVE  RejInv'
<1> DEFINE m == IF retry THEN DeleteRejected(mp, {t}) ELSE mp
<1>t. mp \in Pool /\ RejOK(mp) /\ DOMAIN todo = Thread /\ \A h \in Thread : todo[h] \in Seq(Steps) /\ Orderly(todo[h])
  BY DEF TypeInv, TypeOK, RejInv
<1>h. \A h \in Thread : HeldTx(todo[h]) \subseteq Tx
  BY <1>t, HeldType
<1>s. Touches(mp, mp, {})
  BY DEF Touches
<1>1. CASE UNCHANGED <<mp, Pending>> /\ todo' = [todo EXCEPT ![th] = x \o Tail(todo[th])]
  <2>1. todo'[th] = x \o Tail(todo[th]) /\ \A h \in Thread \ {th} : todo'[h] = todo[h]
    BY <1>1, <1>t
  <2>2. Orderly(todo'[th]) /\ HeldTx(todo'[th]) = {} /\ BusyTx(todo'[th]) \subseteq BusyTx(todo[th])
    BY <1>t, <2>1, QueueRest
  <2>3. \A h \in Thread : /\ Orderly(todo'[h]) /\ BusyTx(todo'[h]) \subseteq BusyTx(todo[h])
                          /\ HeldTx(todo'[h]) \subseteq HeldTx(todo[h]) \ {}
    BY <1>t, <2>1, <2>2
  <2>4. RejOK(mp') /\ Touches(mp, mp', {}) /\ Pending' \subseteq Pending \ {}
    BY <1>1, <1>t, <1>s
  <2>5. QED
    BY <1>h, <2>3, <2>4, RejFrame
<1>2. ASSUME NEW v \in Verdicts(m, t, trusted, local), mp' = Judged(m, t, trusted, v), retry \/ t \in Pending,
             todo' = [todo EXCEPT ![th] = (IF v = "OK" THEN Retries(mp', <<t>>) ELSE <<>>) \o (x \o Tail(todo[th]))],
             Pending' = IF retry THEN Pending ELSE Pending \ {t}
      PROVE  RejInv'
  <2>1. m \in Pool /\ RejOK(m) /\ Free(m, t) /\ Touches(mp, m, {t})
    <3>1. CASE retry
      <4>1. /\ RejOK(DeleteRejected(mp, {t})) /\ Touches(mp, DeleteRejected(mp, {t}), {})
            /\ Free(DeleteRejected(mp, {t}), t)
        BY <1>t, <3>1, DeleteRejectedRej
      <4>2. DeleteRejected(mp, {t}) \in Pool
        BY <1>t, DeleteRejectedType
      <4>3. QED
        BY <3>1, <4>1, <4>2 DEF Touches
    <3>2. CASE ~retry
      BY <1>2, <1>t, <1>s, <3>2 DEF RejInv, Touches
    <3>3. QED
      BY <3>1, <3>2
  <2> HIDE DEF m
  <2>2. RejOK(mp') /\ Touches(mp, mp', {t})
    BY <1>2, <2>1, JudgedRej, TouchesTwice
  <2> DEFINE r == IF v = "OK" THEN Retries(mp', <<t>>) ELSE <<>>
             y == r \o x
  <2>3. y \in Seq(Steps) /\ Quiet(y)
    <3>1. mp' \in Pool /\ <<t>> \in Seq(Tx)
      BY DEF TypeInv, TypeOK
    <3>2. r \in Seq(RetrySteps)
      <4>1. Retries(mp', <<t>>) \in Seq(RetrySteps)
        BY <3>1, RetriesForm
      <4>2. <<>> \in Seq(RetrySteps)
        OBVIOUS
      <4>3. QED
        BY <4>1, <4>2
    <3> HIDE DEF r
    <3>3. Quiet(r) /\ r \in Seq(Steps)
      BY <3>2, QuietRetries
    <3>4. \A i \in DOMAIN y : IF i \in DOMAIN r THEN y[i] = r[i] ELSE i - Len(r) \in DOMAIN x /\ y[i] = x[i - Len(r)]
      BY <3>3
    <3>5. y \in Seq(Steps)
      BY <3>3
    <3>6. QED
      BY <3>3, <3>4, <3>5 DEF Quiet
  <2>4. r \o (x \o Tail(todo[th])) = y \o Tail(todo[th])
    <3>1. r \in Seq(Steps)
      <4>1. mp' \in Pool /\ <<t>> \in Seq(Tx)
        BY DEF TypeInv, TypeOK
      <4>2. Retries(mp', <<t>>) \in Seq(Steps)
        BY <4>1, RetriesType
      <4>3. <<>> \in Seq(Steps)
        OBVIOUS
      <4>4. QED
        BY <4>2, <4>3
    <3>2. Tail(todo[th]) \in Seq(Steps)
      BY <1>t
    <3>3. \A a, b, c \in Seq(Steps) : a \o (b \o c) = (a \o b) \o c
      BY SMT
    <3> HIDE DEF r
    <3>4. QED
      BY <3>1, <3>2, <3>3
  <2>5. todo' = [todo EXCEPT ![th] = y \o Tail(todo[th])]
    BY <1>2, <2>4
  <2> HIDE DEF y
  <2>6. todo'[th] = y \o Tail(todo[th]) /\ \A h \in Thread \ {th} : todo'[h] = todo[h]
    BY <1>t, <2>5
  <2>7. Orderly(todo'[th]) /\ HeldTx(todo'[th]) = {} /\ BusyTx(todo'[th]) \subseteq BusyTx(todo[th])
    BY <1>t, <2>3, <2>6, QueueRest
  <2>8. \A h \in Thread \ {th} : t \notin HeldTx(todo[h])
    BY <1>2 DEF RejInv
  <2>9. \A h \in Thread : /\ Orderly(todo'[h]) /\ BusyTx(todo'[h]) \subseteq BusyTx(todo[h])
                          /\ HeldTx(todo'[h]) \subseteq HeldTx(todo[h]) \ {t}
    BY <1>t, <2>6, <2>7, <2>8
  <2>10. Pending' \subseteq Pending \ {t} /\ {t} \cap TooBig = {}
    BY <1>2
  <2>11. QED
    BY <1>h, <2>2, <2>9, <2>10, RejFrame
<1>3. QED
  BY <1>1, <1>2, Zenon DEF HandleNetTx

LEMMA RejStep ==
    ASSUME Calm
    PROVE  TypeInv /\ RejInv /\ [Next]_vars => RejInv'
<1> SUFFICES ASSUME TypeInv, RejInv, [Next]_vars PROVE RejInv'
  OBVIOUS
<1>i. TypeInv'
  BY TypeStep
<1>t. /\ mp \in Pool /\ RejOK(mp) /\ minFee \in Nat /\ Pending \subseteq Tx /\ DOMAIN todo = Thread
      /\ \A h \in Thread : todo[h] \in Seq(Steps) /\ Orderly(todo[h])
      /\ "main" \in Thread /\ "webui" \in Thread
  BY DEF TypeInv, TypeOK, RejInv, Thread
<1>h. \A h \in Thread : HeldTx(todo[h]) \subseteq Tx /\ BusyTx(todo[h]) \subseteq Tx /\ HeldTx(todo[h]) \subseteq BusyTx(todo[h])
  BY <1>t, HeldType
<1>b. TooBig \subseteq Tx /\ Local \subseteq Tx
  BY MempoolAssumption
<1>e. Orderly(<<>>) /\ HeldTx(<<>>) = {} /\ BusyTx(<<>>) = {}
  BY DEF Orderly, HeldTx, BusyTx
\* The pool changes without a transaction becoming rejected that was free.
<1>f. ASSUME RejOK(mp'), Touches(mp, mp', {}), Pending' \subseteq Pending, file' = file,
             todo' = todo \/ (todo["main"] = <<>> /\ \E x : Quiet(x) /\ todo' = [todo EXCEPT !["main"] = x])
      PROVE  RejInv'
  <2>1. ASSUME NEW h \in Thread
        PROVE  /\ Orderly(todo'[h]) /\ BusyTx(todo'[h]) \subseteq BusyTx(todo[h])
               /\ HeldTx(todo'[h]) \subseteq HeldTx(todo[h]) \ {}
    <3>1. CASE todo'[h] = todo[h]
      BY <1>t, <3>1
    <3>2. CASE Quiet(todo'[h])
      <4>1. \A q : Quiet(q) => Orderly(q) /\ BusyTx(q) = {} /\ HeldTx(q) = {}
        BY DEF Quiet, Orderly, BusyTx, HeldTx, Busy
      <4>2. QED
        BY <3>2, <4>1
    <3>3. QED
      BY <1>f, <1>t, <3>1, <3>2
  <2>2. Pending' \subseteq Pending \ {} /\ {} \cap TooBig = {}
    BY <1>f
  <2>3. QED
    BY <1>f, <1>h, <1>i, <2>1, <2>2, RejFrame
<1>s. Touches(mp, mp, {})
  BY DEF Touches
<1>1. ASSUME NEW t \in Tx, ParseTxNetTooBig(t) PROVE RejInv'
  <2>1. t \in TooBig /\ mp' = RejectTx(mp, {t}, "TOO_BIG") /\ UNCHANGED <<Pending, todo, file>>
    BY <1>1 DEF ParseTxNetTooBig, netVars
  <2>2. mp.rej[t] \notin Kept /\ mp.w4[t] = None /\ t \notin mp.toSend
    BY <2>1, NoneIsNone DEF RejInv, RejOK
  <2>3. RejOK(mp') /\ Touches(mp, mp', {t})
    BY <1>t, <2>1, <2>2, RejectTxRej DEF Reasons
  <2>4. mp'.rej[t] = "TOO_BIG" /\ mp'.toSend = mp.toSend
    BY <1>t, <2>1, RejectTxFields
  <2>5. \A u \in Tx \ {t} : Free(mp, u) => Free(mp', u)
    BY <2>3 DEF Touches, Free
  <2>6. \A u \in TooBig : u \notin mp'.toSend \cup Pending' /\ mp'.rej[u] \in {None, "TOO_BIG"}
    BY <1>b, <2>1, <2>3, <2>4 DEF RejInv, Touches
  <2>7. \A u \in Pending' : Free(mp', u)
    BY <1>t, <2>1, <2>5 DEF RejInv
  <2>8. \A h \in Thread : \A u \in HeldTx(todo[h]) : Free(mp', u)
    <3>1. \A h \in Thread : t \notin HeldTx(todo[h])
      BY <1>h, <2>1 DEF RejInv
    <3>2. QED
      BY <1>h, <2>5, <3>1 DEF RejInv
  <2>9. QED
    BY <2>1, <2>3, <2>6, <2>7, <2>8 DEF RejInv
<1>2. ASSUME NEW t \in Tx, LoadRawTx(t) PROVE RejInv'
  <2>1. /\ t \in Local /\ todo["webui"] = <<>> /\ Alone(t) /\ UNCHANGED <<Pending, file>>
        /\ mp' = DeleteRejected(mp, {t})
        /\ todo' = [todo EXCEPT !["webui"] = <<NeedStep(t, TRUE, TRUE)>>]
    BY <1>2 DEF LoadRawTx, netVars
  <2>2. RejOK(mp') /\ Touches(mp, mp', {})
    BY <1>t, <2>1, DeleteRejectedRej
  <2>3. todo'["webui"] = <<NeedStep(t, TRUE, TRUE)>> /\ todo'["main"] = todo["main"]
    <3> DEFINE x == <<NeedStep(t, TRUE, TRUE)>>
    <3>1. todo' = [todo EXCEPT !["webui"] = x]
      BY <2>1
    <3> HIDE DEF x
    <3>2. todo'["webui"] = x /\ todo'["main"] = todo["main"]
      BY <1>t, <3>1
    <3>3. QED
      BY <3>2 DEF x
  <2>4. Orderly(todo'["webui"]) /\ HeldTx(todo'["webui"]) = {} /\ BusyTx(todo'["webui"]) = {t}
    BY <2>3 DEF NeedStep, Orderly, HeldTx, BusyTx, Busy, Holds
  <2>5. t \notin BusyTx(todo["main"]) /\ t \notin TooBig
    BY <1>t, <2>1 DEF Alone, BusyTx, Calm
  <2>6. \A u \in Tx : Free(mp, u) => Free(mp', u)
    BY <2>2 DEF Touches, Free
  <2>7. \A u \in TooBig : u \notin mp'.toSend \cup Pending' /\ mp'.rej[u] \in {None, "TOO_BIG"}
    BY <1>b, <2>1, <2>2 DEF RejInv, Touches
  <2>8. ASSUME NEW h \in Thread
        PROVE  /\ Orderly(todo'[h]) /\ BusyTx(todo'[h]) \cap TooBig = {}
               /\ \A u \in HeldTx(todo'[h]) : Free(mp', u) /\ u \notin Pending'
    <3>1. CASE h = "webui"
      BY <2>4, <2>5, <3>1
    <3>2. CASE h = "main"
      BY <1>h, <2>1, <2>3, <2>6, <3>2 DEF RejInv
    <3>3. QED
      BY <3>1, <3>2 DEF Thread
  <2>9. \A u \in Pending' : Free(mp', u)
    BY <1>t, <2>1, <2>6 DEF RejInv
  <2>10. BusyTx(todo'["main"]) \cap BusyTx(todo'["webui"]) = {}
    BY <2>3, <2>4, <2>5
  <2>11. BusyTx(todo'["webui"]) \subseteq Local
    BY <2>1, <2>4
  <2>12. file' # None => file'.toSend \cap TooBig = {}
    BY <2>1 DEF RejInv
  <2>13. QED
    BY <2>2, <2>7, <2>8, <2>9, <2>10, <2>11, <2>12 DEF RejInv
<1>3. ASSUME NEW t \in Tx, DeleteTx(t) PROVE RejInv'
  <2>1. mp' = Delete(mp, WithChildren(mp, {t}), None) /\ UNCHANGED <<Pending, todo, file>>
    BY <1>3 DEF DeleteTx, netVars
  <2>2. RejOK(mp') /\ Touches(mp, mp', {})
    BY <1>t, <2>1, DeleteRej
  <2>3. QED
    BY <1>f, <2>1, <2>2
<1>4. ASSUME NEW t \in Tx, NEW trusted \in BOOLEAN, ParseTxNet(t, trusted) PROVE RejInv'
  <2>1. /\ t \notin TooBig /\ NeedThisTx(t) /\ Alone(t) /\ Pending' = Pending \cup {t}
        /\ UNCHANGED <<mp, todo, file>>
    BY <1>4 DEF ParseTxNet
  <2>2. Free(mp, t)
    BY <2>1 DEF NeedThisTx, Free
  <2>3. \A h \in Thread : t \notin HeldTx(todo[h])
    BY <2>1 DEF Alone, HeldTx, Calm
  <2>4. QED
    BY <2>1, <2>2, <2>3 DEF RejInv
<1>5. CASE TakeNetTx
  <2> DEFINE s == HandleStep(Head(NetTxs)[1], Head(NetTxs)[2], FALSE, FALSE)
  <2>1. todo["main"] = <<>> /\ todo' = [todo EXCEPT !["main"] = <<s>>] /\ UNCHANGED <<mp, Pending, file>>
    BY <1>5 DEF TakeNetTx
  <2>2. s.do = "handle" /\ s.retry = FALSE
    BY DEF HandleStep
  <2> HIDE DEF s
  <2>3. Quiet(<<s>>)
    BY <2>2 DEF Quiet, Busy, Holds
  <2>4. QED
    BY <1>f, <1>s, <1>t, <2>1, <2>3
<1>6. ASSUME NEW th \in Thread, DoHandle(th) PROVE RejInv'
  <2> DEFINE s == Head(todo[th])
  <2>1. /\ todo[th] # <<>> /\ s.do = "handle" /\ file' = file
        /\ HandleNetTx(th, s.tx, s.trusted, s.local, s.retry, Tail(todo[th]))
    BY <1>6 DEF DoHandle
  <2>2. s \in Steps /\ Tail(todo[th]) \in Seq(Steps) /\ todo[th][1] = s /\ 1 \in DOMAIN todo[th]
    BY <1>t, <2>1
  <2>3. s.tx \in Tx /\ s.retry \in BOOLEAN
    BY <2>1, <2>2, StepType
  <2>4. <<>> \in Seq(Steps) /\ Quiet(<<>>) /\ <<>> \o Tail(todo[th]) = Tail(todo[th])
    BY <2>2 DEF Quiet
  <2>5. s.retry => s.tx \in HeldTx(todo[th]) /\ s.tx \in BusyTx(todo[th])
    BY <2>1, <2>2 DEF HeldTx, BusyTx, Busy, Holds
  <2>6. s.retry => s.tx \notin mp.toSend \cup Pending /\ \A h \in Thread \ {th} : s.tx \notin HeldTx(todo[h])
    BY <1>h, <2>5 DEF RejInv, Free, Thread
  <2>7. CASE s.tx \notin TooBig
    <3> HIDE DEF s
    <3>1. HandleNetTx(th, s.tx, s.trusted, s.local, s.retry, <<>> \o Tail(todo[th]))
      BY <2>1, <2>4
    <3>2. QED
      BY <1>i, <2>1, <2>3, <2>4, <2>6, <2>7, <3>1, HandleNetTxRej
  <2>8. CASE s.tx \in TooBig
    <3>1. ~s.retry /\ s.tx \notin Pending
      BY <2>3, <2>5, <2>8 DEF RejInv
    <3>2. UNCHANGED <<mp, Pending>> /\ todo' = [todo EXCEPT ![th] = Tail(todo[th])]
      BY <2>1, <3>1 DEF HandleNetTx
    <3>3. HandleNetTx(th, s.tx, s.trusted, s.local, s.retry, <<>> \o Tail(todo[th]))
      BY <2>1, <2>4
    <3>4. todo'[th] = <<>> \o Tail(todo[th]) /\ \A h \in Thread \ {th} : todo'[h] = todo[h]
      BY <1>t, <2>4, <3>2
    <3>5. Orderly(todo'[th]) /\ HeldTx(todo'[th]) = {} /\ BusyTx(todo'[th]) \subseteq BusyTx(todo[th])
      BY <1>t, <2>1, <2>4, <3>4, QueueRest
    <3>6. \A h \in Thread : /\ Orderly(todo'[h]) /\ BusyTx(todo'[h]) \subseteq BusyTx(todo[h])
                            /\ HeldTx(todo'[h]) \subseteq HeldTx(todo[h]) \ {}
      BY <1>t, <3>4, <3>5
    <3>7. RejOK(mp') /\ Touches(mp, mp', {}) /\ Pending' \subseteq Pending \ {} /\ {} \cap TooBig = {}
      BY <1>s, <1>t, <3>2
    <3>8. QED
      BY <1>h, <1>i, <2>1, <3>6, <3>7, RejFrame
  <2>9. QED
    BY <2>7, <2>8
<1>7. ASSUME NEW th \in Thread, DoRetry(th) PROVE RejInv'
  <2> DEFINE s == Head(todo[th])
             left == s.ids \cap mp.waiting[s.tx]
  <2>1. /\ todo[th] # <<>> /\ s.do = "retry" /\ file' = file
        /\ \/ todo' = [todo EXCEPT ![th] = Tail(todo[th])] /\ UNCHANGED <<mp, Pending>>
           \/ \E t \in left : HandleNetTx(th, t, FALSE, FALSE, TRUE,
                                          <<RetryStep(s.tx, left \ {t})>> \o Tail(todo[th]))
    BY <1>7 DEF DoRetry
  <2>2. s \in Steps /\ Tail(todo[th]) \in Seq(Steps)
    BY <1>t, <2>1
  <2>3. s.tx \in Tx /\ s.ids \subseteq Tx
    BY <2>1, <2>2, StepType
  <2>4. CASE todo' = [todo EXCEPT ![th] = Tail(todo[th])] /\ UNCHANGED <<mp, Pending>>
    <3>1. <<>> \in Seq(Steps) /\ Quiet(<<>>) /\ <<>> \o Tail(todo[th]) = Tail(todo[th])
      BY <2>2 DEF Quiet
    <3>2. todo'[th] = <<>> \o Tail(todo[th]) /\ \A h \in Thread \ {th} : todo'[h] = todo[h]
      BY <1>t, <2>4, <3>1
    <3>3. Orderly(todo'[th]) /\ HeldTx(todo'[th]) = {} /\ BusyTx(todo'[th]) \subseteq BusyTx(todo[th])
      BY <1>t, <2>1, <3>1, <3>2, QueueRest
    <3>4. \A h \in Thread : /\ Orderly(todo'[h]) /\ BusyTx(todo'[h]) \subseteq BusyTx(todo[h])
                            /\ HeldTx(todo'[h]) \subseteq HeldTx(todo[h]) \ {}
      BY <1>t, <3>2, <3>3
    <3>5. RejOK(mp') /\ Touches(mp, mp', {}) /\ Pending' \subseteq Pending \ {} /\ {} \cap TooBig = {}
      BY <1>s, <1>t, <2>4
    <3>6. QED
      BY <1>h, <1>i, <2>1, <3>4, <3>5, RejFrame
  <2>5. ASSUME NEW t \in left,
               HandleNetTx(th, t, FALSE, FALSE, TRUE, <<RetryStep(s.tx, left \ {t})>> \o Tail(todo[th]))
        PROVE  RejInv'
    <3>1. t \in Tx /\ left \ {t} \in SUBSET Tx /\ t \in mp.waiting[s.tx] /\ s.tx \in Id
      BY <2>3 DEF Id
    <3>2. mp.w4[t] = s.tx /\ mp.w4[t] # None
      BY <1>t, <3>1, NoneIsNone DEF RejOK
    <3>3. mp.rej[t] = "NO_TXOU" /\ mp.rej[t] # None
      BY <1>t, <3>1, <3>2, NoneIsNone DEF RejOK
    <3>4. t \notin TooBig
      BY <3>3 DEF RejInv
    <3>5. t \notin mp.toSend \cup Pending /\ \A h \in Thread \ {th} : t \notin HeldTx(todo[h])
      BY <3>3 DEF RejInv, RejOK, Free
    <3>6. <<RetryStep(s.tx, left \ {t})>> \in Seq(RetrySteps)
      <4>1. ASSUME NEW u \in Tx, NEW ids \in SUBSET Tx PROVE <<RetryStep(u, ids)>> \in Seq(RetrySteps)
        BY DEF RetrySteps
      <4>2. QED
        BY <2>3, <3>1, <4>1
    <3> HIDE DEF left, s
    <3>7. QED
      BY <1>i, <2>1, <2>5, <3>1, <3>4, <3>5, <3>6, HandleNetTxRej, QuietRetries
  <2>6. QED
    BY <2>1, <2>4, <2>5
<1>8. ASSUME NEW th \in Thread, DoNeed(th) PROVE RejInv'
  <2> DEFINE s == Head(todo[th])
             k == HandleStep(s.tx, s.trusted, s.local, TRUE)
  <2>1. /\ todo[th] # <<>> /\ s.do = "need" /\ UNCHANGED <<file, mp, Pending>>
        /\ todo' = [todo EXCEPT ![th] = (IF NeedThisTx(s.tx) THEN <<k>> ELSE <<>>) \o Tail(todo[th])]
    BY <1>8, Zenon DEF DoNeed, netVars
  <2>2. s \in Steps /\ Tail(todo[th]) \in Seq(Steps) /\ <<>> \in Seq(Steps) /\ Quiet(<<>>)
    BY <1>t, <2>1 DEF Quiet
  <2>3. k.tx = s.tx
    BY DEF HandleStep
  <2> HIDE DEF k
  <2>4. /\ todo'[th] = (IF NeedThisTx(s.tx) THEN <<k>> ELSE <<>>) \o Tail(todo[th])
        /\ \A h \in Thread \ {th} : todo'[h] = todo[h]
    <3> DEFINE z == (IF NeedThisTx(s.tx) THEN <<k>> ELSE <<>>) \o Tail(todo[th])
    <3>1. todo' = [todo EXCEPT ![th] = z]
      BY <2>1
    <3> HIDE DEF z
    <3>2. todo'[th] = z /\ \A h \in Thread \ {th} : todo'[h] = todo[h]
      BY <1>t, <3>1
    <3>3. QED
      BY <3>2 DEF z
  <2>5. /\ Orderly(todo'[th]) /\ BusyTx(todo'[th]) \subseteq BusyTx(todo[th])
        /\ \A t \in HeldTx(todo'[th]) : Free(mp, t) /\ t \notin Pending
    <3>1. CASE NeedThisTx(s.tx)
      <4>1. todo'[th] = <<k>> \o Tail(todo[th])
        BY <2>4, <3>1
      <4>2. /\ Orderly(todo'[th]) /\ HeldTx(todo'[th]) \subseteq {s.tx}
            /\ BusyTx(todo'[th]) \subseteq BusyTx(todo[th])
        BY <1>t, <2>1, <2>3, <4>1, QueueHold
      <4>3. Free(mp, s.tx) /\ s.tx \notin Pending
        BY <3>1 DEF NeedThisTx, Free
      <4>4. QED
        BY <4>2, <4>3
    <3>2. CASE ~NeedThisTx(s.tx)
      <4>1. todo'[th] = <<>> \o Tail(todo[th])
        BY <2>4, <3>2
      <4>2. Orderly(todo'[th]) /\ HeldTx(todo'[th]) = {} /\ BusyTx(todo'[th]) \subseteq BusyTx(todo[th])
        BY <1>t, <2>1, <2>2, <4>1, QueueRest
      <4>3. QED
        BY <4>2
    <3>3. QED
      BY <3>1, <3>2
  <2>6. ASSUME NEW h \in Thread
        PROVE  /\ Orderly(todo'[h]) /\ BusyTx(todo'[h]) \subseteq BusyTx(todo[h])
               /\ \A t \in HeldTx(todo'[h]) : Free(mp, t) /\ t \notin Pending
    <3>1. CASE h = th
      BY <2>5, <3>1
    <3>2. CASE h # th
      BY <2>4, <3>2 DEF RejInv
    <3>3. QED
      BY <3>1, <3>2
  <2>7. BusyTx(todo'["main"]) \cap BusyTx(todo'["webui"]) = {} /\ BusyTx(todo'["webui"]) \subseteq Local
    BY <1>t, <2>6 DEF RejInv
  <2>8. \A h \in Thread : BusyTx(todo'[h]) \cap TooBig = {}
    BY <2>6 DEF RejInv
  <2>9. QED
    BY <2>1, <2>6, <2>7, <2>8 DEF RejInv
<1>9. ASSUME NEW th \in Thread, DoMark(th) PROVE RejInv'
  <2>1. /\ todo[th] # <<>> /\ UNCHANGED <<file, Pending>>
        /\ mp' = MarkChildren(mp, Head(todo[th]).tx)
        /\ todo' = [todo EXCEPT ![th] = Tail(todo[th])]
    BY <1>9 DEF DoMark, netVars
  <2>2. <<>> \in Seq(Steps) /\ Quiet(<<>>) /\ <<>> \o Tail(todo[th]) = Tail(todo[th])
    BY <1>t, <2>1 DEF Quiet
  <2>3. todo'[th] = <<>> \o Tail(todo[th]) /\ \A h \in Thread \ {th} : todo'[h] = todo[h]
    BY <1>t, <2>1, <2>2
  <2>4. Orderly(todo'[th]) /\ HeldTx(todo'[th]) = {} /\ BusyTx(todo'[th]) \subseteq BusyTx(todo[th])
    BY <1>t, <2>1, <2>2, <2>3, QueueRest
  <2>5. \A h \in Thread : /\ Orderly(todo'[h]) /\ BusyTx(todo'[h]) \subseteq BusyTx(todo[h])
                          /\ HeldTx(todo'[h]) \subseteq HeldTx(todo[h]) \ {}
    BY <1>t, <2>3, <2>4
  <2>6. RejOK(mp') /\ Touches(mp, mp', {})
    BY <1>t, <2>1, MarkRej
  <2>7. Pending' \subseteq Pending \ {} /\ {} \cap TooBig = {}
    BY <2>1
  <2>8. QED
    BY <1>h, <1>i, <2>1, <2>5, <2>6, <2>7, RejFrame
<1>10. ASSUME NEW b \in Blocks, BlockMined(b) PROVE RejInv'
  <2>1. /\ todo["main"] = <<>> /\ mp' = AfterMined(mp, b)[Len(b)] /\ Pending' \subseteq Pending
        /\ todo' = [todo EXCEPT !["main"] = Retries(mp', b)] /\ file' = file
    BY <1>10 DEF BlockMined
  <2>2. b \in Seq(Tx)
    BY BlocksType
  <2>3. RejOK(mp') /\ Touches(mp, mp', {})
    BY <1>t, <2>1, <2>2, AfterMinedRej
  <2>4. mp' \in Pool
    BY <1>i DEF TypeInv, TypeOK
  <2>5. Quiet(Retries(mp', b))
    BY <2>2, <2>4, RetriesForm, QuietRetries
  <2>6. QED
    BY <1>f, <2>1, <2>3, <2>5
<1>11. CASE ExpireTxs
  <2>1. PICK x \in LimitPoolSize(mp, minFee) : \E r \in LimitRejectedSize(x[1]) :
          mp' = DeleteRejected(x[1], r[1] \cup r[2])
    BY <1>11, Zenon DEF ExpireTxs
  <2>2. PICK r \in LimitRejectedSize(x[1]) : mp' = DeleteRejected(x[1], r[1] \cup r[2])
    BY <2>1, Zenon
  <2>3. x[1] \in Pool /\ RejOK(x[1]) /\ Touches(mp, x[1], {})
    BY <1>t, LimitPoolSizeType, LimitPoolSizeRej
  <2>4. r[1] \cup r[2] \subseteq Tx
    BY LimitRejectedType
  <2>5. RejOK(mp') /\ Touches(x[1], mp', {})
    BY <2>2, <2>3, <2>4, DeleteRejectedRej
  <2>6. Touches(mp, mp', {})
    BY <2>3, <2>5, TouchesTwice
  <2>7. UNCHANGED <<Pending, todo, file>>
    BY <1>11 DEF ExpireTxs, netVars
  <2>8. QED
    BY <1>f, <2>5, <2>6, <2>7
<1>12. CASE MempoolSave
  <2>1. file'.toSend = mp.toSend /\ UNCHANGED <<mp, Pending, todo>>
    BY <1>12 DEF MempoolSave, netVars
  <2>2. QED
    BY <2>1 DEF RejInv
<1>13. CASE MempoolLoadNew
  <2>1. todo["main"] = <<>> /\ file # None /\ UNCHANGED <<mp, Pending, file>> /\ \A t \in file.toSend : Alone(t)
    BY <1>13 DEF MempoolLoadNew, netVars
  <2>2. PICK ts \in SetToSeqs(file.toSend) :
          todo' = [todo EXCEPT !["main"] = [i \in DOMAIN ts |-> NeedStep(ts[i], FALSE, FALSE)]]
    BY <1>13 DEF MempoolLoadNew
  <2> DEFINE x == [i \in DOMAIN ts |-> NeedStep(ts[i], FALSE, FALSE)]
  <2>3. \A i \in DOMAIN ts : ts[i] \in file.toSend
    BY <2>2 DEF SetToSeqs
  <2>4. \A i \in DOMAIN x : ~ Holds(x[i]) /\ x[i].tx \in file.toSend
    BY <2>3 DEF NeedStep, Holds
  <2>5. todo' = [todo EXCEPT !["main"] = x]
    BY <2>2
  <2> HIDE DEF x
  <2>6. todo'["main"] = x /\ todo'["webui"] = todo["webui"]
    BY <1>t, <2>5
  <2>7. Orderly(x) /\ HeldTx(x) = {} /\ BusyTx(x) \subseteq file.toSend
    BY <2>4 DEF Orderly, HeldTx, BusyTx
  <2>8. BusyTx(todo["webui"]) \cap file.toSend = {}
    BY <1>t, <2>1 DEF Alone, BusyTx, Calm
  <2>9. file.toSend \cap TooBig = {}
    BY <2>1 DEF RejInv
  <2>10. ASSUME NEW h \in Thread
         PROVE  /\ Orderly(todo'[h]) /\ BusyTx(todo'[h]) \cap TooBig = {}
                /\ \A u \in HeldTx(todo'[h]) : Free(mp, u) /\ u \notin Pending
    <3>1. CASE h = "main"
      BY <2>6, <2>7, <2>9, <3>1
    <3>2. CASE h = "webui"
      BY <1>t, <2>6, <3>2 DEF RejInv
    <3>3. QED
      BY <3>1, <3>2 DEF Thread
  <2>11. BusyTx(todo'["main"]) \cap BusyTx(todo'["webui"]) = {} /\ BusyTx(todo'["webui"]) \subseteq Local
    BY <2>6, <2>7, <2>8 DEF RejInv
  <2>12. QED
    BY <2>1, <2>10, <2>11 DEF RejInv
<1>14. ASSUME NEW n \in 0..Len(chain), Restart(n) PROVE RejInv'
  <2>1. /\ mp' = Empty \/ (file # None /\ mp' = MempoolLoad2(file))
        /\ Pending' = {} /\ todo' = [th \in Thread |-> <<>>] /\ file' = file
    BY <1>14 DEF Restart
  <2>2. \A t \in Tx : Empty.rej[t] = None
    BY DEF Empty
  <2>3. RejOK(mp') /\ \A t \in TooBig : t \notin mp'.toSend /\ mp'.rej[t] = None
    <3>1. CASE mp' = Empty
      BY <1>b, <2>2, <3>1, EmptyRej DEF Empty
    <3>2. CASE file # None /\ mp' = MempoolLoad2(file)
      <4>1. /\ mp'.toSend = file.toSend /\ mp'.rej = Empty.rej /\ mp'.w4 = Empty.w4
            /\ mp'.waiting = Empty.waiting /\ mp'.rejSize = 0 /\ file.toSend \subseteq Tx
        BY <3>2, LoadType DEF TypeInv, TypeOK
      <4>2. Empty.rejSize = 0
        BY DEF Empty
      <4>3. RejOK(mp')
        BY <2>2, <4>1, <4>2, EmptyRej DEF RejOK
      <4>4. QED
        BY <1>b, <2>2, <3>2, <4>1, <4>3 DEF RejInv
    <3>3. QED
      BY <2>1, <3>1, <3>2
  <2>4. \A h \in Thread : todo'[h] = <<>>
    BY <2>1
  <2>5. QED
    BY <1>e, <1>t, <2>1, <2>3, <2>4 DEF RejInv
<1>15. CASE UNCHANGED vars
  <2>1. UNCHANGED <<mp, Pending, todo, file>>
    BY <1>15 DEF vars, netVars
  <2>2. QED
    BY <2>1 DEF RejInv
<1>16. CASE BlockUndone
  <2>1. Local \cup TooBig = {} /\ todo["main"] = <<>> /\ UNCHANGED <<mp, Pending, file>>
    BY <1>16 DEF BlockUndone, Calm, netVars
  <2>2. PICK x : /\ todo' = [todo EXCEPT !["main"] = x]
                 /\ Orderly(x) /\ HeldTx(x) = {} /\ BusyTx(x) \subseteq Tx
    BY <1>16, UndoneSteps
  <2>3. todo'["main"] = x /\ todo'["webui"] = todo["webui"]
    BY <1>t, <2>2
  <2>4. BusyTx(todo'["webui"]) = {}
    BY <2>1, <2>3 DEF RejInv
  <2>5. ASSUME NEW h \in Thread
        PROVE  /\ Orderly(todo'[h])
               /\ \A u \in HeldTx(todo'[h]) : Free(mp, u) /\ u \notin Pending
    <3>1. CASE h = "main"
      BY <2>2, <2>3, <3>1
    <3>2. CASE h = "webui"
      BY <1>t, <2>3, <3>2 DEF RejInv
    <3>3. QED
      BY <3>1, <3>2 DEF Thread
  <2>6. QED
    BY <2>1, <2>4, <2>5 DEF RejInv
<1>17. QED
  BY <1>1, <1>2, <1>3, <1>4, <1>5, <1>6, <1>7, <1>8, <1>9, <1>10, <1>11, <1>12, <1>13, <1>14, <1>15, <1>16 DEF Next

LEMMA InitRej == Init => RejInv
<1>1. Orderly(<<>>) /\ HeldTx(<<>>) = {} /\ BusyTx(<<>>) = {}
  BY DEF Orderly, HeldTx, BusyTx
<1>2. Empty.toSend = {} /\ \A t \in Tx : Empty.rej[t] = None
  BY DEF Empty
<1>3. SUFFICES ASSUME Init PROVE RejInv
  OBVIOUS
<1>4. mp = Empty /\ Pending = {} /\ file = None /\ \A th \in Thread : todo[th] = <<>>
  BY <1>3 DEF Init
<1>5. "main" \in Thread /\ "webui" \in Thread /\ TooBig \subseteq Tx
  BY MempoolAssumption DEF Thread
<1>6. QED
  BY <1>1, <1>2, <1>4, <1>5, EmptyRej DEF RejInv

\* TransactionsToSendSize and TransactionsRejectedSize, by which LimitPoolSize
\* and LimitRejectedSize go, are the sizes of what is in the two maps: nothing
\* is counted twice or taken off twice, whatever is replaced, mined, expired,
\* retried or loaded.
THEOREM SizesStayExact ==
    ASSUME Calm
    PROVE  Spec => []SizesAreExact
<1>1. Init => TypeInv /\ SpentInv /\ RejInv
  BY InitType, InitRej, EmptyOK DEF Init, SpentInv
<1>2. SpentInv /\ RejInv => SizesAreExact
  BY DEF SpentInv, PoolOK, RejInv, RejOK, SizesAreExact
<1>3. TypeInv /\ RejInv /\ [Next]_vars => RejInv'
  BY RejStep
<1>4. QED
  BY <1>1, <1>2, <1>3, TypeStep, SpentStep, PTL DEF Spec

\* WaitingForInputs has exactly the transactions whose Waiting4 names the
\* entry, and only rejected ones wait, so that the retries miss nobody.
THEOREM WaitingStaysExact ==
    ASSUME Calm
    PROVE  Spec => []WaitingIsExact
<1>1. Init => TypeInv /\ RejInv
  BY InitType, InitRej
<1>2. TypeInv /\ RejInv => WaitingIsExact
  <2> SUFFICES ASSUME TypeInv, RejInv PROVE WaitingIsExact
    OBVIOUS
  <2>1. \A i \in Id : mp.waiting[i] \subseteq Tx
    BY DEF TypeInv, TypeOK, Pool
  <2>2. \A i \in Id, t \in Tx : t \in mp.waiting[i] <=> mp.w4[t] = i
    BY DEF RejInv, RejOK
  <2>3. \A i \in Id : mp.waiting[i] = {t \in Tx : mp.w4[t] = i}
    BY <2>1, <2>2
  <2>4. QED
    BY <2>3 DEF WaitingIsExact, RejInv, RejOK
<1>3. TypeInv /\ RejInv /\ [Next]_vars => RejInv'
  BY RejStep
<1>4. QED
  BY <1>1, <1>2, <1>3, TypeStep, PTL DEF Spec

-----------------------------------------------------------------------------
(* RetryWaitingForInput *)

\* From m to n nobody starts to wait for a transaction of the pool, and only
\* those of T join it.
NoNewWait(m, n, T) ==
    \A i \in n.toSend \ T : i \in m.toSend /\ n.waiting[i] \subseteq m.waiting[i]

LEMMA NoNewWaitTwice ==
    ASSUME NEW k, NEW m, NEW n, NEW T, NoNewWait(k, m, {}), NoNewWait(m, n, T)
    PROVE  NoNewWait(k, n, T)
BY DEF NoNewWait

LEMMA DeleteWaits ==
    ASSUME NEW m \in Pool, NEW S, NEW why \in Reasons \cup {None}
    PROVE  NoNewWait(m, Delete(m, S, why), {})
<1> DEFINE gone == S \cap m.toSend
           toSend == m.toSend \ S
           spent == [o \in Out |-> IF \E t \in gone : o \in InsOf(t) THEN None ELSE m.spent[o]]
           mem == [t \in Tx |-> IF t \in gone THEN {} ELSE m.mem[t]]
           memCnt == [t \in Tx |-> IF t \in gone THEN 0 ELSE m.memCnt[t]]
           size == m.size - TotalSize(gone)
           n == [m EXCEPT !.toSend = toSend, !.spent = spent, !.mem = mem, !.memCnt = memCnt, !.size = size]
           r == Delete(m, S, why)
<1>1. r = IF why = None THEN n ELSE RejectTx(n, gone, why)
  BY Zenon DEF Delete
<1>2. n \in Pool
  <2>1. Delete(m, S, None) = n
    BY Zenon DEF Delete
  <2> HIDE DEF n
  <2>2. QED
    BY <2>1, DeleteType
<1> HIDE DEF spent, mem, memCnt, size
<1>3. n.toSend = toSend /\ n.waiting = m.waiting
  BY DEF Pool
<1> HIDE DEF n, r, gone
<1>4. r.toSend = n.toSend /\ r.waiting = n.waiting
  <2>1. CASE why = None
    BY <1>1, <2>1
  <2>2. CASE why # None
    BY <1>1, <1>2, <2>2, RejectTxFields
  <2>3. QED
    BY <2>1, <2>2
<1>5. NoNewWait(m, r, {})
  BY <1>3, <1>4 DEF NoNewWait
<1>6. QED
  BY <1>5 DEF r

LEMMA DeleteRejectedWaiting ==
    ASSUME NEW m \in Pool, NEW S
    PROVE  /\ DeleteRejected(m, S).toSend = m.toSend
           /\ \A i \in Id : DeleteRejected(m, S).waiting[i] =
                              m.waiting[i] \ {t \in S : m.rej[t] # None /\ m.w4[t] = i}
<1> DEFINE n == DeleteRejected(m, S)
<1>1. /\ \A t \in Tx : n.rej[t] = IF t \in S THEN None ELSE m.rej[t]
      /\ \A t \in Tx : n.w4[t] = IF t \in S /\ m.rej[t] # None THEN None ELSE m.w4[t]
      /\ n.rejSize = m.rejSize - TotalSize({t \in S : m.rej[t] # None /\ m.rej[t] \in Kept})
      /\ \A i \in Id : n.waiting[i] = m.waiting[i] \ {t \in S : m.rej[t] # None /\ m.w4[t] = i}
      /\ n.toSend = m.toSend
  BY DeleteRejectedFields
<1> HIDE DEF n
<1>2. n.toSend = m.toSend
      /\ \A i \in Id : n.waiting[i] = m.waiting[i] \ {t \in S : m.rej[t] # None /\ m.w4[t] = i}
  BY <1>1
<1>3. QED
  BY <1>2, Zenon DEF n

LEMMA DeleteRejectedWaits ==
    ASSUME NEW m \in Pool, NEW S
    PROVE  NoNewWait(m, DeleteRejected(m, S), {})
<1>1. PICK n : n = DeleteRejected(m, S)
  OBVIOUS
<1>2. n.toSend = m.toSend /\ \A i \in Id : n.waiting[i] \subseteq m.waiting[i]
  BY <1>1, DeleteRejectedWaiting
<1>3. m.toSend \subseteq Id
  BY DEF Pool, Id
<1>4. NoNewWait(m, n, {})
  BY <1>2, <1>3 DEF NoNewWait
<1>5. QED
  BY <1>1, <1>4

LEMMA MarkWaits ==
    ASSUME NEW m \in Pool, NEW t
    PROVE  NoNewWait(m, MarkChildren(m, t), {}) /\ NoNewWait(m, UnMarkChildren(m, t), {})
<1> DEFINE of(c) == {o \in OutsOf(t) : m.spent[o] = c}
           more == [c \in Tx |-> m.memCnt[c] + Cardinality(of(c))]
           with == [c \in Tx |-> m.mem[c] \cup of(c)]
           left == [c \in Tx |-> IF c \in m.toSend /\ m.memCnt[c] # 0 THEN m.memCnt[c] - Cardinality(of(c))
                                 ELSE m.memCnt[c]]
           without == [c \in Tx |-> IF left[c] = 0 THEN {} ELSE m.mem[c] \ OutsOf(t)]
           a == [m EXCEPT !.memCnt = more, !.mem = with]
           b == [m EXCEPT !.memCnt = left, !.mem = without]
<1>1. MarkChildren(m, t) = a
  BY Zenon DEF MarkChildren
<1>2. UnMarkChildren(m, t) = b
  BY Zenon DEF UnMarkChildren
<1> HIDE DEF more, with, left, without
<1>3. a.toSend = m.toSend /\ a.waiting = m.waiting /\ b.toSend = m.toSend /\ b.waiting = m.waiting
  BY DEF Pool
<1> HIDE DEF a, b
<1>4. QED
  BY <1>1, <1>2, <1>3 DEF NoNewWait

LEMMA AcceptWaits ==
    ASSUME NEW m \in Pool, NEW t \in Tx
    PROVE  NoNewWait(m, Accept(m, t), {t})
<1> DEFINE mem == {o \in InsOf(t) : OutTx[o] \in m.toSend}
           cnt == Cardinality(mem)
           n == Delete(m, Replaced(m, t, Len(Ins[t])), "REPLACED")
           toSend == n.toSend \cup {t}
           spent == [o \in Out |-> IF o \in InsOf(t) THEN t ELSE n.spent[o]]
           size == n.size + Size[t]
           r == [n EXCEPT !.toSend = toSend, !.spent = spent, !.mem[t] = mem, !.memCnt[t] = cnt, !.size = size]
<1>1. Accept(m, t) = r
  BY Zenon DEF Accept
<1>2. n \in Pool /\ NoNewWait(m, n, {})
  BY DeleteType, DeleteWaits DEF Reasons
<1> HIDE DEF n, cnt, spent, size, mem
<1>3. r.toSend = toSend /\ r.waiting = n.waiting
  BY <1>2 DEF Pool
<1> HIDE DEF r
<1>4. QED
  BY <1>1, <1>2, <1>3 DEF NoNewWait

\* A transaction waits for one that is not in the pool.
LEMMA WaitsForAbsent ==
    ASSUME NEW m \in Pool, NEW t \in Tx, NEW trusted, NEW local, "WAIT" \in Verdicts(m, t, trusted, local)
    PROVE  WaitsFor(m, t, trusted) \notin m.toSend
<1> DEFINE bad == {n \in DOMAIN Ins[t] : OfInput(m, t, n, trusted) # {"OK"}}
<1>1. ASSUME NEW n, "WAIT" \in OfInput(m, t, n, trusted) PROVE OutTx[Ins[t][n]] \notin m.toSend
  BY <1>1 DEF OfInput
<1>2. bad # {}
  BY VerdictType
<1>3. "WAIT" \in OfInput(m, t, Min(bad), trusted)
  BY <1>2 DEF Verdicts
<1> HIDE DEF bad
<1>4. OutTx[Ins[t][Min(bad)]] \notin m.toSend
  BY <1>1, <1>3
<1>5. QED
  BY <1>4 DEF bad, WaitsFor

\* HandleNetTx: nobody starts to wait in vain, but for an accepted transaction.
LEMMA JudgedWaits ==
    ASSUME NEW m \in Pool, NEW t \in Tx, NEW trusted, NEW local, NEW v \in Verdicts(m, t, trusted, local)
    PROVE  NoNewWait(m, Judged(m, t, trusted, v), IF v = "OK" THEN {t} ELSE {})
<1>1. CASE v = "OK"
  BY <1>1, AcceptWaits DEF Judged
<1>2. CASE v = "WAIT"
  <2>1. PICK p, r, n : p = WaitsFor(m, t, trusted) /\ r = RejectTx(m, {t}, "NO_TXOU") /\ n = WaitForInput(m, t, trusted)
    OBVIOUS
  <2>2. p \notin m.toSend
    BY <1>2, <2>1, WaitsForAbsent
  <2>3. r.toSend = m.toSend /\ r.waiting = m.waiting
    BY <2>1, RejectTxFields
  <2>4. Waits(r, n, t, p)
    BY <1>2, <2>1, VerdictType, WaitForInputFields
  <2>5. n.toSend = m.toSend /\ \A i \in Id : i # p => n.waiting[i] = m.waiting[i]
    BY <2>3, <2>4 DEF Waits
  <2>6. m.toSend \subseteq Id
    BY DEF Pool, Id
  <2>7. NoNewWait(m, n, {})
    BY <2>2, <2>5, <2>6 DEF NoNewWait
  <2>8. QED
    BY <1>2, <2>1, <2>7 DEF Judged
<1>3. CASE v = "SCRIPT"
  BY <1>3 DEF Judged, NoNewWait
<1>4. CASE v \notin {"OK", "WAIT", "SCRIPT"}
  <2>1. PICK n : n = RejectTx(m, {t}, v)
    OBVIOUS
  <2>2. n.toSend = m.toSend /\ n.waiting = m.waiting
    BY <2>1, RejectTxFields
  <2>3. QED
    BY <1>4, <2>1, <2>2 DEF Judged, NoNewWait
<1>5. QED
  BY <1>1, <1>2, <1>3, <1>4

LEMMA TxMinedWaits ==
    ASSUME NEW m \in Pool, NEW t \in Tx
    PROVE  NoNewWait(m, TxMined(m, t), {})
<1> DEFINE j == UnMarkChildren(m, t)
           k == IF t \in m.toSend THEN Delete(j, {t}, None) ELSE m
           n == DeleteRejected(k, {t})
           S == WithChildren(n, {n.spent[o] : o \in InsOf(t)} \ {None})
<1>1. TxMined(m, t) = Delete(n, S, None)
  BY Zenon DEF TxMined
<1>2. j \in Pool /\ NoNewWait(m, j, {})
  BY MarkType, MarkWaits
<1> HIDE DEF j
<1>3. k \in Pool /\ NoNewWait(m, k, {})
  <2>1. Delete(j, {t}, None) \in Pool /\ NoNewWait(j, Delete(j, {t}, None), {})
    BY <1>2, DeleteType, DeleteWaits
  <2>2. NoNewWait(m, Delete(j, {t}, None), {}) /\ NoNewWait(m, m, {})
    BY <1>2, <2>1, NoNewWaitTwice DEF NoNewWait
  <2>3. QED
    BY <2>1, <2>2
<1> HIDE DEF k
<1>4. n \in Pool /\ NoNewWait(k, n, {})
  BY <1>3, DeleteRejectedType, DeleteRejectedWaits
<1> HIDE DEF n, S
<1>5. NoNewWait(n, Delete(n, S, None), {})
  BY <1>4, DeleteWaits
<1>6. QED
  BY <1>1, <1>3, <1>4, <1>5, NoNewWaitTwice

LEMMA AfterMinedWaits ==
    ASSUME NEW m \in Pool, NEW b \in Seq(Tx)
    PROVE  NoNewWait(m, AfterMined(m, b)[Len(b)], {})
<1> DEFINE OK(n) == n \in Pool /\ NoNewWait(m, n, {})
           after == AfterMined(m, b)
           bad == {k \in 0..Len(b) : ~ OK(after[k])}
<1>1. SUFFICES ASSUME bad # {} PROVE FALSE
  OBVIOUS
<1>2. \A i \in 0..Len(b) : after[i] = IF i = 0 THEN m ELSE TxMined(after[i - 1], b[i])
  BY AfterMinedRec
<1> HIDE DEF after
<1>3. PICK k \in bad : \A j \in bad : k <= j
  <2>1. bad \in SUBSET Nat
    OBVIOUS
  <2> HIDE DEF bad
  <2>2. QED
    BY <1>1, <2>1, LeastNat
<1>4. k # 0
  <2>1. OK(m)
    BY DEF NoNewWait
  <2> HIDE DEF OK
  <2>2. QED
    BY <1>2, <1>3, <2>1
<1>5. OK(after[k - 1]) /\ b[k] \in Tx
  <2> HIDE DEF OK
  <2>1. QED
    BY <1>3, <1>4
<1>6. OK(TxMined(after[k - 1], b[k]))
  BY <1>5, TxMinedType, TxMinedWaits, NoNewWaitTwice
<1> HIDE DEF OK
<1>7. QED
  BY <1>2, <1>3, <1>4, <1>6

LEMMA LimitPoolSizeWaits ==
    ASSUME NEW m \in Pool, NEW fee \in Nat, NEW x \in LimitPoolSize(m, fee)
    PROVE  NoNewWait(m, x[1], {})
<1>1. x[1] = m \/ x[1] = DeleteRejected(m, LowFee(m)) \/ \E R : x[1] = Delete(m, R, "LOW_FEE")
  BY LimitPoolSizeForm
<1>2. \A R : NoNewWait(m, Delete(m, R, "LOW_FEE"), {})
  BY DeleteWaits DEF Reasons
<1>3. QED
  BY <1>1, <1>2, DeleteRejectedWaits DEF NoNewWait

\* u is among the retries for t that are still to be done by a thread with the
\* list q.
Retried(q, t, u) == \E i \in DOMAIN q : q[i].do = "retry" /\ q[i].tx = t /\ u \in q[i].ids

\* Whoever waits for a transaction of the pool is about to be retried.
WaitInv == \A t \in mp.toSend : \A u \in mp.waiting[t] : \E th \in Thread : Retried(todo[th], t, u)

LEMMA RetriedConcat ==
    ASSUME NEW x \in Seq(Steps), NEW y \in Seq(Steps), NEW t, NEW u, Retried(x, t, u) \/ Retried(y, t, u)
    PROVE  Retried(x \o y, t, u)
<1>1. Len(x) \in Nat /\ Len(y) \in Nat /\ DOMAIN (x \o y) = 1..(Len(x) + Len(y))
      /\ DOMAIN x = 1..Len(x) /\ DOMAIN y = 1..Len(y)
  OBVIOUS
<1>2. CASE Retried(x, t, u)
  <2>1. PICK i \in DOMAIN x : x[i].do = "retry" /\ x[i].tx = t /\ u \in x[i].ids
    BY <1>2 DEF Retried
  <2>2. i \in DOMAIN (x \o y) /\ (x \o y)[i] = x[i]
    BY <1>1
  <2>3. QED
    BY <2>1, <2>2 DEF Retried
<1>3. CASE Retried(y, t, u)
  <2>1. PICK i \in DOMAIN y : y[i].do = "retry" /\ y[i].tx = t /\ u \in y[i].ids
    BY <1>3 DEF Retried
  <2>2. i + Len(x) \in DOMAIN (x \o y) /\ (x \o y)[i + Len(x)] = y[i]
    BY <1>1
  <2>3. QED
    BY <2>1, <2>2 DEF Retried
<1>4. QED
  BY <1>2, <1>3

LEMMA RetriedTail ==
    ASSUME NEW q \in Seq(Steps), q # <<>>, NEW t, NEW u, Retried(q, t, u),
           ~ (Head(q).do = "retry" /\ Head(q).tx = t /\ u \in Head(q).ids)
    PROVE  Retried(Tail(q), t, u)
<1>1. PICK i \in DOMAIN q : q[i].do = "retry" /\ q[i].tx = t /\ u \in q[i].ids
  BY DEF Retried
<1>2. i # 1 /\ i \in 1..Len(q) /\ Len(q) \in Nat
  BY <1>1
<1>3. i - 1 \in DOMAIN Tail(q) /\ Tail(q)[i - 1] = q[i]
  BY <1>2
<1>4. QED
  BY <1>1, <1>3 DEF Retried

\* Those that wait for an accepted transaction are retried next.
LEMMA RetriesHave ==
    ASSUME NEW m \in Pool, NEW t \in Tx, NEW u \in m.waiting[t]
    PROVE  Retried(Retries(m, <<t>>), t, u)
<1> DEFINE w == m.waiting
           ts == <<t>>
           one == <<RetryStep(t, w[t])>>
           ss == [i \in DOMAIN ts |-> IF w[ts[i]] = {} THEN <<>> ELSE <<RetryStep(ts[i], w[ts[i]])>>]
           Is(f) == f = [i \in 1..1 |-> IF i = 1 THEN ss[i] ELSE f[i - 1] \o ss[i]]
<1>1. Retries(m, <<t>>) = FlattenSeq(ss)
  BY Zenon DEF Retries
<1>2. DOMAIN ts = 1..1 /\ ts[1] = t
  OBVIOUS
<1>3. ss[1] = one
  BY <1>2
<1>4. Len(ss) = 1
  <2>1. DOMAIN ss = 1..1
    BY <1>2
  <2> HIDE DEF ss
  <2>2. QED
    BY <2>1
<1> HIDE DEF ss
<1>5. FlattenSeq(ss) = (CHOOSE f : Is(f))[1]
  BY <1>4 DEF FlattenSeq
<1>6. Is([i \in 1..1 |-> ss[1]])
  OBVIOUS
<1>7. Is(CHOOSE f : Is(f))
  <2> HIDE DEF Is
  <2>1. QED
    BY <1>6
<1>8. FlattenSeq(ss) = one
  <2>1. PICK f : f = (CHOOSE g : Is(g)) /\ Is(f)
    BY <1>7
  <2>2. f[1] = ss[1]
    BY <2>1
  <2> HIDE DEF Is
  <2>3. QED
    BY <1>3, <1>5, <2>1, <2>2
<1>9. DOMAIN one = {1} /\ one[1].do = "retry" /\ one[1].tx = t /\ one[1].ids = m.waiting[t]
  BY DEF RetryStep
<1> HIDE DEF one
<1>10. QED
  BY <1>1, <1>8, <1>9 DEF Retried

\* A step after which T have joined the pool.
LEMMA WaitFrame ==
    ASSUME WaitInv, NEW T, NoNewWait(mp, mp', T),
           \A th \in Thread : \A i \in mp.toSend : \A u \in mp'.waiting[i] :
              Retried(todo[th], i, u) => Retried(todo'[th], i, u),
           \A i \in T : \A u \in mp'.waiting[i] : \E th \in Thread : Retried(todo'[th], i, u)
    PROVE  WaitInv'
<1>1. ASSUME NEW i \in mp'.toSend, NEW u \in mp'.waiting[i] PROVE \E th \in Thread : Retried(todo'[th], i, u)
  <2>1. CASE i \in T
    BY <2>1
  <2>2. CASE i \notin T
    <3>1. i \in mp.toSend /\ u \in mp.waiting[i]
      BY <2>2 DEF NoNewWait
    <3>2. PICK th \in Thread : Retried(todo[th], i, u)
      BY <3>1 DEF WaitInv
    <3>3. Retried(todo'[th], i, u)
      BY <3>1, <3>2
    <3>4. QED
      BY <3>3
  <2>3. QED
    BY <2>1, <2>2
<1>2. Thread' = Thread
  BY DEF Thread
<1>3. QED
  BY <1>1 DEF WaitInv, Retried

\* HandleNetTx by a thread that goes on with rest, in which the retries that it
\* had before it still are.
LEMMA HandleNetTxWait ==
    ASSUME TypeInv, WaitInv, NEW th \in Thread, NEW t \in Tx, NEW trusted, NEW local, NEW retry \in BOOLEAN,
           NEW rest \in Seq(Steps), HandleNetTx(th, t, trusted, local, retry, rest),
           NEW m, m = (IF retry THEN DeleteRejected(mp, {t}) ELSE mp),
           \A i \in mp.toSend : \A u \in m.waiting[i] : Retried(todo[th], i, u) => Retried(rest, i, u)
    PROVE  WaitInv'
<1>t. mp \in Pool /\ DOMAIN todo = Thread
  BY DEF TypeInv, TypeOK
<1>m. m \in Pool /\ NoNewWait(mp, m, {})
  BY <1>t, DeleteRejectedType, DeleteRejectedWaits DEF NoNewWait
<1>1. CASE ~retry /\ UNCHANGED mp /\ todo' = [todo EXCEPT ![th] = rest]
  <2>1. todo'[th] = rest /\ \A h \in Thread \ {th} : todo'[h] = todo[h]
    BY <1>1, <1>t
  <2>2. ASSUME NEW h \in Thread, NEW i \in mp.toSend, NEW u \in mp'.waiting[i], Retried(todo[h], i, u)
        PROVE  Retried(todo'[h], i, u)
    <3>1. u \in m.waiting[i]
      BY <1>1
    <3>2. CASE h = th
      BY <2>1, <2>2, <3>1, <3>2
    <3>3. CASE h # th
      BY <2>1, <2>2, <3>3
    <3>4. QED
      BY <3>2, <3>3
  <2>3. NoNewWait(mp, mp', {})
    BY <1>1 DEF NoNewWait
  <2>4. QED
    BY <2>2, <2>3, WaitFrame
<1>2. ASSUME NEW v \in Verdicts(m, t, trusted, local), mp' = Judged(m, t, trusted, v),
             todo' = [todo EXCEPT ![th] = (IF v = "OK" THEN Retries(mp', <<t>>) ELSE <<>>) \o rest]
      PROVE  WaitInv'
  <2> DEFINE T == IF v = "OK" THEN {t} ELSE {}
  <2>1. PICK x : x = IF v = "OK" THEN Retries(mp', <<t>>) ELSE <<>>
    OBVIOUS
  <2>2. mp' \in Pool /\ NoNewWait(m, mp', T)
    BY <1>2, <1>m, JudgedType, JudgedWaits
  <2>3. x \in Seq(Steps)
    <3>1. <<t>> \in Seq(Tx)
      OBVIOUS
    <3>2. Retries(mp', <<t>>) \in Seq(Steps)
      BY <2>2, <3>1, RetriesType
    <3>3. QED
      BY <2>1, <3>2
  <2>4. todo'[th] = x \o rest /\ \A h \in Thread \ {th} : todo'[h] = todo[h]
    <3>1. todo' = [todo EXCEPT ![th] = x \o rest]
      BY <1>2, <2>1
    <3>2. QED
      BY <1>t, <3>1
  <2> HIDE DEF T
  <2>5. NoNewWait(mp, mp', T)
    BY <1>m, <2>2, NoNewWaitTwice
  <2>6. ASSUME NEW i \in T, NEW u \in mp'.waiting[i] PROVE \E h \in Thread : Retried(todo'[h], i, u)
    <3>1. v = "OK" /\ i = t
      BY DEF T
    <3>2. Retried(x, i, u)
      BY <2>1, <2>2, <3>1, RetriesHave
    <3>3. Retried(x \o rest, i, u)
      BY <2>3, <3>2, RetriedConcat
    <3>4. QED
      BY <2>4, <3>3
  <2>7. ASSUME NEW i \in mp'.toSend \ T, NEW u \in mp'.waiting[i]
        PROVE  \E h \in Thread : Retried(todo'[h], i, u)
    <3>1. i \in m.toSend /\ u \in m.waiting[i]
      BY <2>2 DEF NoNewWait
    <3>2. i \in mp.toSend /\ u \in mp.waiting[i]
      BY <1>m, <3>1 DEF NoNewWait
    <3>3. PICK h \in Thread : Retried(todo[h], i, u)
      BY <3>2 DEF WaitInv
    <3>4. CASE h = th
      <4>1. Retried(rest, i, u)
        BY <3>1, <3>2, <3>3, <3>4
      <4>2. Retried(x \o rest, i, u)
        BY <2>3, <4>1, RetriedConcat
      <4>3. QED
        BY <2>4, <4>2
    <3>5. CASE h # th
      BY <2>4, <3>3, <3>5
    <3>6. QED
      BY <3>4, <3>5
  <2>8. ASSUME NEW i \in mp'.toSend, NEW u \in mp'.waiting[i] PROVE \E h \in Thread : Retried(todo'[h], i, u)
    BY <2>6, <2>7
  <2>9. QED
    BY <2>8 DEF WaitInv, Retried
<1>3. \/ ~retry /\ UNCHANGED mp /\ todo' = [todo EXCEPT ![th] = rest]
      \/ \E v \in Verdicts(m, t, trusted, local) :
            /\ mp' = Judged(m, t, trusted, v)
            /\ todo' = [todo EXCEPT ![th] = (IF v = "OK" THEN Retries(mp', <<t>>) ELSE <<>>) \o rest]
  BY Zenon DEF HandleNetTx
<1>4. QED
  BY <1>1, <1>2, <1>3

LEMMA WaitStep ==
    ASSUME TypeInv, RejOK(mp), WaitInv, [Next]_vars
    PROVE  WaitInv'
<1>t. /\ mp \in Pool /\ minFee \in Nat /\ DOMAIN todo = Thread
      /\ \A h \in Thread : todo[h] \in Seq(Steps)
      /\ "main" \in Thread /\ "webui" \in Thread
  BY DEF TypeInv, TypeOK, Thread
\* A thread without retries before it gets something to do.
<1>f. ASSUME NoNewWait(mp, mp', {}), NEW h \in Thread,
             todo' = todo \/ (todo[h] = <<>> /\ \E x : todo' = [todo EXCEPT ![h] = x])
      PROVE  WaitInv'
  <2>1. ~ \E i, u : Retried(<<>>, i, u)
    BY DEF Retried
  <2>2. \A k \in Thread : todo'[k] = todo[k] \/ todo[k] = <<>>
    BY <1>f, <1>t
  <2>3. \A k \in Thread : \A i, u : Retried(todo[k], i, u) => Retried(todo'[k], i, u)
    BY <2>1, <2>2
  <2>4. QED
    BY <1>f, <2>3, WaitFrame
\* A thread is done with its next step, which was no retry.
<1>g. ASSUME NEW h \in Thread, todo[h] # <<>>, NEW i, NEW u, Retried(todo[h], i, u), Head(todo[h]).do # "retry"
      PROVE  Retried(Tail(todo[h]), i, u)
  BY <1>g, <1>t, RetriedTail
<1>s. NoNewWait(mp, mp, {})
  BY DEF NoNewWait
<1>1. ASSUME NEW t \in Tx, ParseTxNetTooBig(t) PROVE WaitInv'
  <2>1. mp' = RejectTx(mp, {t}, "TOO_BIG") /\ todo' = todo
    BY <1>1 DEF ParseTxNetTooBig
  <2>2. mp'.toSend = mp.toSend /\ mp'.waiting = mp.waiting
    BY <1>t, <2>1, RejectTxFields
  <2>3. NoNewWait(mp, mp', {})
    BY <2>2 DEF NoNewWait
  <2>4. QED
    BY <1>f, <1>t, <2>1, <2>3
<1>2. ASSUME NEW t \in Tx, LoadRawTx(t) PROVE WaitInv'
  <2>1. /\ mp' = DeleteRejected(mp, {t}) /\ todo["webui"] = <<>>
        /\ \E x : todo' = [todo EXCEPT !["webui"] = x]
    BY <1>2 DEF LoadRawTx
  <2>2. QED
    BY <1>f, <1>t, <2>1, DeleteRejectedWaits
<1>3. ASSUME NEW t \in Tx, DeleteTx(t) PROVE WaitInv'
  <2>1. mp' = Delete(mp, WithChildren(mp, {t}), None) /\ todo' = todo
    BY <1>3 DEF DeleteTx
  <2>2. NoNewWait(mp, mp', {})
    BY <1>t, <2>1, DeleteWaits
  <2>3. QED
    BY <1>f, <1>t, <2>1, <2>2
<1>4. ASSUME (\E t \in Tx, trusted \in BOOLEAN : ParseTxNet(t, trusted)) \/ MempoolSave \/ UNCHANGED vars PROVE WaitInv'
  <2>1. mp' = mp /\ todo' = todo
    BY <1>4 DEF ParseTxNet, MempoolSave, vars
  <2>2. QED
    BY <1>f, <1>s, <1>t, <2>1
<1>5. ASSUME TakeNetTx \/ MempoolLoadNew \/ BlockUndone PROVE WaitInv'
  <2>1. mp' = mp /\ todo["main"] = <<>> /\ \E x : todo' = [todo EXCEPT !["main"] = x]
    BY <1>5 DEF TakeNetTx, MempoolLoadNew, BlockUndone
  <2>2. QED
    BY <1>f, <1>s, <1>t, <2>1
<1>6. ASSUME NEW th \in Thread, DoHandle(th) PROVE WaitInv'
  <2> DEFINE s == Head(todo[th])
  <2>1. todo[th] # <<>> /\ s.do = "handle" /\ HandleNetTx(th, s.tx, s.trusted, s.local, s.retry, Tail(todo[th]))
    BY <1>6 DEF DoHandle
  <2>2. s \in Steps /\ Tail(todo[th]) \in Seq(Steps)
    BY <1>t, <2>1
  <2>3. s.tx \in Tx /\ s.retry \in BOOLEAN
    BY <2>1, <2>2, StepType
  <2>4. \A i, u : Retried(todo[th], i, u) => Retried(Tail(todo[th]), i, u)
    BY <1>g, <2>1
  <2> HIDE DEF s
  <2>5. PICK t, a, l, r, x : t = s.tx /\ a = s.trusted /\ l = s.local /\ r = s.retry /\ x = Tail(todo[th])
    OBVIOUS
  <2>6. PICK m : m = IF r THEN DeleteRejected(mp, {t}) ELSE mp
    OBVIOUS
  <2>7. /\ t \in Tx /\ r \in BOOLEAN /\ x \in Seq(Steps) /\ HandleNetTx(th, t, a, l, r, x)
        /\ \A i \in mp.toSend : \A u \in m.waiting[i] : Retried(todo[th], i, u) => Retried(x, i, u)
    BY <2>1, <2>2, <2>3, <2>4, <2>5
  <2>8. QED
    BY <2>6, <2>7, HandleNetTxWait
<1>7. ASSUME NEW th \in Thread, DoRetry(th) PROVE WaitInv'
  <2> DEFINE s == Head(todo[th])
             left == s.ids \cap mp.waiting[s.tx]
  <2>1. /\ todo[th] # <<>> /\ s.do = "retry"
        /\ \/ left = {} /\ todo' = [todo EXCEPT ![th] = Tail(todo[th])] /\ mp' = mp
           \/ \E t \in left : HandleNetTx(th, t, FALSE, FALSE, TRUE,
                                          <<RetryStep(s.tx, left \ {t})>> \o Tail(todo[th]))
    BY <1>7, Zenon DEF DoRetry
  <2>2. s \in Steps /\ Tail(todo[th]) \in Seq(Steps)
    BY <1>t, <2>1
  <2>3. s.tx \in Tx /\ s.tx \in Id
    BY <2>2, StepType DEF Id
  <2> HIDE DEF s
  <2>4. left \subseteq Tx
    BY <1>t, <2>3 DEF Pool
  \* A retry that goes with the head of the list was one of left.
  <2>5. ASSUME NEW i, NEW u \in mp.waiting[i], Retried(todo[th], i, u)
        PROVE  Retried(Tail(todo[th]), i, u) \/ (i = s.tx /\ u \in left)
    BY <1>t, <2>1, <2>5, RetriedTail DEF s
  <2>6. CASE left = {} /\ todo' = [todo EXCEPT ![th] = Tail(todo[th])] /\ mp' = mp
    <3>1. todo'[th] = Tail(todo[th]) /\ \A h \in Thread \ {th} : todo'[h] = todo[h]
      BY <1>t, <2>6
    <3>2. ASSUME NEW h \in Thread, NEW i \in mp.toSend, NEW u \in mp'.waiting[i], Retried(todo[h], i, u)
          PROVE  Retried(todo'[h], i, u)
      BY <2>5, <2>6, <3>1, <3>2
    <3>3. QED
      BY <1>s, <2>6, <3>2, WaitFrame
  <2>7. ASSUME NEW t \in left,
               HandleNetTx(th, t, FALSE, FALSE, TRUE, <<RetryStep(s.tx, left \ {t})>> \o Tail(todo[th]))
        PROVE  WaitInv'
    <3>1. PICK k : k = RetryStep(s.tx, left \ {t})
      OBVIOUS
    <3>2. k \in Steps /\ k.do = "retry" /\ k.tx = s.tx /\ k.ids = left \ {t}
      <4>1. left \ {t} \in SUBSET Tx
        BY <2>4
      <4>2. QED
        <5>1. \A y \in Tx, ids \in SUBSET Tx : RetryStep(y, ids) \in Steps
          BY DEF Steps
        <5>2. k \in Steps
          BY <2>3, <3>1, <4>1, <5>1
        <5>3. QED
          BY <3>1, <5>2 DEF RetryStep
    <3>3. <<k>> \in Seq(Steps) /\ \A u \in left \ {t} : Retried(<<k>>, s.tx, u)
      BY <3>2 DEF Retried
    <3>4. PICK m : m = DeleteRejected(mp, {t})
      OBVIOUS
    <3>5. \A i \in Id : m.waiting[i] = mp.waiting[i] \ {y \in {t} : mp.rej[y] # None /\ mp.w4[y] = i}
      BY <1>t, <3>4, DeleteRejectedWaiting
    <3>6. mp.rej[t] # None /\ mp.w4[t] = s.tx
      <4>1. t \in Tx /\ t \in mp.waiting[s.tx]
        BY <2>4
      <4>2. mp.w4[t] = s.tx
        BY <2>3, <4>1 DEF RejOK
      <4>3. QED
        BY <2>3, <4>1, <4>2, NoneIsNone DEF RejOK
    <3>7. ASSUME NEW i \in mp.toSend, NEW u \in m.waiting[i], Retried(todo[th], i, u)
          PROVE  Retried(<<k>> \o Tail(todo[th]), i, u)
      <4>1. i \in Id /\ u \in mp.waiting[i]
        BY <1>t, <3>5 DEF Pool, Id
      <4>2. CASE Retried(Tail(todo[th]), i, u)
        BY <2>2, <3>3, <4>2, RetriedConcat
      <4>3. CASE i = s.tx /\ u \in left
        <5>1. u # t
          BY <3>5, <3>6, <4>1, <4>3
        <5>2. QED
          BY <2>2, <3>3, <4>3, <5>1, RetriedConcat
      <4>4. QED
        BY <2>5, <3>7, <4>1, <4>2, <4>3
    <3>8. <<k>> \o Tail(todo[th]) \in Seq(Steps)
      BY <2>2, <3>2
    <3>9. HandleNetTx(th, t, FALSE, FALSE, TRUE, <<k>> \o Tail(todo[th]))
      BY <2>7, <3>1
    <3>10. t \in Tx
      BY <2>4
    <3> HIDE DEF left
    <3>11. QED
      BY <3>4, <3>7, <3>8, <3>9, <3>10, HandleNetTxWait
  <2>8. QED
    BY <2>1, <2>6, <2>7
<1>8. ASSUME NEW th \in Thread, DoNeed(th) \/ DoMark(th) PROVE WaitInv'
  <2>1. /\ todo[th] # <<>> /\ Head(todo[th]).do # "retry"
        /\ mp' = mp \/ mp' = MarkChildren(mp, Head(todo[th]).tx)
        /\ \E x \in Seq(Steps) : todo' = [todo EXCEPT ![th] = x \o Tail(todo[th])]
    <3>1. CASE DoMark(th)
      <4>1. Tail(todo[th]) = <<>> \o Tail(todo[th]) /\ <<>> \in Seq(Steps)
        BY <1>t, <3>1 DEF DoMark
      <4>2. QED
        BY <3>1, <4>1 DEF DoMark
    <3>2. CASE DoNeed(th)
      <4> DEFINE s == Head(todo[th])
                 k == HandleStep(s.tx, s.trusted, s.local, TRUE)
                 x == IF NeedThisTx(s.tx) THEN <<k>> ELSE <<>>
      <4>1. todo[th] # <<>> /\ s.do = "need" /\ mp' = mp /\ todo' = [todo EXCEPT ![th] = x \o Tail(todo[th])]
        BY <3>2, Zenon DEF DoNeed
      <4>2. s \in Steps
        BY <1>t, <4>1
      <4>3. k \in Steps
        <5>1. s.tx \in Tx /\ s.trusted \in BOOLEAN /\ s.local \in BOOLEAN
          BY <4>1, <4>2 DEF Steps, HandleStep, NeedStep, MarkStep, RetryStep
        <5>2. \A y \in Tx : \A f, g, r \in BOOLEAN : HandleStep(y, f, g, r) \in Steps
          BY DEF Steps
        <5>3. QED
          BY <5>1, <5>2
      <4> HIDE DEF k
      <4>4. x \in Seq(Steps)
        BY <4>3
      <4> HIDE DEF x
      <4>5. QED
        BY <4>1, <4>4
    <3>3. QED
      BY <1>8, <3>1, <3>2
  <2>2. PICK x \in Seq(Steps) : todo' = [todo EXCEPT ![th] = x \o Tail(todo[th])]
    BY <2>1
  <2>3. todo'[th] = x \o Tail(todo[th]) /\ (\A h \in Thread \ {th} : todo'[h] = todo[h]) /\ Tail(todo[th]) \in Seq(Steps)
    <3>1. PICK z : z = x \o Tail(todo[th])
      OBVIOUS
    <3>2. todo'[th] = z /\ \A h \in Thread \ {th} : todo'[h] = todo[h]
      BY <1>t, <2>2, <3>1
    <3>3. Tail(todo[th]) \in Seq(Steps)
      BY <1>t, <2>1
    <3>4. QED
      BY <3>1, <3>2, <3>3
  <2>4. ASSUME NEW h \in Thread, NEW i, NEW u, Retried(todo[h], i, u) PROVE Retried(todo'[h], i, u)
    <3>1. CASE h = th
      <4>1. Retried(Tail(todo[th]), i, u)
        BY <1>g, <2>1, <2>4, <3>1
      <4>2. QED
        BY <2>2, <2>3, <3>1, <4>1, RetriedConcat
    <3>2. CASE h # th
      BY <2>3, <2>4, <3>2
    <3>3. QED
      BY <3>1, <3>2
  <2>5. NoNewWait(mp, mp', {})
    BY <1>s, <1>t, <2>1, MarkWaits
  <2>6. \A h \in Thread : \A i \in mp.toSend : \A u \in mp'.waiting[i] :
          Retried(todo[h], i, u) => Retried(todo'[h], i, u)
    BY <2>4
  <2>7. QED
    BY <2>5, <2>6, WaitFrame
<1>9. ASSUME NEW b \in Blocks, BlockMined(b) PROVE WaitInv'
  <2>1. mp' = AfterMined(mp, b)[Len(b)] /\ todo["main"] = <<>> /\ \E x : todo' = [todo EXCEPT !["main"] = x]
    BY <1>9 DEF BlockMined
  <2>2. NoNewWait(mp, mp', {})
    BY <1>t, <2>1, BlocksType, AfterMinedWaits
  <2>3. QED
    BY <1>f, <1>t, <2>1, <2>2
<1>10. CASE ExpireTxs
  <2>1. PICK x \in LimitPoolSize(mp, minFee) : \E r \in LimitRejectedSize(x[1]) : mp' = DeleteRejected(x[1], r[1] \cup r[2])
    BY <1>10 DEF ExpireTxs
  <2>2. x[1] \in Pool /\ NoNewWait(mp, x[1], {})
    BY <1>t, LimitPoolSizeType, LimitPoolSizeWaits
  <2>3. NoNewWait(mp, mp', {})
    BY <2>1, <2>2, DeleteRejectedWaits, NoNewWaitTwice
  <2>4. todo' = todo
    BY <1>10 DEF ExpireTxs
  <2>5. QED
    BY <1>f, <1>t, <2>3, <2>4
<1>11. ASSUME NEW n \in 0..Len(chain), Restart(n) PROVE WaitInv'
  <2>1. mp' = Empty \/ (file # None /\ mp' = MempoolLoad2(file))
    BY <1>11 DEF Restart
  <2>2. mp'.waiting = Empty.waiting
    BY <2>1, LoadType DEF TypeInv, TypeOK
  <2>3. mp'.toSend \subseteq Id
    BY TypeStep DEF TypeInv, TypeOK, Pool, Id
  <2>4. \A i \in Id : Empty.waiting[i] = {}
    BY DEF Empty
  <2>5. QED
    BY <2>2, <2>3, <2>4 DEF WaitInv
<1>12. QED
  BY <1>1, <1>2, <1>3, <1>4, <1>5, <1>6, <1>7, <1>8, <1>9, <1>10, <1>11 DEF Next

\* RetryWaitingForInput: when the threads are done, no rejected transaction
\* waits for one that is in the pool, whichever of HandleNetTx, BlockMined and
\* a retry let it in.
THEOREM RetriesMissNobody ==
    ASSUME Calm
    PROVE  Spec => []NobodyWaitsInVain
<1>1. Init => TypeInv /\ RejInv /\ WaitInv
  <2>1. Init => WaitInv
    BY DEF Init, Empty, WaitInv
  <2>2. QED
    BY <2>1, InitType, InitRej
<1>2. WaitInv => NobodyWaitsInVain
  BY DEF WaitInv, NobodyWaitsInVain, Retried
<1>3. TypeInv /\ RejInv /\ WaitInv /\ [Next]_vars => RejInv' /\ WaitInv'
  BY RejStep, WaitStep DEF RejInv
<1>4. QED
  BY <1>1, <1>2, <1>3, TypeStep, PTL DEF Spec

-----------------------------------------------------------------------------
(* The inputs of the transactions in the pool *)

\* All that spend an output of a member of D, directly or not, are in D.
Heirs(D) == \A t \in Tx : \A o \in InsOf(t) : OutTx[o] \in D => t \in D

Rivals(t) == {u \in Tx : InsOf(u) \cap InsOf(t) # {}}

\* No transaction spends an output of one that would have to make room for it;
\* HandleNetTx does not look for it.
NoOwnInput ==
    \A t \in Tx : \E D \in SUBSET Tx :
        Rivals(t) \subseteq D /\ Heirs(D) /\ \A o \in InsOf(t) : OutTx[o] \notin D

\* The unspent outputs once the transactions M are mined.
UtxoOf(M) == {o \in Out \ Bogus : OutTx[o] \in M \cup {Mined}} \ UNION {InsOf(t) : t \in M}

\* M has the parents of its members.
Rooted(M) == \A t \in M : \A o \in InsOf(t) : OutTx[o] \in M \cup {Mined}

\* Of the transactions S none is mined, and their inputs are outputs of S or
\* unspent.
Fed(S, M) ==
    \A t \in S : /\ t \notin M
                 /\ \A o \in InsOf(t) : o \notin Bogus /\ (OutTx[o] \in S \/ o \in UtxoOf(M))

\* The inputs of t that are outputs of S.
From(S, t) == {o \in InsOf(t) : OutTx[o] \in S}

\* MemInputs and MemInputCnt are as they should be.
Marked(m) ==
    \A t \in m.toSend : m.mem[t] = From(m.toSend, t) /\ m.memCnt[t] = Cardinality(m.mem[t])

\* In the pool m, the children of R's members are members.
ChildrenToo(m, R) == \A t \in m.toSend : \A o \in InsOf(t) : OutTx[o] \in R => t \in R

Good(m, M) == PoolOK(m) /\ Fed(m.toSend, M) /\ Marked(m)

\* n has the marks of m.
SameMarks(m, n) == n.mem = m.mem /\ n.memCnt = m.memCnt

LEMMA SameGood ==
    ASSUME NEW m, NEW n \in Pool, NEW M, Good(m, M), SamePool(m, n), SameMarks(m, n)
    PROVE  Good(n, M)
<1>1. PoolOK(n)
  BY SamePoolOK DEF Good
<1>2. n.toSend = m.toSend /\ n.mem = m.mem /\ n.memCnt = m.memCnt
  BY DEF SamePool, SameMarks
<1>3. QED
  BY <1>1, <1>2 DEF Good, Marked

LEMMA WithChildrenClosed ==
    ASSUME NEW m, NEW S, PoolOK(m)
    PROVE  ChildrenToo(m, WithChildren(m, S))
<1> DEFINE R == WithChildren(m, S)
<1>1. SUFFICES ASSUME NEW t \in m.toSend, NEW o \in InsOf(t), OutTx[o] \in R PROVE t \in R
  BY DEF ChildrenToo
<1>2. t \in Tx /\ t # None /\ o \in Out
  BY InsAreOuts, MempoolAssumption DEF PoolOK, Pool, Id
<1>3. m.spent[o] = t
  BY <1>2 DEF PoolOK, Exact
<1>4. QED
  BY <1>1, <1>2, <1>3 DEF WithChildren

LEMMA FedWithout ==
    ASSUME NEW m, NEW M, NEW R, Fed(m.toSend, M), ChildrenToo(m, R)
    PROVE  Fed(m.toSend \ R, M)
BY DEF Fed, ChildrenToo

\* What Delete and the operations on rejected records do to the marks.
LEMMA RejectTxMarks ==
    ASSUME NEW m \in Pool, NEW S, NEW why
    PROVE  SameMarks(m, RejectTx(m, S, why))
<1> DEFINE rej == [t \in Tx |-> IF t \in S THEN why ELSE m.rej[t]]
           w4 == [t \in Tx |-> IF t \in S THEN None ELSE m.w4[t]]
           size == m.rejSize + IF why \in Kept THEN TotalSize(S) ELSE 0
           n == [m EXCEPT !.rej = rej, !.w4 = w4, !.rejSize = size]
<1>1. RejectTx(m, S, why) = n
  BY Zenon DEF RejectTx
<1> HIDE DEF rej, w4, size
<1>2. SameMarks(m, n)
  BY DEF Pool, SameMarks
<1>3. QED
  BY <1>1, <1>2

LEMMA DeleteRejectedMarks ==
    ASSUME NEW m \in Pool, NEW S
    PROVE  SameMarks(m, DeleteRejected(m, S))
<1> DEFINE gone == {t \in S : m.rej[t] # None}
           rej == [t \in Tx |-> IF t \in gone THEN None ELSE m.rej[t]]
           w4 == [t \in Tx |-> IF t \in gone THEN None ELSE m.w4[t]]
           size == m.rejSize - TotalSize({t \in gone : m.rej[t] \in Kept})
           waiting == [i \in Id |-> m.waiting[i] \ {t \in gone : m.w4[t] = i}]
           n == [m EXCEPT !.rej = rej, !.w4 = w4, !.rejSize = size, !.waiting = waiting]
<1>1. DeleteRejected(m, S) = n
  BY Zenon DEF DeleteRejected
<1> HIDE DEF rej, w4, size, waiting
<1>2. SameMarks(m, n)
  BY DEF Pool, SameMarks
<1>3. QED
  BY <1>1, <1>2

LEMMA WaitForInputMarks ==
    ASSUME NEW m \in Pool, NEW t, NEW trusted
    PROVE  SameMarks(m, WaitForInput(m, t, trusted))
<1> DEFINE p == OutTx[Ins[t][Min({i \in DOMAIN Ins[t] : OfInput(m, t, i, trusted) # {"OK"}})]]
           rej == [u \in Tx |-> IF u \in {t} THEN "NO_TXOU" ELSE m.rej[u]]
           w4 == [u \in Tx |-> IF u \in {t} THEN None ELSE m.w4[u]]
           size == m.rejSize + IF "NO_TXOU" \in Kept THEN TotalSize({t}) ELSE 0
           r == [m EXCEPT !.rej = rej, !.w4 = w4, !.rejSize = size]
           n == [r EXCEPT !.w4[t] = p, !.waiting[p] = r.waiting[p] \cup {t}]
<1>1. WaitForInput(m, t, trusted) = n
  BY Zenon DEF WaitForInput, RejectTx
<1> HIDE DEF p, rej, w4, size
<1>2. SameMarks(m, n)
  BY DEF SameMarks, Pool
<1>3. QED
  BY <1>1, <1>2

LEMMA DeleteMarks ==
    ASSUME NEW m \in Pool, NEW S, NEW why \in Reasons \cup {None}
    PROVE  \A t \in Tx \ S : /\ Delete(m, S, why).mem[t] = m.mem[t]
                             /\ Delete(m, S, why).memCnt[t] = m.memCnt[t]
<1> DEFINE gone == S \cap m.toSend
           toSend == m.toSend \ S
           spent == [o \in Out |-> IF \E t \in gone : o \in InsOf(t) THEN None ELSE m.spent[o]]
           mem == [t \in Tx |-> IF t \in gone THEN {} ELSE m.mem[t]]
           memCnt == [t \in Tx |-> IF t \in gone THEN 0 ELSE m.memCnt[t]]
           size == m.size - TotalSize(gone)
           n == [m EXCEPT !.toSend = toSend, !.spent = spent, !.mem = mem, !.memCnt = memCnt, !.size = size]
           r == Delete(m, S, why)
<1>1. r = IF why = None THEN n ELSE RejectTx(n, gone, why)
  BY Zenon DEF Delete
<1>2. n \in Pool
  <2>1. Delete(m, S, None) = n
    BY Zenon DEF Delete
  <2> HIDE DEF n
  <2>2. QED
    BY <2>1, DeleteType
<1>3. \A t \in Tx \ S : mem[t] = m.mem[t] /\ memCnt[t] = m.memCnt[t]
  OBVIOUS
<1> HIDE DEF toSend, spent, mem, memCnt, size
<1>4. n.mem = mem /\ n.memCnt = memCnt
  BY DEF Pool
<1> HIDE DEF n, r, gone
<1>5. r.mem = n.mem /\ r.memCnt = n.memCnt
  <2>1. CASE why = None
    BY <1>1, <2>1
  <2>2. CASE why # None
    BY <1>1, <1>2, <2>2, RejectTxMarks DEF SameMarks
  <2>3. QED
    BY <2>1, <2>2
<1>6. \A t \in Tx \ S : r.mem[t] = m.mem[t] /\ r.memCnt[t] = m.memCnt[t]
  BY <1>3, <1>4, <1>5
<1>7. QED
  BY <1>6, Zenon DEF r

\* Delete, when the children go with their parents.
LEMMA DeleteGood ==
    ASSUME NEW m, NEW M, NEW R, NEW why \in Reasons \cup {None}, Good(m, M), ChildrenToo(m, R)
    PROVE  Good(Delete(m, R, why), M)
<1>1. PICK n : n = Delete(m, R, why)
  OBVIOUS
<1>t. PoolOK(m) /\ m \in Pool /\ m.toSend \subseteq Tx
  BY DEF Good, PoolOK, Pool
<1>2. PoolOK(n) /\ n.toSend = m.toSend \ R
  BY <1>t, <1>1, DeleteExact
<1>3. \A t \in Tx \ R : n.mem[t] = m.mem[t] /\ n.memCnt[t] = m.memCnt[t]
  BY <1>t, <1>1, DeleteMarks
<1>4. Fed(n.toSend, M)
  BY <1>2, FedWithout DEF Good
<1>5. ASSUME NEW t \in n.toSend PROVE n.mem[t] = From(n.toSend, t) /\ n.memCnt[t] = Cardinality(n.mem[t])
  <2>1. t \in Tx \ R /\ t \in m.toSend
    BY <1>2, <1>t
  <2>2. From(n.toSend, t) = From(m.toSend, t)
    BY <1>2, <2>1 DEF From, ChildrenToo
  <2>3. m.mem[t] = From(m.toSend, t) /\ m.memCnt[t] = Cardinality(m.mem[t])
    BY <2>1 DEF Good, Marked
  <2>4. QED
    BY <1>3, <2>1, <2>2, <2>3
<1>6. QED
  BY <1>1, <1>2, <1>4, <1>5 DEF Good, Marked

\* An input in order is an output of the pool or unspent.
LEMMA InputInOrder ==
    ASSUME NEW m, NEW t, NEW n, NEW trusted
    PROVE  /\ OfInput(m, t, n, trusted) = {"OK"} =>
                (OutTx[Ins[t][n]] \in m.toSend /\ Ins[t][n] \notin Bogus) \/ Ins[t][n] \in Utxo(chain)
           /\ "OK" \in OfInput(m, t, n, trusted) => OfInput(m, t, n, trusted) = {"OK"}
<1>1. PICK u : u = Utxo(chain)
  OBVIOUS
<1>2. QED
  BY <1>1 DEF OfInput

LEMMA VerdictOK ==
    ASSUME NEW m, NEW t \in Tx, NEW trusted, NEW local, "OK" \in Verdicts(m, t, trusted, local), NEW o \in InsOf(t)
    PROVE  (OutTx[o] \in m.toSend /\ o \notin Bogus) \/ o \in Utxo(chain)
<1> DEFINE bad == {n \in DOMAIN Ins[t] : OfInput(m, t, n, trusted) # {"OK"}}
<1>1. bad = {}
  <2>1. SUFFICES ASSUME bad # {} PROVE FALSE
    OBVIOUS
  <2>2. "OK" \in OfInput(m, t, Min(bad), trusted)
    BY <2>1 DEF Verdicts
  <2>3. bad \subseteq DOMAIN Ins[t] /\ \A n \in bad : OfInput(m, t, n, trusted) # {"OK"}
    OBVIOUS
  <2> HIDE DEF bad
  <2>4. Min(bad) \in bad
    BY <2>1, <2>3, FirstBad
  <2>5. QED
    BY <2>2, <2>3, <2>4, InputInOrder
<1>2. PICK n \in DOMAIN Ins[t] : o = Ins[t][n]
  BY DEF InsOf, Range
<1>3. OfInput(m, t, n, trusted) = {"OK"}
  BY <1>1
<1>4. QED
  BY <1>2, <1>3, InputInOrder

\* GetAllChildren finds none but heirs.
LEMMA ReplacedAreHeirs ==
    ASSUME NEW m, NEW t \in Tx, PoolOK(m), NEW D \in SUBSET Tx, Rivals(t) \subseteq D, Heirs(D)
    PROVE  Replaced(m, t, Len(Ins[t])) \subseteq D
<1> DEFINE S == {m.spent[Ins[t][i]] : i \in 1..Len(Ins[t])} \ {None}
<1>t. m.spent \in [Out -> Tx \cup {None}]
  BY DEF PoolOK, Pool
<1>1. S \subseteq D
  <2>1. SUFFICES ASSUME NEW o \in InsOf(t), m.spent[o] # None PROVE m.spent[o] \in D
    BY InsAreOuts
  <2>2. o \in Out /\ m.spent[o] \in Tx
    BY <1>t, <2>1, InsAreOuts
  <2>3. o \in InsOf(m.spent[o])
    BY <2>2 DEF PoolOK, Exact
  <2>4. QED
    BY <2>2, <2>3 DEF Rivals
<1>2. \A u \in D, o \in Out : OutTx[o] = u /\ m.spent[o] # None => m.spent[o] \in D
  <2>1. SUFFICES ASSUME NEW o \in Out, OutTx[o] \in D, m.spent[o] # None PROVE m.spent[o] \in D
    OBVIOUS
  <2>2. m.spent[o] \in Tx
    BY <1>t, <2>1
  <2>3. o \in InsOf(m.spent[o])
    BY <2>2 DEF PoolOK, Exact
  <2>4. QED
    BY <2>1, <2>2, <2>3 DEF Heirs
<1> HIDE DEF S
<1>3. WithChildren(m, S) \subseteq D
  BY <1>1, <1>2 DEF WithChildren
<1>4. QED
  BY <1>3 DEF Replaced, S

\* The fields of the pool once t is accepted.
LEMMA AcceptFields ==
    ASSUME NEW m, NEW t \in Tx, PoolOK(m)
    PROVE  /\ Accept(m, t).toSend = (m.toSend \ Replaced(m, t, Len(Ins[t]))) \cup {t}
           /\ Accept(m, t).mem[t] = From(m.toSend, t)
           /\ Accept(m, t).memCnt[t] = Cardinality(From(m.toSend, t))
           /\ \A u \in Tx \ Replaced(m, t, Len(Ins[t])) :
                u # t => Accept(m, t).mem[u] = m.mem[u] /\ Accept(m, t).memCnt[u] = m.memCnt[u]
<1>1. PICK R : R = Replaced(m, t, Len(Ins[t]))
  OBVIOUS
<1>2. PICK n : n = Delete(m, R, "REPLACED")
  OBVIOUS
<1>t. m \in Pool
  BY DEF PoolOK
<1>3. n \in Pool /\ n.toSend = m.toSend \ R
  BY <1>2, DeleteExact DEF Reasons, PoolOK
<1>4. \A u \in Tx \ R : n.mem[u] = m.mem[u] /\ n.memCnt[u] = m.memCnt[u]
  BY <1>t, <1>2, DeleteMarks DEF Reasons
<1> DEFINE mem == From(m.toSend, t)
           cnt == Cardinality(mem)
           toSend == n.toSend \cup {t}
           spent == [o \in Out |-> IF o \in InsOf(t) THEN t ELSE n.spent[o]]
           size == n.size + Size[t]
           r == [n EXCEPT !.toSend = toSend, !.spent = spent, !.mem[t] = mem, !.memCnt[t] = cnt, !.size = size]
<1>5. Accept(m, t) = r
  BY <1>1, <1>2, Zenon DEF Accept, From
<1> HIDE DEF mem, cnt, toSend, spent, size
<1>6. /\ r.toSend = toSend /\ r.mem[t] = mem /\ r.memCnt[t] = cnt
      /\ \A u \in Tx : u # t => r.mem[u] = n.mem[u] /\ r.memCnt[u] = n.memCnt[u]
  BY <1>3 DEF Pool
<1> HIDE DEF r
<1>7. /\ r.toSend = (m.toSend \ R) \cup {t}
      /\ \A u \in Tx \ R : u # t => r.mem[u] = m.mem[u] /\ r.memCnt[u] = m.memCnt[u]
  BY <1>3, <1>4, <1>6 DEF toSend
<1>8. QED
  BY <1>1, <1>5, <1>6, <1>7 DEF mem, cnt

\* HandleNetTx: an accepted transaction finds its inputs, and nobody loses one.
LEMMA AcceptGood ==
    ASSUME NoOwnInput, NEW m, NEW M, NEW t \in Tx, Good(m, M), Rooted(M),
           \A o \in InsOf(t) : (OutTx[o] \in m.toSend /\ o \notin Bogus) \/ o \in UtxoOf(M)
    PROVE  Good(Accept(m, t), M)
<1>1. PICK R : R = Replaced(m, t, Len(Ins[t]))
  OBVIOUS
<1>2. PICK a : a = Accept(m, t)
  OBVIOUS
<1>t. PoolOK(m) /\ m.toSend \subseteq Tx /\ Mined \notin Tx
  BY MempoolAssumption DEF Good, PoolOK, Pool
<1>3. PoolOK(a)
  BY <1>t, <1>2, AcceptOK
<1>4. /\ a.toSend = (m.toSend \ R) \cup {t}
      /\ a.mem[t] = From(m.toSend, t) /\ a.memCnt[t] = Cardinality(From(m.toSend, t))
      /\ \A u \in Tx \ R : u # t => a.mem[u] = m.mem[u] /\ a.memCnt[u] = m.memCnt[u]
  BY <1>t, <1>1, <1>2, AcceptFields
<1>5. ChildrenToo(m, R)
  BY <1>t, <1>1, WithChildrenClosed DEF Replaced
<1>6. PICK D \in SUBSET Tx : Rivals(t) \subseteq D /\ Heirs(D) /\ \A o \in InsOf(t) : OutTx[o] \notin D
  BY DEF NoOwnInput
<1>7. R \subseteq D
  BY <1>t, <1>1, <1>6, ReplacedAreHeirs
<1>8. PICK o1 : o1 \in InsOf(t)
  <2>1. Ins[t][1] \in InsOf(t)
    BY MempoolAssumption DEF InsOf, Range
  <2>2. QED
    BY <2>1
<1>9. \A o \in InsOf(t) : OutTx[o] \notin R /\ OutTx[o] # t
  <2>1. t \in D
    BY <1>6, <1>8 DEF Rivals
  <2>2. QED
    BY <1>6, <1>7, <2>1
<1>10. t \notin M
  <2>1. SUFFICES ASSUME t \in M PROVE FALSE
    OBVIOUS
  <2>2. o1 \notin UtxoOf(M)
    BY <1>8, <2>1 DEF UtxoOf
  <2>3. OutTx[o1] \in m.toSend /\ OutTx[o1] \in M \cup {Mined}
    BY <1>8, <2>1, <2>2 DEF Rooted
  <2>4. QED
    BY <1>t, <2>3 DEF Good, Fed
<1>11. Fed(a.toSend, M)
  <2>1. Fed(m.toSend \ R, M)
    BY <1>5, FedWithout DEF Good
  <2>2. \A o \in InsOf(t) : o \notin Bogus /\ (OutTx[o] \in m.toSend \ R \/ o \in UtxoOf(M))
    BY <1>9 DEF UtxoOf
  <2>3. QED
    BY <1>4, <1>10, <2>1, <2>2 DEF Fed
<1>12. ASSUME NEW u \in a.toSend PROVE a.mem[u] = From(a.toSend, u) /\ a.memCnt[u] = Cardinality(a.mem[u])
  <2>1. CASE u = t
    <3>1. From(a.toSend, t) = From(m.toSend, t)
      BY <1>4, <1>9 DEF From
    <3>2. QED
      BY <1>4, <2>1, <3>1
  <2>2. CASE u # t
    <3>1. u \in m.toSend /\ u \in Tx \ R
      BY <1>4, <1>t, <2>2
    <3>2. ASSUME NEW o \in InsOf(u) PROVE OutTx[o] \in a.toSend <=> OutTx[o] \in m.toSend
      <4>1. OutTx[o] \in m.toSend => OutTx[o] \in a.toSend
        BY <1>4, <1>5, <3>1 DEF ChildrenToo
      <4>2. OutTx[o] \in m.toSend \/ o \in UtxoOf(M)
        BY <3>1 DEF Good, Fed
      <4>3. o \in UtxoOf(M) => OutTx[o] # t
        BY <1>10, <1>t DEF UtxoOf
      <4>4. QED
        BY <1>4, <4>1, <4>2, <4>3
    <3>3. From(a.toSend, u) = From(m.toSend, u)
      BY <3>2 DEF From
    <3>4. m.mem[u] = From(m.toSend, u) /\ m.memCnt[u] = Cardinality(m.mem[u])
      BY <3>1 DEF Good, Marked
    <3>5. QED
      BY <1>4, <2>2, <3>1, <3>3, <3>4
  <2>3. QED
    BY <2>1, <2>2
<1>13. QED
  BY <1>2, <1>3, <1>11, <1>12 DEF Good, Marked

LEMMA JudgedGood ==
    ASSUME NoOwnInput, NEW m, NEW t \in Tx, NEW trusted, NEW local, NEW v \in Verdicts(m, t, trusted, local),
           Good(m, TxsOf(chain)), Rooted(TxsOf(chain))
    PROVE  Good(Judged(m, t, trusted, v), TxsOf(chain))
<1>1. PICK M : M = TxsOf(chain)
  OBVIOUS
<1>t. m \in Pool /\ Judged(m, t, trusted, v) \in Pool
  BY JudgedType DEF Good, PoolOK
<1>2. v = "OK" => Good(Accept(m, t), M)
  <2>1. Utxo(chain) = UtxoOf(M)
    BY <1>1 DEF Utxo, UtxoOf
  <2>2. SUFFICES ASSUME v = "OK" PROVE Good(Accept(m, t), M)
    OBVIOUS
  <2>3. \A o \in InsOf(t) : (OutTx[o] \in m.toSend /\ o \notin Bogus) \/ o \in UtxoOf(M)
    BY <2>1, <2>2, VerdictOK
  <2>4. QED
    BY <1>1, <2>3, AcceptGood
<1>3. SamePool(m, WaitForInput(m, t, trusted)) /\ SameMarks(m, WaitForInput(m, t, trusted))
  BY <1>t, WaitForInputSame, WaitForInputMarks
<1>4. SamePool(m, RejectTx(m, {t}, v)) /\ SameMarks(m, RejectTx(m, {t}, v))
  BY <1>t, RejectTxSame, RejectTxMarks
<1>5. \/ v = "OK" /\ Judged(m, t, trusted, v) = Accept(m, t)
      \/ Judged(m, t, trusted, v) = WaitForInput(m, t, trusted)
      \/ Judged(m, t, trusted, v) = RejectTx(m, {t}, v) \/ Judged(m, t, trusted, v) = m
  BY DEF Judged
<1>6. QED
  BY <1>t, <1>1, <1>2, <1>3, <1>4, <1>5, SameGood

-----------------------------------------------------------------------------
(* The same when a block is mined *)

LEMMA UtxoGrows ==
    ASSUME NEW M, NEW t \in Tx, t \notin M, Rooted(M), InsOf(t) \subseteq UtxoOf(M)
    PROVE  /\ Rooted(M \cup {t})
           /\ UtxoOf(M) \ InsOf(t) \subseteq UtxoOf(M \cup {t})
           /\ OutsOf(t) \subseteq UtxoOf(M \cup {t})
<1>1. \A o \in InsOf(t) : OutTx[o] \in M \cup {Mined}
  BY DEF UtxoOf
<1>2. Rooted(M \cup {t})
  BY <1>1 DEF Rooted
<1>3. UtxoOf(M) \ InsOf(t) \subseteq UtxoOf(M \cup {t})
  BY DEF UtxoOf
<1>4. ASSUME NEW o \in OutsOf(t) PROVE o \in UtxoOf(M \cup {t})
  <2>1. o \in Out \ Bogus /\ OutTx[o] = t /\ t # Mined
    BY MempoolAssumption DEF OutsOf
  <2>2. \A u \in M \cup {t} : o \notin InsOf(u)
    BY <1>1, <2>1 DEF Rooted
  <2>3. QED
    BY <2>1, <2>2 DEF UtxoOf
<1>5. QED
  BY <1>2, <1>3, <1>4

\* UnMarkChildrenForMem takes the outputs of t off the marks.
LEMMA UnMarkMarks ==
    ASSUME NEW m, NEW M, NEW t \in m.toSend, Good(m, M), NEW c \in m.toSend
    PROVE  /\ UnMarkChildren(m, t).mem[c] = From(m.toSend \ {t}, c)
           /\ UnMarkChildren(m, t).memCnt[c] = Cardinality(From(m.toSend \ {t}, c))
<1> DEFINE of(d) == {o \in OutsOf(t) : m.spent[o] = d}
           left == [d \in Tx |-> IF d \in m.toSend /\ m.memCnt[d] # 0 THEN m.memCnt[d] - Cardinality(of(d))
                                 ELSE m.memCnt[d]]
           without == [d \in Tx |-> IF left[d] = 0 THEN {} ELSE m.mem[d] \ OutsOf(t)]
           n == [m EXCEPT !.memCnt = left, !.mem = without]
<1>t. m \in Pool /\ m.toSend \subseteq Tx /\ c \in Tx
  BY DEF Good, PoolOK, Pool
<1>1. UnMarkChildren(m, t) = n
  BY Zenon DEF UnMarkChildren
<1>2. /\ left[c] = IF m.memCnt[c] # 0 THEN m.memCnt[c] - Cardinality(of(c)) ELSE m.memCnt[c]
      /\ without[c] = IF left[c] = 0 THEN {} ELSE m.mem[c] \ OutsOf(t)
  BY <1>t, Zenon
<1>3. m.mem[c] = From(m.toSend, c) /\ m.memCnt[c] = Cardinality(m.mem[c]) /\ m.mem[c] \subseteq Out
  BY <1>t DEF Good, Marked, Pool
<1>4. of(c) = m.mem[c] \cap OutsOf(t)
  <2>1. \A o \in Out : m.spent[o] = c <=> o \in InsOf(c)
    BY <1>t DEF Good, PoolOK, Exact
  <2>2. \A o \in OutsOf(t) : o \in Out /\ OutTx[o] \in m.toSend
    BY DEF OutsOf
  <2>3. \A o : o \in m.mem[c] <=> o \in InsOf(c) /\ OutTx[o] \in m.toSend
    BY <1>3 DEF From
  <2>4. QED
    BY <2>1, <2>2, <2>3
<1>5. m.mem[c] \ OutsOf(t) = From(m.toSend \ {t}, c)
  <2>1. \A o \in InsOf(c) : o \in Out /\ o \notin Bogus
    BY <1>t, InsAreOuts DEF Good, Fed
  <2>2. QED
    BY <1>3, <2>1 DEF From, OutsOf
<1> HIDE DEF of, left, without
<1>6. n.mem = without /\ n.memCnt = left
  BY <1>t DEF Pool
<1>7. /\ IsFiniteSet(m.mem[c]) /\ Cardinality(m.mem[c]) \in Nat
      /\ Cardinality(m.mem[c] \ OutsOf(t)) = Cardinality(m.mem[c]) - Cardinality(m.mem[c] \cap OutsOf(t))
      /\ IsFiniteSet(m.mem[c] \ OutsOf(t))
  BY <1>3, FiniteOuts, FS_Difference
<1>8. \A S : IsFiniteSet(S) => (Cardinality(S) = 0 <=> S = {})
  BY FS_EmptySet
<1>9. left[c] = Cardinality(m.mem[c] \ OutsOf(t))
  <2>1. CASE m.memCnt[c] # 0
    BY <1>2, <1>3, <1>4, <1>7, <2>1
  <2>2. CASE m.memCnt[c] = 0
    <3>1. m.mem[c] = {} /\ m.mem[c] \ OutsOf(t) = {}
      BY <1>3, <1>7, <1>8, <2>2
    <3>2. QED
      BY <1>2, <1>8, <1>7, <2>2, <3>1
  <2>3. QED
    BY <2>1, <2>2
<1>10. without[c] = m.mem[c] \ OutsOf(t)
  BY <1>2, <1>7, <1>8, <1>9
<1> HIDE DEF n
<1>11. QED
  BY <1>1, <1>5, <1>6, <1>9, <1>10

\* While t is being mined, the transactions S may still have inputs of t.
Mining(S, M, t) ==
    \A u \in S : /\ u \notin M \cup {t}
                 /\ \A o \in InsOf(u) : /\ o \notin Bogus
                                        /\ OutTx[o] \in S \/ o \in UtxoOf(M \cup {t}) \/ o \in InsOf(t)

\* tx_mined: t leaves the pool, if it was there, without its marks.
LEMMA MinedLeaves ==
    ASSUME NEW m, NEW M, NEW t \in Tx, Good(m, M), t \notin M, Rooted(M), InsOf(t) \subseteq UtxoOf(M),
           NEW k, k = IF t \in m.toSend THEN Delete(UnMarkChildren(m, t), {t}, None) ELSE m
    PROVE  PoolOK(k) /\ Marked(k) /\ Mining(k.toSend, M, t)
<1>t. PoolOK(m) /\ m \in Pool /\ m.toSend \subseteq Tx
  BY DEF Good, PoolOK, Pool
<1>1. ASSUME NEW u \in m.toSend, u # t, NEW o \in InsOf(u)
      PROVE  o \notin Bogus /\ (OutTx[o] \in m.toSend \ {t} \/ o \in UtxoOf(M \cup {t}) \/ o \in InsOf(t))
  <2>1. o \in Out /\ o \notin Bogus /\ (OutTx[o] \in m.toSend \/ o \in UtxoOf(M))
    BY <1>t, InsAreOuts DEF Good, Fed
  <2>2. OutTx[o] = t => o \in UtxoOf(M \cup {t})
    BY <2>1, UtxoGrows DEF OutsOf
  <2>3. o \in UtxoOf(M) => o \in UtxoOf(M \cup {t}) \/ o \in InsOf(t)
    BY UtxoGrows
  <2>4. QED
    BY <2>1, <2>2, <2>3
<1>2. \A u \in m.toSend : u \notin M
  BY DEF Good, Fed
<1>3. Mining(m.toSend \ {t}, M, t)
  BY <1>1, <1>2 DEF Mining
<1>4. CASE t \notin m.toSend
  <2>1. k = m /\ m.toSend \ {t} = m.toSend
    BY <1>4
  <2>2. QED
    BY <1>t, <1>3, <2>1 DEF Good
<1>5. CASE t \in m.toSend
  <2>1. PICK n : n = UnMarkChildren(m, t)
    OBVIOUS
  <2>2. n \in Pool /\ SamePool(m, n)
    BY <1>t, <2>1, MarkType, MarkSame
  <2>3. PoolOK(n) /\ n.toSend = m.toSend
    BY <1>t, <2>2, SamePoolOK DEF SamePool
  <2>4. \A c \in m.toSend : n.mem[c] = From(m.toSend \ {t}, c)
                            /\ n.memCnt[c] = Cardinality(From(m.toSend \ {t}, c))
    BY <1>5, <2>1, UnMarkMarks
  <2>5. k = Delete(n, {t}, None)
    BY <1>5, <2>1
  <2>6. PoolOK(k) /\ k.toSend = m.toSend \ {t}
    BY <2>3, <2>5, DeleteExact
  <2>7. \A c \in Tx \ {t} : k.mem[c] = n.mem[c] /\ k.memCnt[c] = n.memCnt[c]
    BY <2>2, <2>5, DeleteMarks
  <2>8. Marked(k)
    <3>1. SUFFICES ASSUME NEW c \in k.toSend
                   PROVE  k.mem[c] = From(k.toSend, c) /\ k.memCnt[c] = Cardinality(k.mem[c])
      BY DEF Marked
    <3>2. c \in m.toSend /\ c \in Tx \ {t}
      BY <1>t, <2>6, <3>1
    <3>3. QED
      BY <2>4, <2>6, <2>7, <3>2
  <2>9. QED
    BY <1>3, <2>6, <2>8
<1>6. QED
  BY <1>4, <1>5

LEMMA TxMinedGood ==
    ASSUME NEW m, NEW M, NEW t \in Tx, Good(m, M), t \notin M, Rooted(M), InsOf(t) \subseteq UtxoOf(M)
    PROVE  Good(TxMined(m, t), M \cup {t})
<1>1. PICK k : k = IF t \in m.toSend THEN Delete(UnMarkChildren(m, t), {t}, None) ELSE m
  OBVIOUS
<1>2. PICK n : n = DeleteRejected(k, {t})
  OBVIOUS
<1>3. PICK S : S = {n.spent[o] : o \in InsOf(t)} \ {None}
  OBVIOUS
<1>4. PICK R : R = WithChildren(n, S)
  OBVIOUS
<1>5. PICK r : r = Delete(n, R, None)
  OBVIOUS
<1>6. TxMined(m, t) = r
  BY <1>1, <1>2, <1>3, <1>4, <1>5, Zenon DEF TxMined
<1>7. PoolOK(k) /\ Marked(k) /\ Mining(k.toSend, M, t) /\ k \in Pool
  BY <1>1, MinedLeaves DEF PoolOK
<1>8. n \in Pool /\ SamePool(k, n) /\ SameMarks(k, n)
  BY <1>2, <1>7, DeleteRejectedType, DeleteRejectedSame, DeleteRejectedMarks
<1>9. PoolOK(n) /\ Marked(n) /\ Mining(n.toSend, M, t) /\ n.toSend \subseteq Tx /\ n.toSend = k.toSend
  <2>1. PoolOK(n)
    BY <1>7, <1>8, SamePoolOK
  <2>2. n.toSend = k.toSend /\ n.mem = k.mem /\ n.memCnt = k.memCnt
    BY <1>8 DEF SamePool, SameMarks
  <2>3. QED
    BY <1>7, <2>1, <2>2 DEF Marked, PoolOK, Pool
<1>10. ChildrenToo(n, R)
  BY <1>4, <1>9, WithChildrenClosed
<1>11. \A u \in n.toSend \ R : \A o \in InsOf(u) : o \notin InsOf(t)
  <2>1. SUFFICES ASSUME NEW u \in n.toSend, NEW o \in InsOf(u), o \in InsOf(t) PROVE u \in R
    OBVIOUS
  <2>2. u \in Tx /\ u # None /\ o \in Out
    BY <1>9, InsAreOuts, MempoolAssumption DEF Id
  <2>3. n.spent[o] = u
    BY <1>9, <2>2 DEF PoolOK, Exact
  <2>4. u \in S
    BY <1>3, <2>1, <2>2, <2>3
  <2>5. S \subseteq Tx
    <3>1. n.spent \in [Out -> Tx \cup {None}]
      BY <1>8 DEF Pool
    <3>2. QED
      BY <1>3, <3>1, InsAreOuts
  <2>6. QED
    BY <1>4, <2>4, <2>5, WithChildrenHas
<1>12. PoolOK(r) /\ r.toSend = n.toSend \ R
  BY <1>5, <1>9, DeleteExact
<1>13. Fed(r.toSend, M \cup {t})
  BY <1>9, <1>10, <1>11, <1>12 DEF Fed, Mining, ChildrenToo
<1>14. \A c \in Tx \ R : r.mem[c] = n.mem[c] /\ r.memCnt[c] = n.memCnt[c]
  BY <1>5, <1>8, DeleteMarks
<1>15. ASSUME NEW c \in r.toSend PROVE r.mem[c] = From(r.toSend, c) /\ r.memCnt[c] = Cardinality(r.mem[c])
  <2>1. c \in n.toSend /\ c \in Tx \ R
    BY <1>9, <1>12
  <2>2. From(r.toSend, c) = From(n.toSend, c)
    BY <1>10, <1>12, <2>1 DEF From, ChildrenToo
  <2>3. n.mem[c] = From(n.toSend, c) /\ n.memCnt[c] = Cardinality(n.mem[c])
    BY <1>9, <2>1 DEF Marked
  <2>4. QED
    BY <1>14, <2>1, <2>2, <2>3
<1>16. QED
  BY <1>6, <1>12, <1>13, <1>15 DEF Good, Marked

\* The transactions M and the first n of b.
AndFirst(M, b, n) == M \cup {b[j] : j \in 1..n}

LEMMA AfterMinedGood ==
    ASSUME NEW m, NEW M, NEW b \in Seq(Tx), Good(m, M), Rooted(M),
           \A i \in 1..Len(b) : /\ b[i] \notin AndFirst(M, b, i - 1)
                                /\ InsOf(b[i]) \subseteq UtxoOf(AndFirst(M, b, i - 1))
    PROVE  /\ Good(AfterMined(m, b)[Len(b)], AndFirst(M, b, Len(b)))
           /\ Rooted(AndFirst(M, b, Len(b)))
<1> DEFINE after == AfterMined(m, b)
           Fine(k) == Good(after[k], AndFirst(M, b, k)) /\ Rooted(AndFirst(M, b, k))
           bad == {k \in 0..Len(b) : ~ Fine(k)}
<1>1. SUFFICES ASSUME bad # {} PROVE FALSE
  OBVIOUS
<1>t. m \in Pool
  BY DEF Good, PoolOK
<1>2. \A i \in 0..Len(b) : after[i] = IF i = 0 THEN m ELSE TxMined(after[i - 1], b[i])
  BY <1>t, AfterMinedRec
<1> HIDE DEF after
<1>3. AndFirst(M, b, 0) = M
  BY DEF AndFirst
<1>4. \A i \in 1..Len(b) : AndFirst(M, b, i) = AndFirst(M, b, i - 1) \cup {b[i]}
  BY DEF AndFirst
<1>5. PICK k \in bad : \A j \in bad : k <= j
  <2>1. bad \in SUBSET Nat
    OBVIOUS
  <2> HIDE DEF bad
  <2>2. QED
    BY <1>1, <2>1, LeastNat
<1>6. k # 0
  BY <1>2, <1>3, <1>5
<1>7. k \in 1..Len(b) /\ k - 1 \in 0..Len(b) /\ k - 1 \notin bad /\ b[k] \in Tx
  BY <1>5, <1>6
<1>8. PICK x, A : x = after[k - 1] /\ A = AndFirst(M, b, k - 1)
  OBVIOUS
<1>9. Good(x, A) /\ Rooted(A) /\ b[k] \notin A /\ InsOf(b[k]) \subseteq UtxoOf(A)
  BY <1>7, <1>8
<1>10. Good(TxMined(x, b[k]), A \cup {b[k]}) /\ Rooted(A \cup {b[k]})
  BY <1>7, <1>9, TxMinedGood, UtxoGrows
<1>11. Fine(k)
  BY <1>2, <1>4, <1>6, <1>7, <1>8, <1>10
<1>12. QED
  BY <1>5, <1>11

\* The transactions of the first k blocks.
Upto(c, k) == UNION {Range(c[i]) : i \in 1..k}

LEMMA ChainTxs ==
    ASSUME NEW c \in Seq(Seq(Tx))
    PROVE  /\ TxsOf(c) = Upto(c, Len(c))
           /\ \A b \in Seq(Tx) : TxsOf(Append(c, b)) = TxsOf(c) \cup Range(b)
           /\ \A b \in Seq(Tx), k \in 0..Len(c) : Upto(Append(c, b), k) = Upto(c, k)
           /\ \A n \in 0..Len(c) : \A k \in 0..n : Upto(SubSeq(c, 1, n), k) = Upto(c, k)
<1>1. TxsOf(c) = Upto(c, Len(c))
  <2>1. DOMAIN c = 1..Len(c)
    OBVIOUS
  <2>2. QED
    BY <2>1, Zenon DEF TxsOf, Upto
<1>2. ASSUME NEW b \in Seq(Tx) PROVE TxsOf(Append(c, b)) = TxsOf(c) \cup Range(b)
  <2>1. PICK d : d = Append(c, b)
    OBVIOUS
  <2>2. DOMAIN c = 1..Len(c) /\ DOMAIN d = 1..(Len(c) + 1) /\ Len(c) \in Nat
    BY <2>1
  <2>3. d[Len(c) + 1] = b /\ \A i \in 1..Len(c) : d[i] = c[i]
    BY <2>1
  <2>4. QED
    BY <2>1, <2>2, <2>3 DEF TxsOf
<1>3. ASSUME NEW b \in Seq(Tx), NEW k \in 0..Len(c) PROVE Upto(Append(c, b), k) = Upto(c, k)
  <2>1. \A i \in 1..k : Append(c, b)[i] = c[i]
    OBVIOUS
  <2>2. QED
    BY <2>1 DEF Upto
<1>4. ASSUME NEW n \in 0..Len(c), NEW k \in 0..n PROVE Upto(SubSeq(c, 1, n), k) = Upto(c, k)
  <2>1. \A i \in 1..k : SubSeq(c, 1, n)[i] = c[i]
    OBVIOUS
  <2>2. QED
    BY <2>1 DEF Upto
<1>5. QED
  BY <1>1, <1>2, <1>3, <1>4

\* A block that can be mined spends what is unspent, transaction by transaction.
LEMMA BlocksFit ==
    ASSUME chain \in Seq(Seq(Tx)), NEW b \in Blocks, NEW i \in 1..Len(b)
    PROVE  /\ b[i] \notin AndFirst(TxsOf(chain), b, i - 1)
           /\ InsOf(b[i]) \subseteq UtxoOf(AndFirst(TxsOf(chain), b, i - 1))
<1>1. b \in Seq(Tx) /\ i \in DOMAIN b
  BY BlocksType
<1>2. /\ b[i] \notin TxsOf(chain)
      /\ InsOf(b[i]) \subseteq Utxo(Append(chain, SubSeq(b, 1, i - 1)))
      /\ \A j \in 1..(i - 1) : b[j] # b[i]
  BY <1>1 DEF Blocks
<1>3. PICK s : s = SubSeq(b, 1, i - 1)
  OBVIOUS
<1>4. s \in Seq(Tx) /\ Range(s) = {b[j] : j \in 1..(i - 1)}
  <2>1. s \in Seq(Tx) /\ DOMAIN s = 1..(i - 1) /\ \A j \in 1..(i - 1) : s[j] = b[j]
    BY <1>1, <1>3
  <2>2. QED
    BY <2>1 DEF Range
<1>5. TxsOf(Append(chain, s)) = AndFirst(TxsOf(chain), b, i - 1)
  BY <1>4, ChainTxs DEF AndFirst
<1>6. Utxo(Append(chain, s)) = UtxoOf(TxsOf(Append(chain, s)))
  BY DEF Utxo, UtxoOf
<1>7. QED
  BY <1>2, <1>3, <1>5, <1>6 DEF AndFirst

\* The pool fits the chain, the file fits the chain that it is for, and no
\* block was mined before the blocks of its parents.
FedInv ==
    /\ Good(mp, TxsOf(chain))
    /\ \A k \in 0..Len(chain) : Rooted(Upto(chain, k))
    /\ file # None => /\ Exact(file.toSend, file.spent)
                      /\ Fed(file.toSend, TxsOf(file.chain))
                      /\ \A t \in file.toSend : From(file.toSend, t) # {} => t \in file.marked

\* MempoolLoad2: the marks are found again.
LEMMA LoadGood ==
    ASSUME NEW f, NEW M, f.toSend \subseteq Tx, f.spent \in [Out -> Tx \cup {None}], Exact(f.toSend, f.spent),
           Fed(f.toSend, M), \A t \in f.toSend : From(f.toSend, t) # {} => t \in f.marked
    PROVE  Good(MempoolLoad2(f), M)
<1>1. PICK n : n = MempoolLoad2(f)
  OBVIOUS
<1>2. n \in Pool /\ n.toSend = f.toSend /\ n.spent = f.spent /\ n.size = TotalSize(f.toSend)
  BY <1>1, LoadType
<1>3. PoolOK(n)
  BY <1>2 DEF PoolOK
<1> DEFINE mem == [t \in Tx |-> IF t \in f.marked THEN {o \in InsOf(t) : OutTx[o] \in f.toSend} ELSE {}]
           cnt == [t \in Tx |-> Cardinality(mem[t])]
           size == TotalSize(f.toSend)
           r == [Empty EXCEPT !.toSend = f.toSend, !.spent = f.spent, !.mem = mem, !.memCnt = cnt, !.size = size]
<1>4. n = r
  BY <1>1, Zenon DEF MempoolLoad2
<1>5. ASSUME NEW t \in f.toSend PROVE mem[t] = From(f.toSend, t) /\ cnt[t] = Cardinality(mem[t])
  <2>1. t \in Tx
    OBVIOUS
  <2>2. mem[t] = IF t \in f.marked THEN From(f.toSend, t) ELSE {}
    BY <2>1 DEF From
  <2>3. cnt[t] = Cardinality(mem[t])
    BY <2>1, Zenon
  <2>4. QED
    BY <2>2, <2>3
<1> HIDE DEF mem, cnt, size
<1>6. r.mem = mem /\ r.memCnt = cnt
  BY DEF Empty
<1>7. Marked(n)
  BY <1>2, <1>4, <1>5, <1>6 DEF Marked
<1>8. QED
  BY <1>1, <1>2, <1>3, <1>7 DEF Good

LEMMA HandleNetTxGood ==
    ASSUME NoOwnInput, Good(mp, TxsOf(chain)), Rooted(TxsOf(chain)),
           NEW th, NEW t \in Tx, NEW trusted, NEW local, NEW retry, NEW rest,
           HandleNetTx(th, t, trusted, local, retry, rest)
    PROVE  Good(mp', TxsOf(chain))
<1>t. mp \in Pool
  BY DEF Good, PoolOK
<1>1. PICK m : m = IF retry THEN DeleteRejected(mp, {t}) ELSE mp
  OBVIOUS
<1>2. Good(m, TxsOf(chain))
  BY <1>t, <1>1, DeleteRejectedType, DeleteRejectedSame, DeleteRejectedMarks, SameGood
<1>3. mp' = mp \/ \E v \in Verdicts(m, t, trusted, local) : mp' = Judged(m, t, trusted, v)
  BY <1>1, Zenon DEF HandleNetTx
<1>4. QED
  BY <1>2, <1>3, JudgedGood

\* MarkChildrenForMem is called for the transactions of undone blocks only.
Plain == {s \in Steps : s.do # "mark"}

NoMarks == \A th \in Thread : todo[th] \in Seq(Plain)

LEMMA PlainSteps ==
    /\ RetrySteps \subseteq Plain
    /\ \A t \in Tx, a \in BOOLEAN, b \in BOOLEAN : NeedStep(t, a, b) \in Plain
    /\ \A t \in Tx, a \in BOOLEAN, b \in BOOLEAN, c \in BOOLEAN : HandleStep(t, a, b, c) \in Plain
<1>1. RetrySteps \subseteq Plain
  BY DEF Plain, Steps, RetrySteps, RetryStep
<1>2. \A t \in Tx, a \in BOOLEAN, b \in BOOLEAN : NeedStep(t, a, b) \in Steps /\ NeedStep(t, a, b).do # "mark"
  BY DEF Steps, NeedStep
<1>3. \A t \in Tx, a \in BOOLEAN, b \in BOOLEAN, c \in BOOLEAN :
         HandleStep(t, a, b, c) \in Steps /\ HandleStep(t, a, b, c).do # "mark"
  BY DEF Steps, HandleStep
<1>4. QED
  BY <1>1, <1>2, <1>3 DEF Plain

LEMMA PlainConcat ==
    ASSUME NEW x \in Seq(Plain), NEW y \in Seq(Plain)
    PROVE  x \o y \in Seq(Plain)
OBVIOUS

LEMMA PlainOne ==
    ASSUME NEW s \in Plain
    PROVE  <<s>> \in Seq(Plain)
OBVIOUS

LEMMA NoMarksFrame ==
    ASSUME TypeInv, NoMarks, NEW th \in Thread, NEW x \in Seq(Plain), todo' = [todo EXCEPT ![th] = x]
    PROVE  NoMarks'
BY DEF NoMarks, TypeInv, TypeOK

LEMMA HandleNetTxPlain ==
    ASSUME TypeInv, NoMarks, NEW th \in Thread, NEW t \in Tx, NEW trusted, NEW local, NEW retry \in BOOLEAN,
           NEW rest \in Seq(Plain), HandleNetTx(th, t, trusted, local, retry, rest)
    PROVE  NoMarks'
<1>1. mp' \in Pool
  BY HandleNetTxType DEF Plain
<1>2. Retries(mp', <<t>>) \in Seq(Plain)
  <2>1. <<t>> \in Seq(Tx)
    OBVIOUS
  <2>2. Retries(mp', <<t>>) \in Seq(RetrySteps)
    BY <1>1, <2>1, RetriesForm
  <2>3. QED
    BY <2>2, PlainSteps
<1>3. PICK r : r = Retries(mp', <<t>>)
  OBVIOUS
<1>4. todo' = [todo EXCEPT ![th] = rest] \/ todo' = [todo EXCEPT ![th] = r \o rest]
      \/ todo' = [todo EXCEPT ![th] = <<>> \o rest]
  BY <1>3, Zenon DEF HandleNetTx
<1>5. r \o rest \in Seq(Plain) /\ <<>> \o rest \in Seq(Plain)
  BY <1>2, <1>3, PlainConcat
<1>6. QED
  BY <1>4, <1>5, NoMarksFrame

LEMMA NoMarksStep ==
    ASSUME ~Undo
    PROVE  TypeInv /\ NoMarks /\ [Next]_vars => NoMarks'
<1> SUFFICES ASSUME TypeInv, NoMarks, [Next]_vars PROVE NoMarks'
  OBVIOUS
<1>t. /\ \A th \in Thread : todo[th] \in Seq(Plain)
      /\ mp \in Pool /\ NetTxs \in Seq(Tx \X BOOLEAN) /\ "main" \in Thread /\ "webui" \in Thread
  BY DEF NoMarks, TypeInv, TypeOK, Thread
<1>h. ASSUME NEW th \in Thread, todo[th] # <<>>
      PROVE  /\ Head(todo[th]) \in Plain /\ Tail(todo[th]) \in Seq(Plain) /\ Head(todo[th]) \in Steps
  <2>1. todo[th] \in Seq(Plain)
    BY <1>t
  <2>2. Head(todo[th]) \in Plain /\ Tail(todo[th]) \in Seq(Plain)
    BY <1>h, <2>1
  <2>3. QED
    BY <2>2 DEF Plain
<1>1. ASSUME NEW t \in Tx, LoadRawTx(t) PROVE NoMarks'
  <2>1. todo' = [todo EXCEPT !["webui"] = <<NeedStep(t, TRUE, TRUE)>>]
    BY <1>1 DEF LoadRawTx
  <2>2. <<NeedStep(t, TRUE, TRUE)>> \in Seq(Plain)
    <3>1. NeedStep(t, TRUE, TRUE) \in Plain
      BY PlainSteps
    <3>2. QED
      BY <3>1, PlainOne
  <2>3. QED
    BY <1>t, <2>1, <2>2, NoMarksFrame
<1>2. CASE TakeNetTx
  <2>1. PICK s : s = HandleStep(Head(NetTxs)[1], Head(NetTxs)[2], FALSE, FALSE)
    OBVIOUS
  <2>2. NetTxs # <<>> /\ todo' = [todo EXCEPT !["main"] = <<s>>]
    BY <1>2, <2>1 DEF TakeNetTx
  <2>3. Head(NetTxs) \in Tx \X BOOLEAN
    BY <1>t, <2>2
  <2>4. s \in Plain
    BY <2>1, <2>3, PlainSteps
  <2>5. <<s>> \in Seq(Plain)
    BY <2>4
  <2>6. QED
    BY <1>t, <2>2, <2>5, NoMarksFrame
<1>3. ASSUME NEW th \in Thread, DoHandle(th) PROVE NoMarks'
  <2>1. /\ todo[th] # <<>> /\ Head(todo[th]).do = "handle"
        /\ HandleNetTx(th, Head(todo[th]).tx, Head(todo[th]).trusted, Head(todo[th]).local,
                       Head(todo[th]).retry, Tail(todo[th]))
    BY <1>3 DEF DoHandle
  <2>2. Head(todo[th]).tx \in Tx /\ Head(todo[th]).retry \in BOOLEAN
    BY <1>h, <2>1, StepType
  <2>3. QED
    BY <1>h, <2>1, <2>2, HandleNetTxPlain
<1>4. ASSUME NEW th \in Thread, DoRetry(th) PROVE NoMarks'
  <2>1. PICK s : s = Head(todo[th])
    OBVIOUS
  <2>2. PICK left : left = s.ids \cap mp.waiting[s.tx]
    OBVIOUS
  <2>3. /\ todo[th] # <<>> /\ s.do = "retry"
        /\ \/ todo' = [todo EXCEPT ![th] = Tail(todo[th])]
           \/ \E t \in left : HandleNetTx(th, t, FALSE, FALSE, TRUE,
                                          <<RetryStep(s.tx, left \ {t})>> \o Tail(todo[th]))
    BY <1>4, <2>1, <2>2 DEF DoRetry
  <2>4. s \in Steps /\ Tail(todo[th]) \in Seq(Plain)
    BY <1>h, <2>1, <2>3
  <2>5. s.tx \in Tx /\ left \subseteq Tx
    BY <2>2, <2>3, <2>4, StepType
  <2>6. ASSUME NEW t \in left,
               HandleNetTx(th, t, FALSE, FALSE, TRUE, <<RetryStep(s.tx, left \ {t})>> \o Tail(todo[th]))
        PROVE  NoMarks'
    <3>1. RetryStep(s.tx, left \ {t}) \in Plain
      <4>1. \A i \in Tx, ids \in SUBSET Tx : RetryStep(i, ids) \in RetrySteps
        BY DEF RetrySteps
      <4>2. QED
        BY <2>5, <4>1, PlainSteps
    <3>2. <<RetryStep(s.tx, left \ {t})>> \in Seq(Plain)
      BY <3>1
    <3>3. PICK rest : rest = <<RetryStep(s.tx, left \ {t})>> \o Tail(todo[th])
      OBVIOUS
    <3>4. rest \in Seq(Plain)
      BY <2>4, <3>2, <3>3, PlainConcat
    <3>5. QED
      BY <2>5, <2>6, <3>3, <3>4, HandleNetTxPlain
  <2>7. QED
    BY <2>3, <2>4, <2>6, NoMarksFrame
<1>5. ASSUME NEW th \in Thread, DoNeed(th) PROVE NoMarks'
  <2>1. PICK s : s = Head(todo[th])
    OBVIOUS
  <2>2. PICK x : x = IF NeedThisTx(s.tx) THEN <<HandleStep(s.tx, s.trusted, s.local, TRUE)>> ELSE <<>>
    OBVIOUS
  <2>3. todo[th] # <<>> /\ s.do = "need" /\ todo' = [todo EXCEPT ![th] = x \o Tail(todo[th])]
    BY <1>5, <2>1, <2>2 DEF DoNeed
  <2>4. s \in Steps /\ Tail(todo[th]) \in Seq(Plain)
    BY <1>h, <2>1, <2>3
  <2>5. HandleStep(s.tx, s.trusted, s.local, TRUE) \in Plain
    BY <2>3, <2>4, StepType, PlainSteps
  <2>6. x \in Seq(Plain)
    <3>1. <<HandleStep(s.tx, s.trusted, s.local, TRUE)>> \in Seq(Plain)
      BY <2>5, PlainOne
    <3>2. <<>> \in Seq(Plain)
      OBVIOUS
    <3>3. QED
      BY <2>2, <3>1, <3>2, Zenon
  <2>7. PICK y : y = x \o Tail(todo[th])
    OBVIOUS
  <2>8. y \in Seq(Plain)
    BY <2>4, <2>6, <2>7, PlainConcat
  <2>9. QED
    BY <2>3, <2>7, <2>8, NoMarksFrame
<1>6. ASSUME NEW th \in Thread, DoMark(th) PROVE NoMarks'
  <2>1. todo[th] # <<>> /\ todo' = [todo EXCEPT ![th] = Tail(todo[th])]
    BY <1>6 DEF DoMark
  <2>2. QED
    BY <1>h, <2>1, NoMarksFrame
<1>7. ASSUME NEW b \in Blocks, BlockMined(b) PROVE NoMarks'
  <2>1. todo' = [todo EXCEPT !["main"] = Retries(mp', b)] /\ b \in Seq(Tx)
    BY <1>7, BlocksType DEF BlockMined
  <2>2. mp' \in Pool
    BY TypeStep DEF TypeInv, TypeOK
  <2>3. Retries(mp', b) \in Seq(RetrySteps)
    BY <2>1, <2>2, RetriesForm
  <2>4. Retries(mp', b) \in Seq(Plain)
    BY <2>3, PlainSteps
  <2>5. QED
    BY <1>t, <2>1, <2>4, NoMarksFrame
<1>8. CASE MempoolLoadNew
  <2>1. PICK ts \in SetToSeqs(file.toSend) :
          todo' = [todo EXCEPT !["main"] = [i \in DOMAIN ts |-> NeedStep(ts[i], FALSE, FALSE)]]
    BY <1>8 DEF MempoolLoadNew
  <2> DEFINE x == [i \in DOMAIN ts |-> NeedStep(ts[i], FALSE, FALSE)]
             n == Cardinality(file.toSend)
  <2>2. ts \in [1..n -> file.toSend] /\ file.toSend \subseteq Tx
    BY <1>8, <2>1 DEF MempoolLoadNew, SetToSeqs, TypeInv, TypeOK
  <2>3. n \in Nat
    BY <2>2, FiniteSums, FS_CardinalityType
  <2> HIDE DEF n
  <2>4. \A i \in 1..n : NeedStep(ts[i], FALSE, FALSE) \in Plain
    BY <2>2, PlainSteps
  <2>5. x \in Seq(Plain)
    <3>1. x = [i \in 1..n |-> x[i]] /\ \A i \in 1..n : x[i] \in Plain
      BY <2>2, <2>4
    <3> HIDE DEF x
    <3>2. QED
      BY <2>3, <3>1
  <2>6. todo' = [todo EXCEPT !["main"] = x]
    BY <2>1
  <2> HIDE DEF x
  <2>7. QED
    BY <1>t, <2>5, <2>6, NoMarksFrame
<1>9. ASSUME NEW n, Restart(n) PROVE NoMarks'
  BY <1>9 DEF Restart, NoMarks
<1>10. ASSUME \/ \E t \in Tx : \/ ParseTxNetTooBig(t) \/ DeleteTx(t)
                              \/ \E trusted \in BOOLEAN : ParseTxNet(t, trusted)
              \/ ExpireTxs \/ MempoolSave \/ UNCHANGED vars
       PROVE  NoMarks'
  <2>1. todo' = todo
    BY <1>10 DEF ParseTxNetTooBig, DeleteTx, ParseTxNet, ExpireTxs, MempoolSave, vars
  <2>2. QED
    BY <2>1 DEF NoMarks
<1>11. ~ BlockUndone
  BY DEF BlockUndone
<1>12. QED
  BY <1>1, <1>2, <1>3, <1>4, <1>5, <1>6, <1>7, <1>8, <1>9, <1>10, <1>11 DEF Next

LEMMA FedStep ==
    ASSUME NoOwnInput, ~Undo
    PROVE  TypeInv /\ NoMarks /\ FedInv /\ [Next]_vars => FedInv'
<1> SUFFICES ASSUME TypeInv, NoMarks, FedInv, [Next]_vars PROVE FedInv'
  OBVIOUS
<1>t. /\ PoolOK(mp) /\ mp \in Pool /\ mp.toSend \subseteq Tx /\ minFee \in Nat
      /\ \A th \in Thread : todo[th] \in Seq(Steps)
      /\ chain \in Seq(Seq(Tx))
  BY DEF FedInv, Good, PoolOK, Pool, TypeInv, TypeOK
<1>r. Rooted(TxsOf(chain))
  <2>1. TxsOf(chain) = Upto(chain, Len(chain)) /\ Len(chain) \in 0..Len(chain)
    BY <1>t, ChainTxs
  <2>2. QED
    BY <2>1 DEF FedInv
<1>g. Good(mp, TxsOf(chain))
  BY DEF FedInv
<1>f. ASSUME UNCHANGED <<chain, file>>, Good(mp', TxsOf(chain)) PROVE FedInv'
  BY <1>f DEF FedInv
<1>d. ASSUME NEW R, NEW why \in Reasons \cup {None}, ChildrenToo(mp, R) PROVE Good(Delete(mp, R, why), TxsOf(chain))
  BY <1>d, <1>g, DeleteGood
<1>j. \A m, S : m \in Pool /\ Good(m, TxsOf(chain)) /\ S \subseteq Tx => Good(DeleteRejected(m, S), TxsOf(chain))
  BY DeleteRejectedType, DeleteRejectedSame, DeleteRejectedMarks, SameGood
<1>1. ASSUME NEW t \in Tx, ParseTxNetTooBig(t) PROVE FedInv'
  <2>1. mp' = RejectTx(mp, {t}, "TOO_BIG") /\ UNCHANGED <<chain, file>>
    BY <1>1 DEF ParseTxNetTooBig
  <2>2. mp' \in Pool /\ SamePool(mp, mp') /\ SameMarks(mp, mp')
    BY <1>t, <2>1, RejectTxType, RejectTxSame, RejectTxMarks DEF Reasons
  <2>3. QED
    BY <1>f, <1>g, <2>1, <2>2, SameGood
<1>2. ASSUME NEW t \in Tx, LoadRawTx(t) PROVE FedInv'
  <2>1. mp' = DeleteRejected(mp, {t}) /\ UNCHANGED <<chain, file>>
    BY <1>2 DEF LoadRawTx
  <2>2. QED
    BY <1>f, <1>g, <1>j, <1>t, <2>1
<1>3. ASSUME NEW t \in Tx, DeleteTx(t) PROVE FedInv'
  <2>1. mp' = Delete(mp, WithChildren(mp, {t}), None) /\ UNCHANGED <<chain, file>>
    BY <1>3 DEF DeleteTx
  <2>2. Good(mp', TxsOf(chain))
    BY <1>d, <1>t, <2>1, WithChildrenClosed
  <2>3. QED
    BY <1>f, <2>1, <2>2
<1>4. ASSUME NEW th \in Thread, DoHandle(th) PROVE FedInv'
  <2>1. /\ todo[th] # <<>> /\ Head(todo[th]).do = "handle" /\ UNCHANGED <<chain, file>>
        /\ HandleNetTx(th, Head(todo[th]).tx, Head(todo[th]).trusted, Head(todo[th]).local,
                       Head(todo[th]).retry, Tail(todo[th]))
    BY <1>4 DEF DoHandle
  <2>2. Head(todo[th]) \in Steps
    BY <1>t, <2>1
  <2>3. Head(todo[th]).tx \in Tx
    BY <2>2, StepType
  <2>4. Good(mp', TxsOf(chain))
    BY <1>g, <1>r, <2>1, <2>3, HandleNetTxGood
  <2>5. QED
    BY <1>f, <2>1, <2>4
<1>5. ASSUME NEW th \in Thread, DoRetry(th) PROVE FedInv'
  <2> DEFINE s == Head(todo[th])
  <2>1. /\ todo[th] # <<>> /\ s.do = "retry" /\ UNCHANGED <<chain, file>>
        /\ \/ mp' = mp
           \/ \E t \in s.ids : \E rest : HandleNetTx(th, t, FALSE, FALSE, TRUE, rest)
    BY <1>5 DEF DoRetry
  <2>2. s \in Steps
    BY <1>t, <2>1
  <2>3. s.ids \subseteq Tx
    BY <2>1, <2>2, StepType
  <2> HIDE DEF s
  <2>4. Good(mp', TxsOf(chain))
    BY <1>g, <1>r, <2>1, <2>3, HandleNetTxGood
  <2>5. QED
    BY <1>f, <2>1, <2>4
<1>6. ASSUME NEW b \in Blocks, BlockMined(b) PROVE FedInv'
  <2>1. mp' = AfterMined(mp, b)[Len(b)] /\ chain' = Append(chain, b) /\ file' = file
    BY <1>6 DEF BlockMined
  <2>2. b \in Seq(Tx)
    BY BlocksType
  <2>3. PICK M : M = TxsOf(chain)
    OBVIOUS
  <2>4. \A i \in 1..Len(b) : /\ b[i] \notin AndFirst(M, b, i - 1)
                             /\ InsOf(b[i]) \subseteq UtxoOf(AndFirst(M, b, i - 1))
    BY <1>t, <2>3, BlocksFit
  <2>5. Good(mp', AndFirst(M, b, Len(b))) /\ Rooted(AndFirst(M, b, Len(b)))
    BY <1>g, <1>r, <2>1, <2>2, <2>3, <2>4, AfterMinedGood
  <2>6. TxsOf(chain') = AndFirst(M, b, Len(b))
    <3>1. Range(b) = {b[j] : j \in 1..Len(b)}
      BY <2>2 DEF Range
    <3>2. QED
      BY <1>t, <2>1, <2>2, <2>3, <3>1, ChainTxs DEF AndFirst
  <2>7. PICK c : c = chain'
    OBVIOUS
  <2>8. c \in Seq(Seq(Tx)) /\ Len(c) = Len(chain) + 1 /\ c = Append(chain, b)
    BY <1>t, <2>1, <2>2, <2>7
  <2>9. ASSUME NEW k \in 0..Len(c) PROVE Rooted(Upto(c, k))
    <3>1. CASE k \in 0..Len(chain)
      <4>1. Upto(c, k) = Upto(chain, k)
        BY <1>t, <2>2, <2>8, <3>1, ChainTxs
      <4>2. QED
        BY <3>1, <4>1 DEF FedInv
    <3>2. CASE k = Len(c)
      <4>1. Upto(c, k) = TxsOf(c)
        BY <2>8, <3>2, ChainTxs
      <4>2. QED
        BY <2>5, <2>6, <2>7, <4>1
    <3>3. QED
      BY <1>t, <2>8, <3>1, <3>2
  <2>10. \A k \in 0..Len(chain') : Rooted(Upto(chain', k))
    BY <2>7, <2>9
  <2>11. QED
    BY <2>1, <2>5, <2>6, <2>10 DEF FedInv
<1>7. CASE ExpireTxs
  <2>1. PICK x \in LimitPoolSize(mp, minFee) : \E r \in LimitRejectedSize(x[1]) :
          mp' = DeleteRejected(x[1], r[1] \cup r[2])
    BY <1>7, Zenon DEF ExpireTxs
  <2>2. PICK r \in LimitRejectedSize(x[1]) : mp' = DeleteRejected(x[1], r[1] \cup r[2])
    BY <2>1, Zenon
  <2>3. Good(x[1], TxsOf(chain))
    <3>1. x[1] = mp \/ x[1] = DeleteRejected(mp, LowFee(mp))
          \/ \E R : WithChildren(mp, R) = R /\ x[1] = Delete(mp, R, "LOW_FEE")
      BY LimitPoolSizeForm
    <3>2. Good(DeleteRejected(mp, LowFee(mp)), TxsOf(chain))
      BY <1>g, <1>j, <1>t DEF LowFee
    <3>3. \A R : WithChildren(mp, R) = R => Good(Delete(mp, R, "LOW_FEE"), TxsOf(chain))
      BY <1>d, <1>t, WithChildrenClosed DEF Reasons
    <3>4. QED
      BY <1>g, <3>1, <3>2, <3>3
  <2>4. x[1] \in Pool /\ r[1] \cup r[2] \subseteq Tx
    BY <2>3, LimitRejectedType DEF Good, PoolOK
  <2>5. UNCHANGED <<chain, file>>
    BY <1>7 DEF ExpireTxs
  <2>6. QED
    BY <1>f, <1>j, <2>2, <2>3, <2>4, <2>5
<1>8. CASE MempoolSave
  <2>1. /\ mp' = mp /\ chain' = chain
        /\ file' = [chain |-> chain, toSend |-> mp.toSend, marked |-> {t \in mp.toSend : mp.memCnt[t] # 0},
                    spent |-> mp.spent]
    BY <1>8 DEF MempoolSave
  <2>2. /\ file'.toSend = mp.toSend /\ file'.spent = mp.spent /\ file'.chain = chain
        /\ file'.marked = {t \in mp.toSend : mp.memCnt[t] # 0}
    BY <2>1
  <2>3. ASSUME NEW t \in mp.toSend, From(mp.toSend, t) # {} PROVE mp.memCnt[t] # 0
    <3>1. mp.mem[t] = From(mp.toSend, t) /\ mp.memCnt[t] = Cardinality(mp.mem[t]) /\ mp.mem[t] \subseteq Out
      BY <1>g, <1>t DEF Good, Marked, Pool
    <3>2. IsFiniteSet(mp.mem[t])
      BY <3>1, FiniteOuts
    <3>3. QED
      BY <2>3, <3>1, <3>2, FS_EmptySet
  <2>4. \A t \in file'.toSend : From(file'.toSend, t) # {} => t \in file'.marked
    BY <2>2, <2>3
  <2>5. Exact(file'.toSend, file'.spent) /\ Fed(file'.toSend, TxsOf(file'.chain))
    BY <1>g, <2>2 DEF Good, PoolOK
  <2>6. QED
    BY <2>1, <2>4, <2>5 DEF FedInv
<1>9. ASSUME NEW n \in 0..Len(chain), Restart(n) PROVE FedInv'
  <2>1. /\ mp' = Empty \/ (file # None /\ file.chain = chain' /\ mp' = MempoolLoad2(file))
        /\ file' = file /\ chain' = SubSeq(chain, 1, n)
    BY <1>9 DEF Restart
  <2>2. Good(mp', TxsOf(chain'))
    <3>1. CASE mp' = Empty
      <4>1. Empty.toSend = {}
        BY DEF Empty
      <4>2. QED
        BY <3>1, <4>1, EmptyOK DEF Good, Fed, Marked
    <3>2. CASE file # None /\ file.chain = chain' /\ mp' = MempoolLoad2(file)
      <4>1. /\ file.toSend \subseteq Tx /\ file.spent \in [Out -> Tx \cup {None}]
            /\ Exact(file.toSend, file.spent) /\ Fed(file.toSend, TxsOf(file.chain))
            /\ \A t \in file.toSend : From(file.toSend, t) # {} => t \in file.marked
        BY <3>2 DEF TypeInv, TypeOK, FedInv
      <4>2. Good(MempoolLoad2(file), TxsOf(file.chain))
        BY <4>1, LoadGood
      <4>3. QED
        BY <3>2, <4>2
    <3>3. QED
      BY <2>1, <3>1, <3>2
  <2>3. PICK c : c = chain'
    OBVIOUS
  <2>4. c = SubSeq(chain, 1, n) /\ Len(c) = n
    BY <1>t, <2>1, <2>3
  <2>5. \A k \in 0..Len(c) : Rooted(Upto(c, k))
    <3>1. ASSUME NEW k \in 0..n PROVE k \in 0..Len(chain) /\ Upto(c, k) = Upto(chain, k)
      BY <1>t, <2>4, ChainTxs
    <3>2. QED
      BY <2>4, <3>1 DEF FedInv
  <2>6. \A k \in 0..Len(chain') : Rooted(Upto(chain', k))
    BY <2>3, <2>5
  <2>7. QED
    BY <2>1, <2>2, <2>6 DEF FedInv
<1>10. ASSUME NEW th \in Thread, DoMark(th) PROVE FALSE
  <2>1. todo[th] # <<>> /\ Head(todo[th]).do = "mark" /\ todo[th] \in Seq(Plain)
    BY <1>10 DEF DoMark, NoMarks
  <2>2. Head(todo[th]) \in Plain
    BY <2>1
  <2>3. QED
    BY <2>1, <2>2 DEF Plain
<1>11. ASSUME \/ \E t \in Tx, trusted \in BOOLEAN : ParseTxNet(t, trusted)
              \/ TakeNetTx \/ MempoolLoadNew \/ (\E th \in Thread : DoNeed(th)) \/ UNCHANGED vars
       PROVE  FedInv'
  <2>1. mp' = mp /\ UNCHANGED <<chain, file>>
    BY <1>11 DEF ParseTxNet, TakeNetTx, MempoolLoadNew, DoNeed, vars
  <2>2. QED
    BY <1>f, <1>g, <2>1
<1>12. ~ BlockUndone
  BY DEF BlockUndone
<1>13. QED
  BY <1>1, <1>2, <1>3, <1>4, <1>5, <1>6, <1>7, <1>8, <1>9, <1>10, <1>11, <1>12 DEF Next

LEMMA InitFed == Init => FedInv /\ NoMarks
<1> SUFFICES ASSUME Init PROVE FedInv /\ NoMarks
  OBVIOUS
<1>1. mp = Empty /\ chain = <<>> /\ file = None /\ todo = [th \in Thread |-> <<>>]
  BY DEF Init
<1>2. NoMarks
  BY <1>1 DEF NoMarks
<1>3. Good(mp, TxsOf(chain))
  <2>1. Empty.toSend = {}
    BY DEF Empty
  <2>2. QED
    BY <1>1, <2>1, EmptyOK DEF Good, Fed, Marked
<1>4. Len(chain) = 0
  BY <1>1
<1>5. Rooted(Upto(chain, 0))
  BY DEF Rooted, Upto
<1>6. \A k \in 0..Len(chain) : Rooted(Upto(chain, k))
  <2>1. \A k \in 0..0 : k = 0
    OBVIOUS
  <2>2. QED
    BY <1>4, <1>5, <2>1
<1>7. QED
  BY <1>1, <1>2, <1>3, <1>6 DEF FedInv

\* MempoolCheck, "has no input": whatever is accepted, replaced, mined, expired,
\* deleted by the user or loaded after a restart, with two threads at it, the
\* inputs of the transactions in the pool are outputs of others in the pool
\* or unspent: nothing is left that could never be mined.
THEOREM InputsStay ==
    ASSUME NoOwnInput, ~Undo
    PROVE  Spec => []InputsExist
<1>1. Init => TypeInv /\ NoMarks /\ FedInv
  BY InitType, InitFed
<1>2. FedInv => InputsExist
  <2>1. Utxo(chain) = UtxoOf(TxsOf(chain))
    BY DEF Utxo, UtxoOf
  <2>2. QED
    BY <2>1 DEF FedInv, Good, Fed, InputsExist
<1>3. TypeInv /\ NoMarks /\ FedInv /\ [Next]_vars => NoMarks' /\ FedInv'
  BY NoMarksStep, FedStep
<1>4. QED
  BY <1>1, <1>2, <1>3, TypeStep, PTL DEF Spec

\* MempoolCheck, MemInputs: the marks that UnMarkChildrenForMem takes away one
\* by one, and MempoolSave reduces to a flag, always name exactly the inputs
\* that are outputs of the pool, and MemInputCnt counts them.
THEOREM MarksStayExact ==
    ASSUME NoOwnInput, ~Undo
    PROVE  Spec => []MemInputsAreExact
<1>1. Init => TypeInv /\ NoMarks /\ FedInv
  BY InitType, InitFed
<1>2. FedInv => MemInputsAreExact
  BY DEF FedInv, Good, Marked, From, MemInputsAreExact
<1>3. TypeInv /\ NoMarks /\ FedInv /\ [Next]_vars => NoMarks' /\ FedInv'
  BY NoMarksStep, FedStep
<1>4. QED
  BY <1>1, <1>2, <1>3, TypeStep, PTL DEF Spec
=============================================================================
