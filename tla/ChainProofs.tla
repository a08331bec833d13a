---------------------------- MODULE ChainProofs -----------------------------
(***************************************************************************)
(* Theorems about Chain.                                                   *)
(***************************************************************************)
EXTENDS Chain, BlockTreeProofs, SequenceTheorems

-----------------------------------------------------------------------------
(* The tree of all blocks, the farthest node, work *)

LEMMA Rooted == IsRooted /\ IsTree /\ Root \in Block
BY ChainAssumption DEF IsRooted, IsTree

\* Position finds an entry of a sequence.
LEMMA PositionIn ==
    ASSUME NEW S, NEW s \in Seq(S), NEW x, \E i \in DOMAIN s : s[i] = x
    PROVE  Position(x, s) \in DOMAIN s /\ s[Position(x, s)] = x /\ Position(x, s) \in Nat
<1>1. Position(x, s) \in DOMAIN s /\ s[Position(x, s)] = x
  BY DEF Position
<1>2. DOMAIN s = 1..Len(s) /\ Len(s) \in Nat
  OBVIOUS
<1>3. QED
  BY <1>1, <1>2

\* FindFarthestNode finds a node that can be reached, and none that can be
\* reached is higher: of the deepest nodes one comes before all the others.
LEMMA FarthestIn ==
    ASSUME Childs \in [Block -> Seq(Block)]
    PROVE  /\ FindFarthestNode \in Block /\ Reachable(FindFarthestNode)
           /\ \A c \in Block : Reachable(c) => Height(c) <= Height(FindFarthestNode)
<1>t. IsRooted /\ IsTree /\ Root \in Block
  BY Rooted
<1> DEFINE N == {b \in Block : Reachable(b)}
           D == {b \in N : \A c \in N : Height(c) <= Height(b)}
           Pos(a, x) == Position(ToWards(a, x), Childs[a])
           First(x, y) == Pos(Common(x, y), x) < Pos(Common(x, y), y)
           Q == {a \in Block : /\ \E x \in D : a \in AncOf[x]
                               /\ \A y \in D : a \notin AncOf[y] => First(a, y)}
<1>1. D # {} /\ D \in SUBSET Block
  <2>1. Root \in N
    BY <1>t, AncRoot DEF Reachable
  <2>2. N \in SUBSET Block
    OBVIOUS
  <2> HIDE DEF N
  <2>3. Highest(N) \in N /\ \A y \in N : Height(y) <= Height(Highest(N))
    BY <1>t, <2>1, <2>2, HighestIn
  <2>4. QED
    BY <2>2, <2>3
<1>2. \A a \in Block : Height(a) \in Nat
  BY <1>t, HeightRange
<1>3. ASSUME NEW x \in D, NEW a \in AncOf[x], a # x
      PROVE  /\ ToWards(a, x) \in AncOf[x] /\ ToWards(a, x) \in Block \ {Root}
             /\ Parent[ToWards(a, x)] = a /\ a \in Block
             /\ Pos(a, x) \in Nat /\ Childs[a][Pos(a, x)] = ToWards(a, x)
  <2>1. /\ ToWards(a, x) \in AncOf[x] /\ ToWards(a, x) \in Block \ {Root}
        /\ Parent[ToWards(a, x)] = a /\ a \in Block
    BY <1>t, <1>1, <1>3, ToWardsIn, AncSelf
  <2>2. Reachable(x)
    OBVIOUS
  <2>3. \E i \in DOMAIN Childs[a] : Childs[a][i] = ToWards(a, x)
    BY <2>1, <2>2 DEF Reachable
  <2>4. Childs[a] \in Seq(Block)
    BY <2>1
  <2>5. QED
    BY <2>1, <2>3, <2>4, PositionIn
<1>4. Root \in Q
  BY <1>t, <1>1 DEF IsRooted
<1>5. PICK a \in Q : \A q \in Q : Height(q) <= Height(a)
  <2>1. Q \in SUBSET Block /\ Q # {}
    BY <1>4
  <2> HIDE DEF Q
  <2>2. QED
    BY <1>t, <2>1, HighestIn
<1>6. ASSUME a \notin D PROVE FALSE
  <2>1. PICK x \in D : a \in AncOf[x]
    BY <1>5
  <2> DEFINE Y == {y \in D : a \in AncOf[y]}
             K == {Pos(a, y) : y \in Y}
  <2>2. \A y \in Y : y # a /\ Pos(a, y) \in Nat
    <3> HIDE DEF D, Pos
    <3>1. QED
      BY <1>3, <1>6
  <2>3. K \in SUBSET Nat /\ K # {}
    <3> HIDE DEF D, Pos
    <3>1. QED
      BY <2>1, <2>2
  <2>4. PICK k \in K : \A j \in K : k <= j
    <3> HIDE DEF K
    <3>1. QED
      BY <2>3, LeastNat
  <2>5. PICK z \in Y : k = Pos(a, z)
    OBVIOUS
  <2>6. PICK c : c = ToWards(a, z)
    OBVIOUS
  <2>7. /\ c \in AncOf[z] /\ c \in Block \ {Root} /\ Parent[c] = a /\ a \in Block
        /\ Childs[a][k] = c /\ z \in D /\ a \in AncOf[z] /\ k \in Nat
    <3> HIDE DEF D, Pos
    <3>1. QED
      BY <1>3, <2>2, <2>5, <2>6
  <2>8. AncOf[c] = {c} \cup AncOf[a] /\ c \in AncOf[c]
    BY <1>t, <2>7, AncStep
  <2>9. ASSUME NEW y \in D, c \notin AncOf[y] PROVE First(c, y)
    <3>0. y \in Block
      BY <1>1
    <3>1. CASE a \in AncOf[y]
      <4>1. Common(c, y) = a
        <5>1. a \in AncOf[c] \cap AncOf[y]
          BY <2>7, <2>8, <3>1, AncSelf
        <5>2. \A w \in AncOf[c] \cap AncOf[y] : w \in AncOf[a]
          BY <2>8, <2>9
        <5>3. QED
          BY <1>t, <2>7, <3>0, <5>1, <5>2, CommonIs
      <4>2. ToWards(a, c) = c
        BY <1>t, <2>7, <2>8, ToWardsIs
      <4>3. y \in Y /\ a # y
        BY <2>2, <3>1
      <4>4. /\ ToWards(a, y) \in AncOf[y] /\ Pos(a, y) \in Nat
            /\ Childs[a][Pos(a, y)] = ToWards(a, y)
        <5> HIDE DEF D, Pos
        <5>1. QED
          BY <1>3, <3>1, <4>3
      <4>5. Pos(a, y) # k /\ k <= Pos(a, y)
        <5>1. Pos(a, y) \in K
          BY <4>3
        <5> HIDE DEF Pos, K
        <5>2. QED
          BY <2>4, <2>7, <2>9, <4>4, <5>1
      <4>6. Pos(a, c) = k
        BY <2>5, <2>6, <4>2
      <4>7. k < Pos(a, y)
        <5> HIDE DEF Pos
        <5>1. QED
          BY <2>7, <4>4, <4>5
      <4>8. QED
        BY <4>1, <4>6, <4>7
    <3>2. CASE a \notin AncOf[y]
      <4>1. PICK e : e = Common(a, y)
        OBVIOUS
      <4>2. /\ e \in AncOf[a] /\ e \in AncOf[y] /\ e \in Block
            /\ \A w \in AncOf[a] \cap AncOf[y] : w \in AncOf[e]
        BY <1>t, <2>7, <3>0, <4>1, CommonIn
      <4>3. Common(c, y) = e
        <5>1. e \in AncOf[c] \cap AncOf[y]
          BY <2>8, <4>2
        <5>2. \A w \in AncOf[c] \cap AncOf[y] : w \in AncOf[e]
          BY <2>8, <2>9, <4>2
        <5>3. QED
          BY <1>t, <2>7, <3>0, <5>1, <5>2, CommonIs
      <4>4. PICK t : t = ToWards(e, a)
        OBVIOUS
      <4>5. t \in AncOf[a] /\ t # Root /\ Parent[t] = e
        BY <1>t, <2>7, <3>2, <4>2, <4>4, ToWardsIn
      <4>6. ToWards(e, c) = t
        BY <1>t, <2>7, <2>8, <4>5, ToWardsIs
      <4>7. First(a, y)
        BY <1>5, <3>2
      <4>8. QED
        BY <4>1, <4>3, <4>4, <4>6, <4>7
    <3>3. QED
      BY <3>1, <3>2
  <2>10. c \in Q
    <3> HIDE DEF D, First
    <3>1. QED
      BY <2>7, <2>9
  <2>11. Height(c) <= Height(a) /\ Height(a) \in Nat /\ Height(c) \in Nat
    <3> HIDE DEF Q
    <3>1. QED
      BY <1>2, <1>5, <2>7, <2>10
  <2>12. Height(c) = Height(a) + 1
    BY <1>t, <2>7, HeightStep
  <2>13. QED
    BY <2>11, <2>12
<1>7. a \in D /\ \A y \in D \ {a} : First(a, y)
  <2>1. a \in D
    BY <1>6
  <2>2. ASSUME NEW y \in D \ {a} PROVE a \notin AncOf[y]
    <3>1. Height(y) <= Height(a) /\ y \in Block /\ a \in Block
      BY <2>1
    <3>2. a \in AncOf[y] => Height(a) < Height(y) /\ Height(a) \in Nat /\ Height(y) \in Nat
      BY <1>t, <2>2, <3>1, HeightLess
    <3>3. QED
      BY <3>1, <3>2
  <2>3. \A y \in D : a \notin AncOf[y] => First(a, y)
    BY <1>5
  <2> HIDE DEF D, First
  <2>4. QED
    BY <2>1, <2>2, <2>3
<1>8. FindFarthestNode = CHOOSE x \in D : \A y \in D \ {x} : First(x, y)
  BY DEF FindFarthestNode
<1>9. FindFarthestNode \in D
  <2> HIDE DEF D, First
  <2>1. QED
    BY <1>7, <1>8
<1>10. QED
  BY <1>9

\* The total work of a branch is defined by recursion along the parents.
LEMMA WorkOfRec ==
    /\ WorkOf \in [Block -> Nat] /\ WorkOf[Root] = 0
    /\ \A b \in Block \ {Root} : WorkOf[b] = Work[b] + WorkOf[Parent[b]]
<1>t. IsRooted /\ IsTree /\ Root \in Block /\ Work \in [Block -> Nat] /\ Parent \in [Block \ {Root} -> Block]
  BY Rooted, ChainAssumption
<1> DEFINE Is(f, h) == /\ f \in [Block -> Nat] /\ f[Root] = 0
                       /\ \A b \in Block \ {Root} : Height(b) <= h => f[b] = Work[b] + f[Parent[b]]
<1>0. \A b \in Block : Height(b) \in Nat
  BY <1>t, HeightRange
<1>1. ASSUME NEW h \in Nat PROVE \E f : Is(f, h)
  <2> DEFINE bad == {k \in Nat : ~ \E f : Is(f, k)}
  <2> SUFFICES ASSUME bad # {} PROVE FALSE
    OBVIOUS
  <2>1. PICK k \in bad : \A j \in bad : k <= j
    BY LeastNat
  <2>2. CASE k = 0
    <3>1. \A b \in Block \ {Root} : Height(b) # 0
      <4>1. \A b \in Block \ {Root} : Parent[b] \in Block /\ Height(b) = Height(Parent[b]) + 1
        BY <1>t, HeightStep
      <4>2. QED
        BY <1>0, <4>1
    <3>2. Is([b \in Block |-> 0], 0)
      BY <1>0, <1>t, <3>1
    <3>3. QED
      BY <2>1, <2>2, <3>2
  <2>3. CASE k # 0
    <3>1. k - 1 \in Nat /\ k - 1 \notin bad
      <4>1. k \in Nat
        OBVIOUS
      <4> HIDE DEF bad
      <4>2. QED
        BY <2>1, <2>3, <4>1
    <3>2. PICK f : Is(f, k - 1)
      BY <3>1
    <3> DEFINE g == [b \in Block |-> IF b = Root THEN 0 ELSE Work[b] + f[Parent[b]]]
    <3>3. g \in [Block -> Nat] /\ g[Root] = 0
      BY <1>t, <3>2
    <3>4. \A b \in Block : Height(b) <= k - 1 => g[b] = f[b]
      BY <1>t, <3>2
    <3>5. ASSUME NEW b \in Block \ {Root}, Height(b) <= k PROVE g[b] = Work[b] + g[Parent[b]]
      <4>1. Parent[b] \in Block /\ Height(b) = Height(Parent[b]) + 1 /\ Height(b) \in Nat /\ Height(Parent[b]) \in Nat
        BY <1>0, <1>t, HeightStep
      <4>2. Height(Parent[b]) <= k - 1
        BY <2>1, <3>5, <4>1
      <4>3. QED
        BY <3>4, <4>1, <4>2
    <3> HIDE DEF g
    <3>6. Is(g, k)
      BY <3>3, <3>5
    <3>7. QED
      BY <2>1, <3>6
  <2>4. QED
    BY <2>2, <2>3
<1>2. PICK f : Is(f, Cardinality(Block))
  <2>1. Cardinality(Block) \in Nat
    BY <1>t, HeightRange
  <2> HIDE DEF Is
  <2>2. QED
    BY <1>1, <2>1
<1>3. \A b \in Block : Height(b) <= Cardinality(Block)
  <2>1. \A b \in Block : Height(b) \in 0..Cardinality(Block) /\ Cardinality(Block) \in Nat
    BY <1>t, HeightRange
  <2>2. QED
    BY <2>1
<1> DEFINE Eq(e) == e = [b \in Block |-> IF b = Root THEN 0 ELSE Work[b] + e[Parent[b]]]
<1>4. \A b \in Block : f[b] = IF b = Root THEN 0 ELSE Work[b] + f[Parent[b]]
  BY <1>2, <1>3
<1>5. f = [b \in Block |-> f[b]]
  BY <1>2
<1>6. Eq(f)
  BY <1>4, <1>5
<1>7. WorkOf = CHOOSE e : Eq(e)
  BY DEF WorkOf
<1>8. Eq(WorkOf)
  <2> HIDE DEF Eq
  <2>1. QED
    BY <1>6, <1>7
<1>9. WorkOf[Root] = 0 /\ \A b \in Block \ {Root} : WorkOf[b] = Work[b] + WorkOf[Parent[b]]
  BY <1>t, <1>8
<1>10. WorkOf = [b \in Block |-> WorkOf[b]]
  BY <1>8
<1>11. \A b \in Block : WorkOf[b] \in Nat
  <2> DEFINE H == {h \in Nat : \E b \in Block : Height(b) = h /\ WorkOf[b] \notin Nat}
  <2> SUFFICES ASSUME H # {} PROVE FALSE
    BY <1>0
  <2>1. PICK h \in H : \A j \in H : h <= j
    BY LeastNat
  <2>2. PICK b \in Block : Height(b) = h /\ WorkOf[b] \notin Nat
    OBVIOUS
  <2>3. b # Root
    BY <1>9, <2>2
  <2>4. Parent[b] \in Block /\ Height(b) = Height(Parent[b]) + 1 /\ Height(Parent[b]) \in Nat
    BY <1>0, <1>t, <2>3, HeightStep
  <2>5. Height(Parent[b]) \notin H
    <3>1. ~ (h <= Height(Parent[b]))
      BY <2>2, <2>4
    <3> HIDE DEF H
    <3>2. QED
      BY <2>1, <3>1
  <2>6. WorkOf[Parent[b]] \in Nat
    BY <2>4, <2>5
  <2>7. QED
    BY <1>9, <1>t, <2>2, <2>3, <2>6
<1>12. QED
  BY <1>9, <1>10, <1>11

EqualWork == \A b, c \in Block : Work[b] = Work[c]

\* If all blocks have the same work, a higher one has no less in total.
LEMMA WorkByHeight ==
    ASSUME EqualWork, NEW b \in Block, NEW c \in Block, Height(b) <= Height(c)
    PROVE  WorkOf[b] <= WorkOf[c]
<1>t. IsRooted /\ IsTree /\ Root \in Block /\ Work \in [Block -> Nat] /\ Parent \in [Block \ {Root} -> Block]
  BY Rooted, ChainAssumption
<1>0. \A x \in Block : Height(x) \in Nat /\ WorkOf[x] \in Nat
  BY <1>t, HeightRange, WorkOfRec
<1> DEFINE H == {h \in Nat : \E x, y \in Block : Height(x) = h /\ h <= Height(y) /\ ~(WorkOf[x] <= WorkOf[y])}
<1> SUFFICES ASSUME H # {} PROVE FALSE
  BY <1>0
<1>1. PICK h \in H : \A j \in H : h <= j
  BY LeastNat
<1>2. PICK x \in Block, y \in Block : Height(x) = h /\ h <= Height(y) /\ ~(WorkOf[x] <= WorkOf[y])
  OBVIOUS
<1>3. x # Root
  BY <1>0, <1>2, WorkOfRec
<1>4. Parent[x] \in Block /\ Height(x) = Height(Parent[x]) + 1 /\ Height(Parent[x]) \in Nat
  BY <1>0, <1>t, <1>3, HeightStep
<1>5. y # Root
  BY <1>0, <1>2, <1>4, <1>t, HeightRoot
<1>6. Parent[y] \in Block /\ Height(y) = Height(Parent[y]) + 1 /\ Height(Parent[y]) \in Nat
  BY <1>0, <1>t, <1>5, HeightStep
<1>7. Height(Parent[x]) \notin H
  <2>1. ~ (h <= Height(Parent[x]))
    BY <1>2, <1>4
  <2> HIDE DEF H
  <2>2. QED
    BY <1>1, <2>1
<1>8. Height(Parent[x]) <= Height(Parent[y])
  BY <1>2, <1>4, <1>6
<1>9. WorkOf[Parent[x]] <= WorkOf[Parent[y]]
  BY <1>4, <1>6, <1>7, <1>8
<1>10. WorkOf[x] = Work[x] + WorkOf[Parent[x]] /\ WorkOf[y] = Work[y] + WorkOf[Parent[y]] /\ Work[x] = Work[y]
  BY <1>3, <1>5, WorkOfRec DEF EqualWork
<1>11. QED
  BY <1>0, <1>2, <1>4, <1>6, <1>9, <1>10, <1>t

-----------------------------------------------------------------------------
(* The orders of an iteration, and the tree that loadBlockIndex builds *)

\* Orders is defined by recursion over the subsets.
LEMMA OrdersRec ==
    \A S \in SUBSET Block :
        Orders[S] = IF S = {} THEN {<<>>} ELSE UNION {{Append(o, x) : o \in Orders[S \ {x}]} : x \in S}
<1>t. IsFiniteSet(Block)
  BY ChainAssumption
<1> DEFINE Step(f, S) == IF S = {} THEN {<<>>} ELSE UNION {{Append(o, x) : o \in f[S \ {x}]} : x \in S}
           Is(f, h) == f = [S \in SUBSET Block |-> f[S]]
                       /\ \A S \in SUBSET Block : Cardinality(S) <= h => f[S] = Step(f, S)
<1>0. \A S \in SUBSET Block : IsFiniteSet(S) /\ Cardinality(S) \in Nat /\ Cardinality(S) <= Cardinality(Block)
  BY <1>t, FS_Subset, FS_CardinalityType
<1>c. \A S \in SUBSET Block : \A x \in S : S \ {x} \in SUBSET Block /\ Cardinality(S \ {x}) = Cardinality(S) - 1
  BY <1>0, FS_RemoveElement
<1>s. ASSUME NEW f, NEW g, NEW S \in SUBSET Block, \A x \in S : f[S \ {x}] = g[S \ {x}]
      PROVE  Step(f, S) = Step(g, S)
  <2>1. \A x \in S : {Append(o, x) : o \in f[S \ {x}]} = {Append(o, x) : o \in g[S \ {x}]}
    BY <1>s
  <2>2. ASSUME NEW e
        PROVE  e \in UNION {{Append(o, x) : o \in f[S \ {x}]} : x \in S}
               <=> e \in UNION {{Append(o, x) : o \in g[S \ {x}]} : x \in S}
    <3>1. e \in UNION {{Append(o, x) : o \in f[S \ {x}]} : x \in S}
          <=> \E x \in S : e \in {Append(o, x) : o \in f[S \ {x}]}
      OBVIOUS
    <3>2. e \in UNION {{Append(o, x) : o \in g[S \ {x}]} : x \in S}
          <=> \E x \in S : e \in {Append(o, x) : o \in g[S \ {x}]}
      OBVIOUS
    <3>3. QED
      BY <2>1, <3>1, <3>2, Zenon
  <2>3. UNION {{Append(o, x) : o \in f[S \ {x}]} : x \in S} = UNION {{Append(o, x) : o \in g[S \ {x}]} : x \in S}
    BY <2>2, Zenon
  <2>4. QED
    BY <2>3, Zenon
<1> HIDE DEF Step
<1>1. ASSUME NEW h \in Nat PROVE \E f : Is(f, h)
  <2> DEFINE bad == {k \in Nat : ~ \E f : Is(f, k)}
  <2> SUFFICES ASSUME bad # {} PROVE FALSE
    OBVIOUS
  <2>1. PICK k \in bad : \A j \in bad : k <= j
    BY LeastNat
  <2>2. CASE k = 0
    <3> DEFINE g == [S \in SUBSET Block |-> {<<>>}]
    <3>1. \A S \in SUBSET Block : Cardinality(S) <= 0 => S = {}
      BY <1>0, FS_EmptySet
    <3>2. \A S \in SUBSET Block : S = {} => g[S] = Step(g, S)
      BY DEF Step
    <3>3. g = [S \in SUBSET Block |-> g[S]]
      OBVIOUS
    <3> HIDE DEF g
    <3>4. Is(g, 0)
      BY <3>1, <3>2, <3>3
    <3>5. QED
      BY <2>1, <2>2, <3>4
  <2>3. CASE k # 0
    <3>1. k - 1 \in Nat /\ k - 1 \notin bad
      <4>1. k \in Nat
        OBVIOUS
      <4> HIDE DEF bad
      <4>2. QED
        BY <2>1, <2>3, <4>1
    <3>2. PICK f : Is(f, k - 1)
      BY <3>1
    <3> DEFINE g == [S \in SUBSET Block |-> Step(f, S)]
    <3>3. g = [S \in SUBSET Block |-> g[S]]
      OBVIOUS
    <3>4. \A S \in SUBSET Block : Cardinality(S) <= k - 1 => g[S] = f[S]
      BY <3>2
    <3>5. ASSUME NEW S \in SUBSET Block, Cardinality(S) <= k PROVE g[S] = Step(g, S)
      <4>1. \A x \in S : S \ {x} \in SUBSET Block /\ Cardinality(S \ {x}) <= k - 1
        BY <1>0, <1>c, <2>1, <3>5
      <4>2. \A x \in S : f[S \ {x}] = g[S \ {x}]
        <5> HIDE DEF g
        <5>1. QED
          BY <3>4, <4>1
      <4>3. g[S] = Step(f, S)
        OBVIOUS
      <4> HIDE DEF g
      <4>4. QED
        BY <1>s, <4>2, <4>3
    <3> HIDE DEF g
    <3>6. Is(g, k)
      BY <3>3, <3>5
    <3>7. QED
      BY <2>1, <3>6
  <2>4. QED
    BY <2>2, <2>3
<1>2. PICK f : Is(f, Cardinality(Block))
  <2>1. Cardinality(Block) \in Nat
    BY <1>t, FS_CardinalityType
  <2> HIDE DEF Is
  <2>2. QED
    BY <1>1, <2>1
<1> DEFINE Eq(e) == e = [S \in SUBSET Block |-> Step(e, S)]
<1>4. \A S \in SUBSET Block : f[S] = Step(f, S)
  BY <1>0, <1>2
<1>6. Eq(f)
  BY <1>2, <1>4
<1>7. Orders = CHOOSE e : Eq(e)
  BY DEF Orders, Step
<1>8. Eq(Orders)
  <2> HIDE DEF Eq
  <2>1. QED
    BY <1>6, <1>7
<1>9. \A S \in SUBSET Block : Orders[S] = Step(Orders, S)
  BY <1>8
<1>10. QED
  BY <1>9 DEF Step

\* o lists the elements of S, each one once.
Lists(o, S) ==
    /\ o \in Seq(Block) /\ \A i \in 1..Len(o) : o[i] \in S
    /\ \A x \in S : \E i \in 1..Len(o) : o[i] = x
    /\ \A i, j \in 1..Len(o) : o[i] = o[j] => i = j

LEMMA OrdersList ==
    ASSUME NEW S \in SUBSET Block, NEW o \in Orders[S]
    PROVE  Lists(o, S)
<1>t. \A T \in SUBSET Block : IsFiniteSet(T) /\ Cardinality(T) \in Nat
  BY ChainAssumption, FS_Subset, FS_CardinalityType
<1>c. \A T \in SUBSET Block : \A x \in T : T \ {x} \in SUBSET Block /\ Cardinality(T \ {x}) = Cardinality(T) - 1
  BY <1>t, FS_RemoveElement
<1> DEFINE H == {h \in Nat : \E T \in SUBSET Block : Cardinality(T) = h /\ \E p \in Orders[T] : ~Lists(p, T)}
<1> SUFFICES ASSUME H # {} PROVE FALSE
  BY <1>t
<1>1. PICK h \in H : \A j \in H : h <= j
  BY LeastNat
<1>2. PICK T \in SUBSET Block : Cardinality(T) = h /\ \E p \in Orders[T] : ~Lists(p, T)
  OBVIOUS
<1>3. PICK p \in Orders[T] : ~Lists(p, T)
  BY <1>2
<1>4. CASE T = {}
  <2>1. p = <<>>
    BY <1>3, <1>4, OrdersRec
  <2>2. Lists(<<>>, {})
    BY DEF Lists
  <2>3. QED
    BY <1>3, <1>4, <2>1, <2>2
<1>5. CASE T # {}
  <2>u. Orders[T] = UNION {{Append(o2, x) : o2 \in Orders[T \ {x}]} : x \in T}
    BY <1>5, OrdersRec
  <2>0. PICK x \in T : \E q \in Orders[T \ {x}] : p = Append(q, x)
    BY <1>3, <2>u
  <2>1. PICK q \in Orders[T \ {x}] : p = Append(q, x)
    BY <2>0
  <2>2. T \ {x} \in SUBSET Block /\ Cardinality(T \ {x}) = h - 1 /\ h \in Nat
    BY <1>2, <1>c, <1>t
  <2>3. h - 1 \in Nat
    BY <1>t, <2>2
  <2>4. h - 1 \notin H
    <3> HIDE DEF H
    <3>1. QED
      BY <1>1, <2>2
  <2>5. Lists(q, T \ {x})
    BY <2>1, <2>2, <2>3, <2>4
  <2>6. /\ p \in Seq(Block) /\ Len(p) = Len(q) + 1 /\ Len(q) \in Nat
        /\ \A i \in 1..Len(q) : p[i] = q[i]
        /\ p[Len(q) + 1] = x
    <3>1. q \in Seq(Block) /\ x \in Block
      BY <2>5 DEF Lists
    <3>2. QED
      BY <2>1, <3>1
  <2>7. Lists(p, T)
    <3>1. \A i \in 1..Len(q) : p[i] \in T /\ p[i] # x
      BY <2>5, <2>6 DEF Lists
    <3>2. \A i \in 1..Len(p) : i \in 1..Len(q) \/ i = Len(q) + 1
      BY <2>6
    <3>3. \A i \in 1..Len(p) : p[i] \in T
      BY <2>6, <3>1, <3>2
    <3>4. ASSUME NEW y \in T PROVE \E i \in 1..Len(p) : p[i] = y
      <4>1. CASE y = x
        BY <2>6, <4>1
      <4>2. CASE y # x
        <5>1. PICK i \in 1..Len(q) : q[i] = y
          BY <2>5, <4>2 DEF Lists
        <5>2. i \in 1..Len(p) /\ p[i] = y
          BY <2>6, <5>1
        <5>3. QED
          BY <5>2
      <4>3. QED
        BY <4>1, <4>2
    <3>5. ASSUME NEW i \in 1..Len(p), NEW j \in 1..Len(p), p[i] = p[j] PROVE i = j
      <4>1. CASE i \in 1..Len(q) /\ j \in 1..Len(q)
        BY <2>5, <2>6, <3>5, <4>1 DEF Lists
      <4>2. QED
        BY <2>6, <3>1, <3>2, <3>5, <4>1
    <3>6. QED
      BY <2>6, <3>3, <3>4, <3>5 DEF Lists
  <2>8. QED
    BY <1>3, <2>7
<1>6. QED
  BY <1>4, <1>5

\* One node of the iteration of loadBlockIndex.
LoadStep(m, c) ==
    IF Parent[c] \in m.index THEN [m EXCEPT !.childs[Parent[c]] = Append(@, c)]
    ELSE [m EXCEPT !.index = @ \ {c}]

LEMMA LoadingRec ==
    ASSUME NEW disk, NEW order, Len(order) \in Nat
    PROVE  \A i \in 0..Len(order) : Loading(disk, order)[i] =
              IF i = 0 THEN [index |-> disk, childs |-> [b \in Block |-> <<>>]]
              ELSE LoadStep(Loading(disk, order)[i - 1], order[i])
<1> DEFINE none == [index |-> disk, childs |-> [b \in Block |-> <<>>]]
           Is(f, n) == f = [i \in 0..n |-> IF i = 0 THEN none ELSE LoadStep(f[i - 1], order[i])]
           load == Loading(disk, order)
<1>2. load = CHOOSE f : Is(f, Len(order))
  BY DEF Loading, LoadStep
<1> HIDE DEF none
<1>1. ASSUME NEW n \in Nat PROVE \E f : Is(f, n)
  <2> DEFINE bad == {k \in Nat : ~ \E f : Is(f, k)}
  <2> SUFFICES ASSUME bad # {} PROVE FALSE
    OBVIOUS
  <2>1. PICK k \in bad : \A j \in bad : k <= j
    BY LeastNat
  <2>2. CASE k = 0
    <3>1. Is([i \in 0..0 |-> none], 0)
      OBVIOUS
    <3>2. QED
      BY <2>1, <2>2, <3>1
  <2>3. CASE k # 0
    <3>1. k - 1 \in Nat /\ k - 1 \notin bad
      <4>1. k \in Nat
        OBVIOUS
      <4> HIDE DEF bad
      <4>2. QED
        BY <2>1, <2>3, <4>1
    <3>2. PICK f : Is(f, k - 1)
      BY <3>1
    <3> DEFINE g == [i \in 0..k |-> IF i = k THEN LoadStep(f[k - 1], order[k]) ELSE f[i]]
    <3>3. \A i \in 0..(k - 1) : g[i] = f[i] /\ f[i] = IF i = 0 THEN none ELSE LoadStep(f[i - 1], order[i])
      BY <2>1, <3>2
    <3>4. ASSUME NEW i \in 0..k PROVE g[i] = IF i = 0 THEN none ELSE LoadStep(g[i - 1], order[i])
      <4>1. CASE i = k
        <5>1. g[i] = LoadStep(f[k - 1], order[k]) /\ k - 1 \in 0..(k - 1)
          BY <2>1, <2>3, <4>1
        <5>2. QED
          BY <2>3, <3>3, <4>1, <5>1
      <4>2. CASE i # k
        <5>1. i \in 0..(k - 1) /\ (i # 0 => i - 1 \in 0..(k - 1))
          BY <2>1, <4>2
        <5>2. QED
          BY <3>3, <5>1
      <4>3. QED
        BY <4>1, <4>2
    <3>5. g = [i \in 0..k |-> g[i]]
      OBVIOUS
    <3> HIDE DEF g
    <3>6. Is(g, k)
      BY <3>4, <3>5
    <3>7. QED
      BY <2>1, <3>6
  <2>4. QED
    BY <2>2, <2>3
<1>3. Is(load, Len(order))
  <2> HIDE DEF Is, load
  <2>1. QED
    BY <1>1, <1>2
<1> HIDE DEF load
<1>4. \A i \in 0..Len(order) : load[i] = IF i = 0 THEN none ELSE LoadStep(load[i - 1], order[i])
  BY <1>3
<1>5. QED
  BY <1>4 DEF load, none

Linked(childs, n, c) == \E k \in DOMAIN childs[n] : childs[n][k] = c

\* The children of a node have it as their parent, and each is there once.
GoodEdges(childs) ==
    \A n \in Block :
        /\ \A k \in DOMAIN childs[n] : childs[n][k] # Root /\ Parent[childs[n][k]] = n
        /\ \A k, l \in DOMAIN childs[n] : childs[n][k] = childs[n][l] => k = l

\* What holds after i nodes of the iteration.
LoadedTill(m, disk, order, i) ==
    /\ m \in [index : SUBSET Block, childs : [Block -> Seq(Block)]]
    /\ m.index \subseteq disk /\ Root \in m.index
    /\ \A j \in 1..Len(order) : j > i => order[j] \in m.index
    /\ GoodEdges(m.childs)
    /\ \A n \in Block : \A k \in DOMAIN m.childs[n] :
          m.childs[n][k] \in m.index /\ \E j \in 1..i : m.childs[n][k] = order[j]
    /\ \A j \in 1..i : order[j] \in m.index => Linked(m.childs, Parent[order[j]], order[j])
    /\ \A n \in Block : DOMAIN m.childs[n] # {} => n \in disk
    /\ \A G \in SUBSET disk : (\A x \in G \ {Root} : Parent[x] \in G) => G \subseteq m.index

WithEdge(ch, c) == [ch EXCEPT ![Parent[c]] = Append(@, c)]

\* ch2 is ch with c as one more child of its parent.
IsWithEdge(ch2, ch, c) ==
    /\ ch2 \in [Block -> Seq(Block)] /\ GoodEdges(ch2)
    /\ \A n \in Block : \A x \in Block : Linked(ch2, n, x) <=> Linked(ch, n, x) \/ (n = Parent[c] /\ x = c)
    /\ \A n \in Block : \A k \in DOMAIN ch2[n] :
          (k \in DOMAIN ch[n] /\ ch2[n][k] = ch[n][k]) \/ ch2[n][k] = c

LEMMA AppendEdge ==
    ASSUME NEW ch \in [Block -> Seq(Block)], NEW c \in Block, c # Root, GoodEdges(ch), ~Linked(ch, Parent[c], c)
    PROVE  IsWithEdge(WithEdge(ch, c), ch, c)
<1> DEFINE ch2 == WithEdge(ch, c)
<1>0. Parent[c] \in Block
  BY ChainAssumption
<1>1. PICK s \in Seq(Block) : s = ch[Parent[c]]
  BY <1>0
<1>2. PICK t : t = Append(s, c)
  OBVIOUS
<1>3. /\ t \in Seq(Block) /\ DOMAIN s = 1..Len(s) /\ DOMAIN t = 1..(Len(s) + 1) /\ Len(s) \in Nat
      /\ t[Len(s) + 1] = c /\ \A i \in 1..Len(s) : t[i] = s[i]
  BY <1>1, <1>2
<1>4. ch2 = [ch EXCEPT ![Parent[c]] = t] /\ ch2[Parent[c]] = t /\ \A n \in Block : n # Parent[c] => ch2[n] = ch[n]
  BY <1>0, <1>1, <1>2 DEF WithEdge
<1> HIDE DEF ch2
<1>5. ch2 \in [Block -> Seq(Block)]
  BY <1>3, <1>4
<1>6. \A n \in Block : \A k \in DOMAIN ch2[n] : (k \in DOMAIN ch[n] /\ ch2[n][k] = ch[n][k]) \/ (ch2[n][k] = c /\ n = Parent[c] /\ k = Len(s) + 1)
  <2> TAKE n \in Block
  <2> TAKE k \in DOMAIN ch2[n]
  <2>1. CASE n # Parent[c]
    BY <1>4, <2>1
  <2>2. CASE n = Parent[c]
    <3>1. k \in 1..(Len(s) + 1) /\ ch2[n] = t /\ ch[n] = s
      BY <1>1, <1>3, <1>4, <2>2
    <3>2. k \in 1..Len(s) \/ k = Len(s) + 1
      BY <1>3, <3>1
    <3>3. QED
      BY <1>3, <2>2, <3>1, <3>2
  <2>3. QED
    BY <2>1, <2>2
<1>7. \A n \in Block : \A k \in DOMAIN ch[n] : k \in DOMAIN ch2[n] /\ ch2[n][k] = ch[n][k]
  <2> TAKE n \in Block
  <2> TAKE k \in DOMAIN ch[n]
  <2>1. CASE n # Parent[c]
    BY <1>4, <2>1
  <2>2. CASE n = Parent[c]
    <3>1. k \in 1..Len(s) /\ ch2[n] = t /\ ch[n] = s
      BY <1>1, <1>3, <1>4, <2>2
    <3>2. k \in 1..(Len(s) + 1)
      BY <1>3, <3>1
    <3>3. QED
      BY <1>3, <3>1, <3>2
  <2>3. QED
    BY <2>1, <2>2
<1>8. Linked(ch2, Parent[c], c)
  <2>1. Len(s) + 1 \in 1..(Len(s) + 1)
    BY <1>3
  <2>2. QED
    BY <1>3, <1>4, <2>1 DEF Linked
<1>9. \A n \in Block : \A x \in Block : Linked(ch2, n, x) <=> Linked(ch, n, x) \/ (n = Parent[c] /\ x = c)
  BY <1>6, <1>7, <1>8 DEF Linked
<1>10. GoodEdges(ch2)
  <2>1. ASSUME NEW n \in Block, NEW k \in DOMAIN ch2[n] PROVE ch2[n][k] # Root /\ Parent[ch2[n][k]] = n
    <3>1. CASE k \in DOMAIN ch[n] /\ ch2[n][k] = ch[n][k]
      BY <3>1 DEF GoodEdges
    <3>2. CASE ch2[n][k] = c /\ n = Parent[c]
      BY <3>2
    <3>3. QED
      BY <1>6, <3>1, <3>2
  <2>2. ASSUME NEW n \in Block, NEW k \in DOMAIN ch2[n], NEW l \in DOMAIN ch2[n], ch2[n][k] = ch2[n][l] PROVE k = l
    <3>1. CASE k \in DOMAIN ch[n] /\ l \in DOMAIN ch[n] /\ ch2[n][k] = ch[n][k] /\ ch2[n][l] = ch[n][l]
      BY <2>2, <3>1 DEF GoodEdges
    <3>2. CASE k \in DOMAIN ch[n] /\ ch2[n][k] = ch[n][k] /\ ch2[n][l] = c /\ n = Parent[c]
      BY <2>2, <3>2 DEF Linked
    <3>3. CASE l \in DOMAIN ch[n] /\ ch2[n][l] = ch[n][l] /\ ch2[n][k] = c /\ n = Parent[c]
      BY <2>2, <3>3 DEF Linked
    <3>4. QED
      BY <1>6, <3>1, <3>2, <3>3
  <2>3. QED
    BY <2>1, <2>2 DEF GoodEdges
<1>11. QED
  BY <1>5, <1>6, <1>9, <1>10 DEF ch2, IsWithEdge

LEMMA LoadingTill ==
    ASSUME NEW disk \in SUBSET Block, Root \in disk, NEW order, Lists(order, disk \ {Root})
    PROVE  LoadedTill(Loading(disk, order)[Len(order)], disk, order, Len(order))
<1> DEFINE load == Loading(disk, order)
           bad == {k \in 0..Len(order) : ~LoadedTill(load[k], disk, order, k)}
<1>0. order \in Seq(Block) /\ Len(order) \in Nat /\ \A i \in 1..Len(order) : order[i] \in disk \ {Root}
  BY DEF Lists
<1>1. SUFFICES ASSUME bad # {} PROVE FALSE
  BY <1>0
<1>2. \A i \in 0..Len(order) : load[i] = IF i = 0 THEN [index |-> disk, childs |-> [b \in Block |-> <<>>]]
                                         ELSE LoadStep(load[i - 1], order[i])
  BY <1>0, LoadingRec
<1> HIDE DEF load
<1>3. PICK k \in bad : \A j \in bad : k <= j
  <2>1. bad \in SUBSET Nat
    BY <1>0
  <2> HIDE DEF bad
  <2>2. QED
    BY <1>1, <2>1, LeastNat
<1>4. k \in 0..Len(order) /\ ~LoadedTill(load[k], disk, order, k)
  OBVIOUS
<1>5. CASE k = 0
  <2>1. load[k] = [index |-> disk, childs |-> [b \in Block |-> <<>>]]
    BY <1>2, <1>4, <1>5
  <2>2. load[k].index = disk /\ load[k].childs = [b \in Block |-> <<>>] /\ \A n \in Block : load[k].childs[n] = <<>>
    BY <2>1
  <2>3. [b \in Block |-> <<>>] \in [Block -> Seq(Block)]
    OBVIOUS
  <2>4. load[k] \in [index : SUBSET Block, childs : [Block -> Seq(Block)]]
    BY <2>1, <2>3
  <2>5. \A n \in Block : DOMAIN load[k].childs[n] = {}
    BY <2>2
  <2>6. GoodEdges(load[k].childs)
    BY <2>5 DEF GoodEdges
  <2>7. LoadedTill(load[k], disk, order, k)
    BY <1>0, <1>5, <2>2, <2>4, <2>5, <2>6 DEF LoadedTill
  <2>8. QED
    BY <1>4, <2>7
<1>6. CASE k # 0
  <2>1. k - 1 \in 0..Len(order) /\ k - 1 \notin bad /\ k \in 1..Len(order)
    <3>1. k - 1 \in 0..Len(order) /\ k \in 1..Len(order) /\ ~(k <= k - 1)
      BY <1>0, <1>4, <1>6
    <3> HIDE DEF bad
    <3>2. QED
      BY <1>3, <3>1
  <2>2. PICK m : m = load[k - 1]
    OBVIOUS
  <2>3. LoadedTill(m, disk, order, k - 1)
    BY <2>1, <2>2
  <2>4. PICK c : c = order[k]
    OBVIOUS
  <2>5. c \in Block \ {Root} /\ c \in disk /\ Parent[c] \in Block
    BY <1>0, <2>1, <2>4, ChainAssumption
  <2>6. PICK r : r = load[k]
    OBVIOUS
  <2>7. r = LoadStep(m, c)
    BY <1>2, <1>4, <1>6, <2>2, <2>4, <2>6
  <2>8. m \in [index : SUBSET Block, childs : [Block -> Seq(Block)]]
    BY <2>3 DEF LoadedTill
  <2>9. \A j \in 1..k : j \in 1..(k - 1) \/ j = k
    BY <2>1
  <2>10. \A j \in 1..(k - 1) : order[j] # c /\ j \in 1..Len(order) /\ j \in 1..k
    <3>1. \A j \in 1..(k - 1) : j \in 1..Len(order) /\ j # k /\ j \in 1..k
      BY <1>0, <2>1
    <3>2. QED
      BY <2>1, <2>4, <3>1 DEF Lists
  <2>11. k - 1 \in Nat /\ k \in Nat /\ \A j \in 1..Len(order) : j > k => j > k - 1 /\ order[j] # c
    <3>1. k - 1 \in Nat /\ k \in Nat /\ \A j \in 1..Len(order) : j > k => j > k - 1 /\ j # k
      BY <1>0, <2>1
    <3>2. QED
      BY <2>1, <2>4, <3>1 DEF Lists
  <2>12. CASE Parent[c] \in m.index
    <3>1. PICK ch2 : ch2 = WithEdge(m.childs, c)
      OBVIOUS
    <3>2. r = [m EXCEPT !.childs = ch2]
      BY <2>7, <2>12, <3>1 DEF LoadStep, WithEdge
    <3>3. r.index = m.index /\ r.childs = ch2
      BY <2>8, <3>2
    <3>4. ~Linked(m.childs, Parent[c], c)
      <4>1. \A l \in DOMAIN m.childs[Parent[c]] : \E j \in 1..(k - 1) : m.childs[Parent[c]][l] = order[j]
        BY <2>3, <2>5 DEF LoadedTill
      <4>2. \A l \in DOMAIN m.childs[Parent[c]] : m.childs[Parent[c]][l] # c
        BY <2>10, <4>1
      <4>3. QED
        BY <4>2 DEF Linked
    <3>5. /\ ch2 \in [Block -> Seq(Block)] /\ GoodEdges(ch2)
          /\ \A n \in Block : \A x \in Block : Linked(ch2, n, x) <=> Linked(m.childs, n, x) \/ (n = Parent[c] /\ x = c)
          /\ \A n \in Block : \A l \in DOMAIN ch2[n] :
                 (l \in DOMAIN m.childs[n] /\ ch2[n][l] = m.childs[n][l]) \/ ch2[n][l] = c
      <4>1. PICK ch \in [Block -> Seq(Block)] : ch = m.childs
        BY <2>8
      <4>2. GoodEdges(ch) /\ ~Linked(ch, Parent[c], c) /\ ch2 = WithEdge(ch, c) /\ c \in Block /\ c # Root
        BY <2>3, <2>5, <3>1, <3>4, <4>1 DEF LoadedTill
      <4>3. IsWithEdge(ch2, ch, c)
        BY <4>1, <4>2, AppendEdge
      <4>4. QED
        BY <4>1, <4>3 DEF IsWithEdge
    <3>6. c \in m.index
      BY <2>1, <2>3, <2>4, <2>11 DEF LoadedTill
    <3>7. r \in [index : SUBSET Block, childs : [Block -> Seq(Block)]]
      BY <2>8, <3>2, <3>5
    <3>8. \A n \in Block : \A l \in DOMAIN ch2[n] : ch2[n][l] \in m.index /\ \E j \in 1..k : ch2[n][l] = order[j]
      <4> TAKE n \in Block
      <4> TAKE l \in DOMAIN ch2[n]
      <4>1. CASE ch2[n][l] = c
        <5>1. k \in 1..k
          BY <2>1
        <5>2. QED
          BY <2>4, <3>6, <4>1, <5>1
      <4>2. CASE l \in DOMAIN m.childs[n] /\ ch2[n][l] = m.childs[n][l]
        <5>1. m.childs[n][l] \in m.index /\ \E j \in 1..(k - 1) : m.childs[n][l] = order[j]
          BY <2>3, <4>2 DEF LoadedTill
        <5>2. QED
          BY <2>10, <4>2, <5>1
      <4>3. QED
        BY <3>5, <4>1, <4>2
    <3>9. ASSUME NEW j \in 1..k, order[j] \in m.index PROVE Linked(ch2, Parent[order[j]], order[j])
      <4>1. CASE j = k
        BY <2>4, <2>5, <3>5, <4>1
      <4>2. CASE j \in 1..(k - 1)
        <5>1. order[j] \in Block /\ Parent[order[j]] \in Block
          BY <1>0, <2>10, <4>2, ChainAssumption
        <5>2. Linked(m.childs, Parent[order[j]], order[j])
          BY <2>3, <3>9, <4>2 DEF LoadedTill
        <5>3. QED
          BY <3>5, <5>1, <5>2
      <4>3. QED
        BY <2>9, <4>1, <4>2
    <3>10. /\ m.index \subseteq disk /\ Root \in m.index
           /\ \A j \in 1..Len(order) : j > k => order[j] \in m.index
           /\ \A G \in SUBSET disk : (\A x \in G \ {Root} : Parent[x] \in G) => G \subseteq m.index
      BY <2>3, <2>11 DEF LoadedTill
    <3>13. \A n \in Block : DOMAIN ch2[n] # {} => n \in disk
      <4> TAKE n \in Block
      <4> HAVE DOMAIN ch2[n] # {}
      <4>1. CASE n = Parent[c]
        BY <2>12, <3>10, <4>1
      <4>2. CASE n # Parent[c]
        <5>1. ch2[n] = m.childs[n]
          BY <2>5, <2>8, <3>1, <4>2 DEF WithEdge
        <5>2. QED
          BY <2>3, <5>1 DEF LoadedTill
      <4>3. QED
        BY <4>1, <4>2
    <3>14. /\ r \in [index : SUBSET Block, childs : [Block -> Seq(Block)]]
           /\ r.index \subseteq disk /\ Root \in r.index
           /\ \A j \in 1..Len(order) : j > k => order[j] \in r.index
           /\ GoodEdges(r.childs)
      BY <3>3, <3>5, <3>7, <3>10
    <3>15. /\ \A n \in Block : \A l \in DOMAIN r.childs[n] :
                r.childs[n][l] \in r.index /\ \E j \in 1..k : r.childs[n][l] = order[j]
           /\ \A j \in 1..k : order[j] \in r.index => Linked(r.childs, Parent[order[j]], order[j])
      BY <3>3, <3>8, <3>9
    <3>16. /\ \A n \in Block : DOMAIN r.childs[n] # {} => n \in disk
           /\ \A G \in SUBSET disk : (\A x \in G \ {Root} : Parent[x] \in G) => G \subseteq r.index
      BY <3>3, <3>10, <3>13
    <3>11. LoadedTill(r, disk, order, k)
      BY <3>14, <3>15, <3>16 DEF LoadedTill
    <3>12. QED
      BY <1>4, <2>6, <3>11
  <2>13. CASE Parent[c] \notin m.index
    <3>1. r = [m EXCEPT !.index = @ \ {c}]
      BY <2>7, <2>13 DEF LoadStep
    <3>2. r.index = m.index \ {c} /\ r.childs = m.childs /\ r \in [index : SUBSET Block, childs : [Block -> Seq(Block)]]
      BY <2>8, <3>1
    <3>3. GoodEdges(m.childs) /\ m.index \subseteq disk /\ Root \in m.index
      BY <2>3 DEF LoadedTill
    <3>4. \A j \in 1..Len(order) : j > k => order[j] \in r.index
      BY <2>3, <2>11, <3>2 DEF LoadedTill
    <3>5. \A n \in Block : \A l \in DOMAIN m.childs[n] :
             m.childs[n][l] \in r.index /\ \E j \in 1..k : m.childs[n][l] = order[j]
      <4> TAKE n \in Block
      <4> TAKE l \in DOMAIN m.childs[n]
      <4>1. m.childs[n][l] \in m.index /\ \E j \in 1..(k - 1) : m.childs[n][l] = order[j]
        BY <2>3 DEF LoadedTill
      <4>2. QED
        BY <2>10, <3>2, <4>1
    <3>6. \A j \in 1..k : order[j] \in r.index => Linked(m.childs, Parent[order[j]], order[j])
      BY <2>3, <2>4, <2>9, <3>2 DEF LoadedTill
    <3>7. \A G \in SUBSET disk : (\A x \in G \ {Root} : Parent[x] \in G) => G \subseteq r.index
      <4> TAKE G \in SUBSET disk
      <4> HAVE \A x \in G \ {Root} : Parent[x] \in G
      <4>1. G \subseteq m.index
        BY <2>3 DEF LoadedTill
      <4>2. c \notin G
        BY <2>5, <2>13, <4>1
      <4>3. QED
        BY <3>2, <4>1, <4>2
    <3>10. \A n \in Block : DOMAIN m.childs[n] # {} => n \in disk
      BY <2>3 DEF LoadedTill
    <3>8. LoadedTill(r, disk, order, k)
      BY <2>5, <3>2, <3>3, <3>4, <3>5, <3>6, <3>7, <3>10 DEF LoadedTill
    <3>9. QED
      BY <1>4, <2>6, <3>8
  <2>14. QED
    BY <2>12, <2>13
<1>7. QED
  BY <1>5, <1>6

\* The tree that is loaded from the blocks of disk.
IsLoaded(tree, disk) ==
    /\ tree.index \in SUBSET disk /\ Root \in tree.index
    /\ tree.childs \in [Block -> Seq(Block)] /\ GoodEdges(tree.childs)
    /\ \A n \in Block : \A k \in DOMAIN tree.childs[n] : tree.childs[n][k] \in tree.index
    /\ \A c \in tree.index \ {Root} : Linked(tree.childs, Parent[c], c)
    /\ \A n \in Block : DOMAIN tree.childs[n] # {} => n \in disk
    /\ \A G \in SUBSET disk : (\A x \in G \ {Root} : Parent[x] \in G) => G \subseteq tree.index
    /\ (\A c \in disk \ {Root} : Parent[c] \in disk) => tree.index = disk

LEMMA LoadedTree ==
    ASSUME NEW disk \in SUBSET Block, Root \in disk, NEW order \in Orders[disk \ {Root}]
    PROVE  IsLoaded(Loading(disk, order)[Len(order)], disk)
<1>0. PICK tree : tree = Loading(disk, order)[Len(order)]
  OBVIOUS
<1>1. Lists(order, disk \ {Root})
  BY OrdersList
<1>2. LoadedTill(tree, disk, order, Len(order))
  BY <1>0, <1>1, LoadingTill
<1>3. tree \in [index : SUBSET Block, childs : [Block -> Seq(Block)]]
  BY <1>2 DEF LoadedTill
<1>4. \A c \in tree.index \ {Root} : Linked(tree.childs, Parent[c], c)
  <2> TAKE c \in tree.index \ {Root}
  <2>1. c \in disk \ {Root}
    BY <1>2 DEF LoadedTill
  <2>2. PICK j \in 1..Len(order) : order[j] = c
    BY <1>1, <2>1 DEF Lists
  <2>3. QED
    BY <1>2, <2>2 DEF LoadedTill
<1>5. (\A c \in disk \ {Root} : Parent[c] \in disk) => tree.index = disk
  <2> HAVE \A c \in disk \ {Root} : Parent[c] \in disk
  <2>1. disk \in SUBSET disk
    OBVIOUS
  <2>2. QED
    BY <1>2, <2>1 DEF LoadedTill
<1>6. IsLoaded(tree, disk)
  BY <1>2, <1>3, <1>4, <1>5 DEF LoadedTill, IsLoaded
<1>7. QED
  BY <1>0, <1>6

\* loadBlockIndex puts such a tree in place.
LEMMA LoadIs ==
    ASSUME LoadBlockIndex, NEW disk, disk = {Root} \cup {b \in Block : BS!Has(b)}
    PROVE  \E tree :
              /\ IsLoaded(tree, disk) /\ disk \in SUBSET Block /\ Root \in disk
              /\ BlockIndex' = tree.index /\ Childs' = tree.childs /\ announced' = tree.index
              /\ hasData' = [b \in Block |-> b \in tree.index /\ BS!Has(b)]
              /\ IF saved \in tree.index THEN mode' = "starting" /\ last' = saved
                 ELSE Panic("Last Block Hash not found") /\ UNCHANGED last
<1>1. disk \in SUBSET Block /\ Root \in disk
  BY Rooted
<1>2. PICK order \in Orders[disk \ {Root}] :
            LET tree == Loading(disk, order)[Len(order)]
            IN  /\ BlockIndex' = tree.index
                /\ Childs' = tree.childs
                /\ announced' = tree.index
                /\ hasData' = [b \in Block |-> b \in tree.index /\ BS!Has(b)]
                /\ IF saved \in tree.index THEN mode' = "starting" /\ last' = saved
                   ELSE Panic("Last Block Hash not found") /\ UNCHANGED last
  BY DEF LoadBlockIndex
<1>3. PICK tree : tree = Loading(disk, order)[Len(order)]
  OBVIOUS
<1>4. IsLoaded(tree, disk)
  <2>1. order \in Orders[disk \ {Root}]
    BY <1>2
  <2>2. QED
    BY <1>1, <1>3, <2>1, LoadedTree
<1>5. QED
  BY <1>1, <1>2, <1>3, <1>4

-----------------------------------------------------------------------------
(* Changes of the lists of children *)

\* A header: c becomes a child, and has no children itself.
IsWithChild(ch2, ch, c) ==
    /\ ch2 \in [Block -> Seq(Block)] /\ GoodEdges(ch2)
    /\ \A n \in Block : \A x \in Block :
          Linked(ch2, n, x) <=> (n # c /\ Linked(ch, n, x)) \/ (n = Parent[c] /\ x = c)

LEMMA WithChildTree ==
    ASSUME Childs \in [Block -> Seq(Block)], GoodEdges(Childs), NEW c \in Block, c # Root,
           ~Linked(Childs, Parent[c], c)
    PROVE  IsWithChild(WithChild(Parent[c], c), Childs, c)
<1> DEFINE ch1 == WithEdge(Childs, c)
           ch2 == WithChild(Parent[c], c)
<1>1. Parent[c] \in Block /\ Parent[c] # c
  <2>1. c \notin AncOf[Parent[c]] /\ Parent[c] \in Block
    BY Rooted, AncAcyclic, ChainAssumption
  <2>2. QED
    BY <2>1, AncSelf
<1>2. IsWithEdge(ch1, Childs, c)
  <2>1. PICK ch \in [Block -> Seq(Block)] : ch = Childs
    OBVIOUS
  <2>2. IsWithEdge(WithEdge(ch, c), ch, c)
    BY <2>1, AppendEdge
  <2>3. QED
    BY <2>1, <2>2
<1>3. ch1 \in [Block -> Seq(Block)] /\ GoodEdges(ch1)
  BY <1>2 DEF IsWithEdge
<1>4. ch2 = [ch1 EXCEPT ![c] = <<>>]
  BY <1>1 DEF WithChild, WithEdge
<1> HIDE DEF ch1, ch2
<1>5. ch2 \in [Block -> Seq(Block)] /\ ch2[c] = <<>> /\ \A n \in Block : n # c => ch2[n] = ch1[n]
  BY <1>3, <1>4
<1>6. DOMAIN ch2[c] = {}
  BY <1>5
<1>7. \A n \in Block : \A x \in Block : Linked(ch2, n, x) <=> n # c /\ Linked(ch1, n, x)
  BY <1>5, <1>6 DEF Linked
<1>8. \A n \in Block : \A x \in Block : Linked(ch2, n, x) <=> (n # c /\ Linked(Childs, n, x)) \/ (n = Parent[c] /\ x = c)
  BY <1>1, <1>2, <1>7 DEF IsWithEdge
<1>9. GoodEdges(ch2)
  <2>1. ASSUME NEW n \in Block
        PROVE  /\ \A k \in DOMAIN ch2[n] : ch2[n][k] # Root /\ Parent[ch2[n][k]] = n
               /\ \A k, l \in DOMAIN ch2[n] : ch2[n][k] = ch2[n][l] => k = l
    <3>1. CASE n = c
      BY <1>6, <3>1
    <3>2. CASE n # c
      <4>1. ch2[n] = ch1[n]
        BY <1>5, <3>2
      <4>2. /\ \A k \in DOMAIN ch1[n] : ch1[n][k] # Root /\ Parent[ch1[n][k]] = n
            /\ \A k, l \in DOMAIN ch1[n] : ch1[n][k] = ch1[n][l] => k = l
        BY <1>3 DEF GoodEdges
      <4>3. QED
        BY <4>1, <4>2
    <3>3. QED
      BY <3>1, <3>2
  <2>2. QED
    BY <2>1 DEF GoodEdges
<1>10. IsWithChild(ch2, Childs, c)
  BY <1>5, <1>8, <1>9 DEF IsWithChild
<1>11. QED
  BY <1>10 DEF ch2

\* delChild: c is no child of n any more.
IsWithoutChild(ch2, ch, n, c) ==
    /\ ch2 \in [Block -> Seq(Block)] /\ GoodEdges(ch2)
    /\ \A m \in Block : \A x \in Block : Linked(ch2, m, x) <=> Linked(ch, m, x) /\ ~(m = n /\ x = c)

LEMMA WithoutChildTree ==
    ASSUME Childs \in [Block -> Seq(Block)], GoodEdges(Childs), NEW n \in Block, NEW c \in Block, HasChild(n, c)
    PROVE  IsWithoutChild(WithoutChild(n, c), Childs, n, c)
<1>1. PICK s \in Seq(Block) : s = Childs[n]
  OBVIOUS
<1>2. PICK p : p = Position(c, s)
  OBVIOUS
<1>3. p \in DOMAIN s /\ s[p] = c /\ p \in Nat
  BY <1>1, <1>2, PositionIn DEF HasChild
<1>4. PICK t : t = [i \in 1..(Len(s) - 1) |-> s[IF i < p THEN i ELSE i + 1]]
  OBVIOUS
<1>5. DOMAIN s = 1..Len(s) /\ Len(s) \in Nat /\ Len(s) - 1 \in Nat /\ p \in 1..Len(s)
  BY <1>1, <1>3
<1>6. \A i \in 1..(Len(s) - 1) : (IF i < p THEN i ELSE i + 1) \in 1..Len(s)
  BY <1>5
<1>7. t \in Seq(Block) /\ DOMAIN t = 1..(Len(s) - 1)
  <2>1. \A i \in 1..Len(s) : s[i] \in Block
    BY <1>1
  <2>2. t \in [1..(Len(s) - 1) -> Block]
    BY <1>4, <1>6, <2>1
  <2>3. t \in Seq(Block)
    <3>1. PICK m \in Nat : m = Len(s) - 1
      BY <1>5
    <3>2. t \in [1..m -> Block]
      BY <2>2, <3>1
    <3>3. Seq(Block) = UNION {[1..i -> Block] : i \in Nat}
      BY SeqDef, Zenon
    <3>4. QED
      BY <3>2, <3>3, Zenon
  <2>4. QED
    BY <2>2, <2>3
<1> DEFINE ch2 == WithoutChild(n, c)
<1>8. ch2 = [Childs EXCEPT ![n] = t]
  BY <1>1, <1>2, <1>4 DEF WithoutChild
<1> HIDE DEF ch2
<1>9. ch2 \in [Block -> Seq(Block)] /\ ch2[n] = t /\ \A m \in Block : m # n => ch2[m] = Childs[m]
  BY <1>7, <1>8
<1>10. \A i \in DOMAIN t : t[i] = s[IF i < p THEN i ELSE i + 1] /\ (IF i < p THEN i ELSE i + 1) # p /\ i \in Nat
  <2>1. \A i \in DOMAIN t : t[i] = s[IF i < p THEN i ELSE i + 1]
    BY <1>4, <1>7
  <2>2. \A i \in 1..(Len(s) - 1) : (IF i < p THEN i ELSE i + 1) # p /\ i \in Nat
    BY <1>5
  <2>3. QED
    BY <1>7, <2>1, <2>2
<1>11. \A i, j \in DOMAIN s : s[i] = s[j] => i = j
  BY <1>1 DEF GoodEdges
<1>12. \A i \in DOMAIN t : t[i] # c /\ \E j \in DOMAIN s : t[i] = s[j]
  <2> TAKE i \in DOMAIN t
  <2>1. PICK j : j = IF i < p THEN i ELSE i + 1
    OBVIOUS
  <2>2. j \in DOMAIN s /\ t[i] = s[j] /\ j # p
    BY <1>5, <1>6, <1>7, <1>10, <2>1
  <2>3. QED
    BY <1>3, <1>11, <2>2
<1>13. ASSUME NEW j \in DOMAIN s, s[j] # c PROVE \E i \in DOMAIN t : t[i] = s[j]
  <2>1. j # p /\ j \in 1..Len(s)
    BY <1>3, <1>5, <1>13
  <2>2. CASE j < p
    <3>1. j \in 1..(Len(s) - 1)
      BY <1>5, <2>1, <2>2
    <3>2. t[j] = s[j]
      BY <1>7, <1>10, <2>2, <3>1
    <3>3. QED
      BY <1>7, <3>1, <3>2
  <2>3. CASE ~(j < p)
    <3>1. j - 1 \in 1..(Len(s) - 1) /\ ~(j - 1 < p) /\ (j - 1) + 1 = j
      BY <1>3, <1>5, <2>1, <2>3
    <3>2. t[j - 1] = s[j]
      BY <1>7, <1>10, <3>1
    <3>3. QED
      BY <1>7, <3>1, <3>2
  <2>4. QED
    BY <2>2, <2>3
<1>14. ASSUME NEW i \in DOMAIN t, NEW j \in DOMAIN t, t[i] = t[j] PROVE i = j
  <2>1. PICK k : k = IF i < p THEN i ELSE i + 1
    OBVIOUS
  <2>2. PICK l : l = IF j < p THEN j ELSE j + 1
    OBVIOUS
  <2>3. k \in DOMAIN s /\ l \in DOMAIN s /\ s[k] = s[l]
    BY <1>5, <1>6, <1>7, <1>10, <1>14, <2>1, <2>2
  <2>4. k = l
    BY <1>11, <2>3
  <2>5. i \in Nat /\ j \in Nat
    BY <1>10
  <2>6. QED
    BY <1>3, <2>1, <2>2, <2>4, <2>5
<1>15. \A m \in Block : \A x \in Block : Linked(ch2, m, x) <=> Linked(Childs, m, x) /\ ~(m = n /\ x = c)
  <2> TAKE m \in Block
  <2> TAKE x \in Block
  <2>1. CASE m # n
    BY <1>9, <2>1 DEF Linked
  <2>2. CASE m = n
    <3>1. Linked(ch2, m, x) <=> \E i \in DOMAIN t : t[i] = x
      BY <1>9, <2>2 DEF Linked
    <3>2. Linked(Childs, m, x) <=> \E j \in DOMAIN s : s[j] = x
      BY <1>1, <2>2 DEF Linked
    <3>3. QED
      BY <1>12, <1>13, <2>2, <3>1, <3>2
  <2>3. QED
    BY <2>1, <2>2
<1>16. GoodEdges(ch2)
  <2>1. ASSUME NEW m \in Block
        PROVE  /\ \A k \in DOMAIN ch2[m] : ch2[m][k] # Root /\ Parent[ch2[m][k]] = m
               /\ \A k, l \in DOMAIN ch2[m] : ch2[m][k] = ch2[m][l] => k = l
    <3>1. CASE m # n
      BY <1>9, <3>1 DEF GoodEdges
    <3>2. CASE m = n
      <4>1. \A j \in DOMAIN s : s[j] # Root /\ Parent[s[j]] = n
        BY <1>1 DEF GoodEdges
      <4>2. \A k \in DOMAIN t : t[k] # Root /\ Parent[t[k]] = n
        BY <1>12, <4>1
      <4>3. QED
        BY <1>9, <1>14, <3>2, <4>2
    <3>3. QED
      BY <3>1, <3>2
  <2>2. QED
    BY <2>1 DEF GoodEdges
<1>17. IsWithoutChild(ch2, Childs, n, c)
  BY <1>9, <1>15, <1>16 DEF IsWithoutChild
<1>18. QED
  BY <1>17 DEF ch2

\* The lists of children after DeleteBranch(n).
BranchGone(n) ==
    [b \in Block |-> IF b \in Branch(n) THEN <<>> ELSE WithoutChild(Parent[n], n)[b]]

LEMMA BranchGoneTree ==
    ASSUME Childs \in [Block -> Seq(Block)], GoodEdges(Childs), NEW n \in Block, n # Root,
           HasChild(Parent[n], n)
    PROVE  /\ BranchGone(n) \in [Block -> Seq(Block)] /\ GoodEdges(BranchGone(n))
           /\ \A m \in Block : \A x \in Block :
                 Linked(BranchGone(n), m, x) <=> Linked(Childs, m, x) /\ m \notin Branch(n) /\ x # n
<1>1. Parent[n] \in Block
  BY ChainAssumption
<1>2. IsWithoutChild(WithoutChild(Parent[n], n), Childs, Parent[n], n)
  BY <1>1, WithoutChildTree
<1>3. PICK ch1 : ch1 = WithoutChild(Parent[n], n)
  OBVIOUS
<1> DEFINE ch2 == BranchGone(n)
<1>4. /\ ch1 \in [Block -> Seq(Block)] /\ GoodEdges(ch1)
      /\ \A m \in Block : \A x \in Block : Linked(ch1, m, x) <=> Linked(Childs, m, x) /\ ~(m = Parent[n] /\ x = n)
  BY <1>2, <1>3 DEF IsWithoutChild
<1>5. ch2 = [b \in Block |-> IF b \in Branch(n) THEN <<>> ELSE ch1[b]]
  BY <1>3 DEF BranchGone
<1> HIDE DEF ch2
<1>6. ch2 \in [Block -> Seq(Block)]
  BY <1>4, <1>5
<1>7. \A m \in Block : (m \in Branch(n) => ch2[m] = <<>> /\ DOMAIN ch2[m] = {}) /\ (m \notin Branch(n) => ch2[m] = ch1[m])
  BY <1>5
<1>8. GoodEdges(ch2)
  <2>1. ASSUME NEW m \in Block
        PROVE  /\ \A k \in DOMAIN ch2[m] : ch2[m][k] # Root /\ Parent[ch2[m][k]] = m
               /\ \A k, l \in DOMAIN ch2[m] : ch2[m][k] = ch2[m][l] => k = l
    <3>1. CASE m \in Branch(n)
      BY <1>7, <3>1
    <3>2. CASE m \notin Branch(n)
      BY <1>4, <1>7, <3>2 DEF GoodEdges
    <3>3. QED
      BY <3>1, <3>2
  <2>2. QED
    BY <2>1 DEF GoodEdges
<1>9. \A m \in Block : \A x \in Block : Linked(Childs, m, x) /\ x = n => m = Parent[n]
  BY DEF Linked, GoodEdges
<1>10. \A m \in Block : \A x \in Block : Linked(ch2, m, x) <=> m \notin Branch(n) /\ Linked(ch1, m, x)
  BY <1>7 DEF Linked
<1>11. \A m \in Block : \A x \in Block : Linked(ch2, m, x) <=> Linked(Childs, m, x) /\ m \notin Branch(n) /\ x # n
  BY <1>4, <1>9, <1>10
<1>12. QED
  BY <1>6, <1>8, <1>11 DEF ch2

\* A child that is not n is in the branch of n exactly if its parent is.
LEMMA BranchStep ==
    ASSUME GoodEdges(Childs), NEW n \in Block, NEW m \in Block, NEW x \in Block, Linked(Childs, m, x), x # n
    PROVE  x \in Branch(n) <=> m \in Branch(n)
<1>1. x # Root /\ Parent[x] = m
  BY DEF Linked, GoodEdges
<1>2. AncOf[x] = {x} \cup AncOf[m]
  BY <1>1, Rooted, AncStep
<1>3. ASSUME n \in AncOf[x] PROVE n \in AncOf[m] /\ x \notin AncOf[n]
  <2>1. n \in AncOf[m]
    BY <1>2, <1>3
  <2>2. QED
    BY <1>3, <2>1, Rooted, AncAntisymmetric
<1>4. n \in AncOf[x] <=> n \in AncOf[m]
  BY <1>2
<1>5. HasChild(Parent[x], x)
  BY <1>1 DEF Linked, HasChild
<1>6. n \in AncOf[x] => AncOf[x] \ AncOf[n] = {x} \cup (AncOf[m] \ AncOf[n])
  BY <1>2, <1>3
<1>7. QED
  BY <1>4, <1>5, <1>6 DEF Branch

LEMMA BranchSelf ==
    ASSUME NEW n \in Block
    PROVE  n \in Branch(n) /\ Branch(n) \in SUBSET Block /\ \A x \in Branch(n) : n \in AncOf[x]
BY AncSelf DEF Branch

-----------------------------------------------------------------------------
(* Types *)

\* What the type invariant needs to be inductive: the entries of the lists of
\* children are children and in the index, and the operations of the main
\* thread and of do_the_blocks are about blocks.
TreeTypes ==
    /\ Childs \in [Block -> Seq(Block)] /\ GoodEdges(Childs) /\ BlockIndex \in SUBSET Block
    /\ \A n \in Block : \A x \in Block : Linked(Childs, n, x) => x \in BlockIndex

OpTypes ==
    /\ op.pc # "idle" => op.dst \in Block /\ op.blk \in Block
    /\ parseTill # NoParse => parseTill.cur \in Block /\ parseTill.end \in Block

TypeInv == TypeOK /\ TreeTypes /\ OpTypes

LEMMA ChildLinked ==
    ASSUME NEW n, NEW c
    PROVE  HasChild(n, c) <=> Linked(Childs, n, c)
BY DEF HasChild, Linked

\* What the operations of the store do to the entry of their block.
IsAdded(r, s, b, t) ==
    /\ \A x \in Block : x # b => r[x] = s[x]
    /\ r[b].st = (IF s[b].st = "none" THEN "queued" ELSE s[b].st)
    /\ r[b].invalid <=> (s[b].st # "none" /\ s[b].invalid)
    /\ r[b].trusted <=> (t \/ (s[b].st # "none" /\ s[b].trusted))

LEMMA AddedIs ==
    ASSUME NEW s \in [Block -> BS!Entry], NEW b \in Block, NEW t \in BOOLEAN
    PROVE  BS!Added(s, b, t) \in [Block -> BS!Entry] /\ IsAdded(BS!Added(s, b, t), s, b, t)
<1>1. PICK e \in BS!Entry : e = s[b]
  OBVIOUS
<1>2. PICK r : r = IF e.st = "none" THEN [st |-> "queued", trusted |-> t, invalid |-> FALSE]
                   ELSE [e EXCEPT !.trusted = e.trusted \/ t]
  OBVIOUS
<1>3. BS!Added(s, b, t) = [s EXCEPT ![b] = r]
  BY <1>1, <1>2 DEF BS!Added
<1>4. e.st \in {"none", "queued", "disk"} /\ e.trusted \in BOOLEAN /\ e.invalid \in BOOLEAN
  BY <1>1 DEF BS!Entry
<1>5. CASE e.st = "none"
  <2>1. r = [st |-> "queued", trusted |-> t, invalid |-> FALSE]
    BY <1>2, <1>5
  <2>2. r \in BS!Entry /\ r.st = "queued" /\ r.invalid = FALSE /\ r.trusted = t
    BY <2>1 DEF BS!Entry
  <2>3. QED
    BY <1>1, <1>3, <1>5, <2>2 DEF IsAdded
<1>6. CASE e.st # "none"
  <2>1. r = [e EXCEPT !.trusted = e.trusted \/ t]
    BY <1>2, <1>6
  <2>2. r \in BS!Entry /\ r.st = e.st /\ r.invalid = e.invalid /\ r.trusted = (e.trusted \/ t)
    BY <1>1, <1>4, <2>1 DEF BS!Entry
  <2>3. QED
    BY <1>1, <1>3, <1>4, <1>6, <2>2 DEF IsAdded
<1>7. QED
  BY <1>5, <1>6

LEMMA TrustedIs ==
    ASSUME NEW s \in [Block -> BS!Entry], NEW b \in Block
    PROVE  /\ BS!Trusted(s, b) \in [Block -> BS!Entry]
           /\ \A x \in Block : x # b => BS!Trusted(s, b)[x] = s[x]
           /\ BS!Trusted(s, b)[b].st = s[b].st /\ BS!Trusted(s, b)[b].invalid = s[b].invalid
           /\ BS!Trusted(s, b)[b].trusted <=> s[b].st # "none"
<1>1. PICK e \in BS!Entry : e = s[b]
  OBVIOUS
<1>2. PICK r : r = [e EXCEPT !.trusted = (e.st # "none")]
  OBVIOUS
<1>3. BS!Trusted(s, b) = [s EXCEPT ![b] = r]
  BY <1>1, <1>2 DEF BS!Trusted
<1>4. e.st \in {"none", "queued", "disk"} /\ e.invalid \in BOOLEAN
  BY <1>1 DEF BS!Entry
<1>5. r \in BS!Entry /\ r.st = e.st /\ r.invalid = e.invalid /\ r.trusted = (e.st # "none")
  BY <1>1, <1>2, <1>4 DEF BS!Entry
<1>6. QED
  BY <1>1, <1>3, <1>5

LEMMA InvalidatedIs ==
    ASSUME NEW s \in [Block -> BS!Entry], NEW b \in Block
    PROVE  /\ BS!Invalidated(s, b)[b] \in BS!Entry
           /\ s[b].st # "disk" => BS!Invalidated(s, b)[b] = BS!Absent
           /\ s[b].st = "disk" => /\ BS!Invalidated(s, b)[b].st = "disk"
                                  /\ BS!Invalidated(s, b)[b].invalid = TRUE
<1>1. PICK e \in BS!Entry : e = s[b]
  OBVIOUS
<1>2. PICK r : r = IF e.st = "disk" THEN [e EXCEPT !.invalid = TRUE, !.trusted = TRUE] ELSE BS!Absent
  OBVIOUS
<1>3. BS!Invalidated(s, b) = [s EXCEPT ![b] = r]
  BY <1>1, <1>2, Zenon DEF BS!Invalidated
<1>4. r \in BS!Entry /\ (e.st # "disk" => r = BS!Absent) /\ (e.st = "disk" => r.st = "disk" /\ r.invalid = TRUE)
  BY <1>1, <1>2 DEF BS!Entry, BS!Absent
<1>5. QED
  BY <1>1, <1>3, <1>4

LEMMA WrittenIs ==
    ASSUME NEW s \in [Block -> BS!Entry], NEW b \in Block
    PROVE  /\ BS!Written(s, b) \in [Block -> BS!Entry]
           /\ \A x \in Block : x # b => BS!Written(s, b)[x] = s[x]
           /\ BS!Written(s, b)[b].st = "disk" /\ BS!Written(s, b)[b].invalid = s[b].invalid
           /\ BS!Written(s, b)[b].trusted = s[b].trusted
<1>1. PICK e \in BS!Entry : e = s[b]
  OBVIOUS
<1>2. PICK r : r = [e EXCEPT !.st = "disk"]
  OBVIOUS
<1>3. BS!Written(s, b) = [s EXCEPT ![b] = r]
  BY <1>1, <1>2 DEF BS!Written
<1>4. r \in BS!Entry /\ r.st = "disk" /\ r.invalid = e.invalid /\ r.trusted = e.trusted
  BY <1>1, <1>2 DEF BS!Entry
<1>5. QED
  BY <1>1, <1>3, <1>4

LEMMA ReloadedIs ==
    ASSUME NEW s \in [Block -> BS!Entry]
    PROVE  /\ BS!Reloaded(s) \in [Block -> BS!Entry]
           /\ \A b \in Block : BS!Reloaded(s)[b] = IF s[b].st = "disk" /\ ~s[b].invalid THEN s[b] ELSE BS!Absent
<1>1. BS!Absent \in BS!Entry
  BY DEF BS!Absent, BS!Entry
<1>2. QED
  BY <1>1 DEF BS!Reloaded

\* The next node on a path is a child of the node it starts from.
LEMMA PathIn ==
    ASSUME Childs \in [Block -> Seq(Block)], GoodEdges(Childs), NEW n \in Block, NEW end \in Block,
           FindPathTo(n, end) # None
    PROVE  FindPathTo(n, end) \in Block \ {Root} /\ Parent[FindPathTo(n, end)] = n
<1>1. PICK s \in Seq(Block) : s = Childs[n]
  OBVIOUS
<1>2. PICK c : c = FindPathTo(n, end)
  OBVIOUS
<1>3. ~(Height(end) <= Height(n)) /\ s # <<>>
  BY <1>1, <1>2 DEF FindPathTo
<1>4. CASE Len(s) = 1
  <2>1. c = s[1]
    BY <1>1, <1>2, <1>3, <1>4 DEF FindPathTo
  <2>2. 1 \in DOMAIN s /\ s[1] \in Block
    <3>1. DOMAIN s = 1..1
      BY <1>1, <1>4
    <3>2. 1 \in DOMAIN s
      BY <3>1
    <3>3. QED
      BY <1>1, <3>2
  <2>3. QED
    BY <1>1, <1>2, <2>1, <2>2 DEF GoodEdges
<1>5. CASE Len(s) # 1
  <2>1. n \in AncOf[end] /\ c = ToWards(n, end)
    BY <1>1, <1>2, <1>3, <1>5 DEF FindPathTo
  <2>2. n # end
    BY <1>3, Rooted, HeightRange
  <2>3. QED
    BY <1>2, <2>1, <2>2, Rooted, ToWardsIn
<1>6. QED
  BY <1>4, <1>5

\* Undoing stops at the root.
LEMMA UndoNotRoot ==
    ASSUME NEW x \in Block, NEW y \in Block, y # Common(x, y)
    PROVE  y # Root /\ Parent[y] \in Block
<1>1. Common(x, y) \in AncOf[y]
  BY Rooted, CommonIn
<1>2. y # Root
  BY <1>1, Rooted, AncRoot
<1>3. QED
  BY <1>2, ChainAssumption

\* DeleteBranch(n) keeps the types.
LEMMA DeleteTypes ==
    ASSUME TreeTypes, store \in [Block -> BS!Entry], NEW n \in Block \ {Root}, HasChild(Parent[n], n), DeleteBranch(n)
    PROVE  TreeTypes' /\ store' \in [Block -> BS!Entry]
<1>1. Childs' = BranchGone(n)
  BY DEF DeleteBranch, BranchGone
<1>2. PICK ch : ch = BranchGone(n)
  OBVIOUS
<1>3. /\ ch \in [Block -> Seq(Block)] /\ GoodEdges(ch)
      /\ \A m \in Block : \A x \in Block : Linked(ch, m, x) <=> Linked(Childs, m, x) /\ m \notin Branch(n) /\ x # n
  BY <1>2, BranchGoneTree DEF TreeTypes
<1>4. BlockIndex' = BlockIndex \ Branch(n)
  BY DEF DeleteBranch
<1>5. \A m \in Block : \A x \in Block : Linked(ch, m, x) => x \in BlockIndex'
  <2> TAKE m \in Block
  <2> TAKE x \in Block
  <2> HAVE Linked(ch, m, x)
  <2>1. Linked(Childs, m, x) /\ m \notin Branch(n) /\ x # n
    BY <1>3
  <2>2. x \notin Branch(n)
    BY <2>1, BranchStep DEF TreeTypes
  <2>3. QED
    BY <1>4, <2>1, <2>2 DEF TreeTypes
<1>6. TreeTypes'
  <2>1. Childs' = ch
    BY <1>1, <1>2
  <2>2. BlockIndex' \in SUBSET Block
    BY <1>4 DEF TreeTypes
  <2>3. QED
    BY <1>3, <1>5, <2>1, <2>2 DEF TreeTypes
<1>7. \A b \in Block : BS!Invalidated(store, b)[b] \in BS!Entry
  <2>1. PICK s \in [Block -> BS!Entry] : s = store
    OBVIOUS
  <2>2. QED
    BY <2>1, InvalidatedIs
<1>8. QED
  BY <1>6, <1>7 DEF DeleteBranch

\* AcceptHeader(b) keeps the types.
LEMMA HeaderTypes ==
    ASSUME TreeTypes, NEW b \in Block \ {Root}, b \notin BlockIndex, AcceptHeader(b)
    PROVE  TreeTypes'
<1>1. Parent[b] \in Block /\ ~Linked(Childs, Parent[b], b)
  BY ChainAssumption DEF TreeTypes
<1>2. IsWithChild(WithChild(Parent[b], b), Childs, b)
  BY <1>1, WithChildTree DEF TreeTypes
<1>3. PICK ch : ch = WithChild(Parent[b], b)
  OBVIOUS
<1>4. Childs' = ch /\ BlockIndex' = BlockIndex \cup {b}
  BY <1>3 DEF AcceptHeader
<1>5. ch \in [Block -> Seq(Block)] /\ GoodEdges(ch)
      /\ \A n \in Block : \A x \in Block : Linked(ch, n, x) <=> (n # b /\ Linked(Childs, n, x)) \/ (n = Parent[b] /\ x = b)
  BY <1>2, <1>3 DEF IsWithChild
<1>6. QED
  BY <1>4, <1>5 DEF TreeTypes

\* The lists of children at the beginning: one branch from the root to Tip.
LEMMA FirstChilds ==
    ASSUME Init
    PROVE  /\ TreeTypes
           /\ Root \in Start /\ Start \in SUBSET Block
           /\ \A b \in Start \ {Root} : Parent[b] \in Start /\ Linked(Childs, Parent[b], b)
<1> DEFINE C(b) == CHOOSE c \in Start \ {Root} : Parent[c] = b
<1>t. Root \in Start /\ Start \in SUBSET Block /\ Tip \in Start
  BY ChainAssumption, AncSelf
<1>1. \A b \in Start \ {Tip} : C(b) \in Start \ {Root} /\ Parent[C(b)] = b
  <2> TAKE b \in Start \ {Tip}
  <2>1. b \in AncOf[Tip] /\ b # Tip
    BY ChainAssumption
  <2>2. \E c \in Start \ {Root} : Parent[c] = b
    BY <2>1, ToWardsIn, Rooted, ChainAssumption
  <2>3. QED
    BY <2>2
<1>2. Childs = [b \in Block |-> IF b \in Start \ {Tip} THEN <<C(b)>> ELSE <<>>]
  BY DEF Init
<1> HIDE DEF C
<1>3. \A b \in Block : b \in Start \ {Tip} => Childs[b] = <<C(b)>> /\ DOMAIN Childs[b] = {1} /\ Childs[b][1] = C(b)
  BY <1>2
<1>4. \A b \in Block : b \notin Start \ {Tip} => Childs[b] = <<>> /\ DOMAIN Childs[b] = {}
  BY <1>2
<1>5. Childs \in [Block -> Seq(Block)]
  <2>1. \A b \in Start \ {Tip} : <<C(b)>> \in Seq(Block)
    BY <1>t, <1>1
  <2>2. <<>> \in Seq(Block)
    OBVIOUS
  <2>3. QED
    BY <1>2, <2>1, <2>2
<1>6. GoodEdges(Childs)
  <2>1. ASSUME NEW n \in Block
        PROVE  /\ \A k \in DOMAIN Childs[n] : Childs[n][k] # Root /\ Parent[Childs[n][k]] = n
               /\ \A k, l \in DOMAIN Childs[n] : Childs[n][k] = Childs[n][l] => k = l
    <3>1. CASE n \in Start \ {Tip}
      BY <1>1, <1>3, <3>1
    <3>2. CASE n \notin Start \ {Tip}
      BY <1>4, <3>2
    <3>3. QED
      BY <3>1, <3>2
  <2>2. QED
    BY <2>1 DEF GoodEdges
<1>7. \A n \in Block : \A x \in Block : Linked(Childs, n, x) => x \in Start
  <2> TAKE n \in Block
  <2> TAKE x \in Block
  <2>1. CASE n \in Start \ {Tip}
    BY <1>1, <1>3, <2>1 DEF Linked
  <2>2. CASE n \notin Start \ {Tip}
    BY <1>4, <2>2 DEF Linked
  <2>3. QED
    BY <2>1, <2>2
<1>8. BlockIndex = Start
  BY DEF Init
<1>9. \A b \in Start \ {Root} : Parent[b] \in Start /\ Linked(Childs, Parent[b], b)
  <2> TAKE b \in Start \ {Root}
  <2>1. b \in AncOf[Tip] /\ b \in Block /\ Tip \in Block
    BY <1>t, ChainAssumption
  <2>2. PICK p \in Start : p = Parent[b]
    BY <2>1, AncParent, Rooted, ChainAssumption
  <2>3. p # Tip
    <3>1. SUFFICES ASSUME p = Tip PROVE FALSE
      OBVIOUS
    <3>2. b \in AncOf[Parent[b]]
      BY <2>1, <2>2, <3>1
    <3>3. QED
      BY <2>1, <3>2, AncAcyclic, Rooted
  <2>4. C(p) \in AncOf[Tip] /\ C(p) # Root /\ Parent[C(p)] = Parent[b]
    BY <1>1, <2>2, <2>3, ChainAssumption
  <2>5. C(p) = b
    <3>1. PICK c : c = C(p)
      OBVIOUS
    <3>2. QED
      BY <2>1, <2>4, <3>1, ToWardsUnique, Rooted
  <2>6. p \in Block
    BY <1>t, <2>2
  <2>7. QED
    BY <1>3, <2>2, <2>3, <2>5, <2>6 DEF Linked
<1>10. QED
  BY <1>t, <1>5, <1>6, <1>7, <1>8, <1>9 DEF TreeTypes

LEMMA TypeInit == Init => TypeInv
<1> SUFFICES ASSUME Init PROVE TypeInv
  OBVIOUS
<1>1. TreeTypes /\ Start \in SUBSET Block
  BY FirstChilds
<1>2. store \in [Block -> BS!Entry]
  <2>1. BS!Absent \in BS!Entry /\ [st |-> "disk", trusted |-> TRUE, invalid |-> FALSE] \in BS!Entry
    BY DEF BS!Absent, BS!Entry
  <2>2. QED
    BY <2>1 DEF Init
<1>3. TypeOK
  BY <1>1, <1>2, ChainAssumption DEF TypeOK, Init, IdleOp, NoParse, TreeTypes
<1>4. OpTypes
  BY DEF Init, IdleOp, NoParse, OpTypes
<1>5. QED
  BY <1>1, <1>3, <1>4 DEF TypeInv

\* What the rest of CommitBlock keeps.
LEMMA ReturnTypes ==
    ASSUME TypeOK, OpTypes, op.blk \in Block, Return
    PROVE  /\ op' = IdleOp /\ mode' \in {mode} \cup PanicMsg /\ DiscardedBlocks' \in SUBSET Block
           /\ parseTill' \in {parseTill, NoParse}
<1>1. Branch(op.blk) \in SUBSET Block
  BY DEF Branch
<1>2. DiscardedBlocks \in SUBSET Block
  BY DEF TypeOK
<1>3. CASE last # op.blk
  BY <1>1, <1>2, <1>3 DEF Return, DiscardBlock, Misbehave, Panic, PanicMsg
<1>4. CASE last = op.blk
  BY <1>2, <1>4 DEF Return, ReachedTill
<1>5. QED
  BY <1>3, <1>4

LEMMA TypeNext == TypeInv /\ [Next]_vars => TypeInv'
<1> SUFFICES ASSUME TypeInv, [Next]_vars PROVE TypeInv'
  OBVIOUS
<1>t. /\ TypeOK /\ TreeTypes /\ OpTypes
      /\ store \in [Block -> BS!Entry] /\ last \in Block /\ mode \in {"up", "down", "starting"} \cup PanicMsg
      /\ Childs \in [Block -> Seq(Block)] /\ GoodEdges(Childs)
  BY DEF TypeInv, TypeOK, TreeTypes
<1>m. PanicMsg \subseteq {"up", "down", "starting"} \cup PanicMsg
  OBVIOUS
<1>1. CASE UNCHANGED vars
  <2>1. TypeOK'
    BY <1>t, <1>1 DEF vars, treeVars, netVars, TypeOK
  <2>2. TreeTypes'
    BY <1>t, <1>1 DEF vars, treeVars, netVars, TreeTypes
  <2>3. OpTypes'
    BY <1>t, <1>1 DEF vars, treeVars, netVars, OpTypes, NoParse
  <2>4. QED
    BY <2>1, <2>2, <2>3 DEF TypeInv
<1>2. ASSUME NEW b \in Block \ {Root}, HandleHeaders(b) PROVE TypeInv'
  <2>1. b \notin BlockIndex /\ AcceptHeader(b) /\ announced' = announced \cup {b}
    BY <1>2 DEF HandleHeaders, ProcessNewHeader, PreCheckBlock
  <2>2. TreeTypes'
    BY <1>t, <2>1, HeaderTypes
  <2>3. TypeOK'
    BY <1>t, <1>2, <2>1, <2>2 DEF HandleHeaders, AcceptHeader, TypeOK, TreeTypes
  <2>4. OpTypes'
    BY <1>t, <1>2 DEF HandleHeaders, OpTypes, NoParse
  <2>5. QED
    BY <2>2, <2>3, <2>4 DEF TypeInv
<1>3. ASSUME NEW b \in Block \ {Root}, BlockReceived(b) PROVE TypeInv'
  <2>1. TypeOK'
    BY <1>t, <1>3 DEF BlockReceived, treeVars, TypeOK
  <2>2. TreeTypes'
    BY <1>t, <1>3 DEF BlockReceived, treeVars, TreeTypes
  <2>3. OpTypes'
    BY <1>t, <1>3 DEF BlockReceived, OpTypes, NoParse
  <2>4. QED
    BY <2>1, <2>2, <2>3 DEF TypeInv
<1>4. ASSUME NEW b \in Block \ {Root}, NewBlockReceived(b) PROVE TypeInv'
  <2>1. b \notin BlockIndex /\ AcceptHeader(b) /\ announced' = announced \cup {b}
    BY <1>4 DEF NewBlockReceived, ProcessNewHeader, PreCheckBlock
  <2>2. TreeTypes'
    BY <1>t, <2>1, HeaderTypes
  <2>3. TypeOK'
    BY <1>t, <1>4, <2>1, <2>2 DEF NewBlockReceived, AcceptHeader, TypeOK, TreeTypes
  <2>4. OpTypes'
    BY <1>t, <1>4 DEF NewBlockReceived, OpTypes, NoParse
  <2>5. QED
    BY <2>2, <2>3, <2>4 DEF TypeInv
<1>5. ASSUME NEW b \in Block \ {Root}, WronglyMined(b) PROVE TypeInv'
  <2>1. CASE HasChild(Parent[b], b)
    <3>1. /\ DeleteBranch(b) /\ announced' \in SUBSET announced
          /\ UNCHANGED <<mode, hasData, last, op, arrived, DiscardedBlocks, parseTill, saved, crashes>>
      BY <1>5, <2>1 DEF WronglyMined
    <3>2. TreeTypes' /\ store' \in [Block -> BS!Entry]
      BY <1>t, <2>1, <3>1, DeleteTypes
    <3>3. TypeOK'
      BY <1>t, <3>1, <3>2 DEF TypeOK, TreeTypes
    <3>4. OpTypes'
      BY <1>t, <3>1 DEF OpTypes, NoParse
    <3>5. QED
      BY <3>2, <3>3, <3>4 DEF TypeInv
  <2>2. CASE ~HasChild(Parent[b], b)
    <3>1. /\ mode' \in PanicMsg
          /\ UNCHANGED <<store, BlockIndex, Childs, announced, hasData, last, op, arrived, DiscardedBlocks,
                         parseTill, saved, crashes>>
      BY <1>5, <2>2 DEF WronglyMined, Panic, PanicMsg
    <3>2. TreeTypes'
      BY <1>t, <3>1 DEF TreeTypes
    <3>3. TypeOK'
      BY <1>t, <3>1 DEF TypeOK
    <3>4. OpTypes'
      BY <1>t, <3>1 DEF OpTypes, NoParse
    <3>5. QED
      BY <3>2, <3>3, <3>4 DEF TypeInv
  <2>3. QED
    BY <2>1, <2>2
<1>6. ASSUME NEW b \in Block \ {Root}, DiscardArrived(b) PROVE TypeInv'
  <2>1. TypeOK'
    BY <1>t, <1>6 DEF DiscardArrived, treeVars, TypeOK
  <2>2. TreeTypes'
    BY <1>t, <1>6 DEF DiscardArrived, treeVars, TreeTypes
  <2>3. OpTypes'
    BY <1>t, <1>6 DEF DiscardArrived, OpTypes, NoParse
  <2>4. QED
    BY <2>1, <2>2, <2>3 DEF TypeInv
<1>7. ASSUME NEW b \in Block \ {Root}, CommitOnTop(b) PROVE TypeInv'
  <2>1. PICK s \in [Block -> BS!Entry] : s = BS!Added(store, b, FALSE)
    <3>1. PICK s0 \in [Block -> BS!Entry] : s0 = store
      BY <1>t
    <3>2. QED
      BY <3>1, AddedIs
  <2>2. store' = BS!Added(s, b, TRUE)
    BY <1>7, <2>1 DEF CommitOnTop
  <2>3. store' \in [Block -> BS!Entry]
    BY <2>2, AddedIs
  <2>4. parseTill' \in {parseTill, NoParse}
    BY <1>7 DEF CommitOnTop, ReachedTill
  <2>5. TypeOK'
    <3>1. hasData' \in [Block -> BOOLEAN] /\ arrived' \in SUBSET Block /\ last' \in Block
      BY <1>t, <1>7 DEF CommitOnTop, TypeOK
    <3>2. UNCHANGED <<mode, BlockIndex, Childs, op, announced, DiscardedBlocks, saved, crashes>>
      BY <1>7 DEF CommitOnTop
    <3>3. QED
      BY <1>t, <2>3, <2>4, <3>1, <3>2 DEF TypeOK, NoParse
  <2>6. TreeTypes'
    BY <1>t, <1>7 DEF CommitOnTop, TreeTypes
  <2>7. OpTypes'
    BY <1>t, <1>7, <2>4 DEF CommitOnTop, OpTypes, NoParse
  <2>8. QED
    BY <2>5, <2>6, <2>7 DEF TypeInv
<1>8. ASSUME NEW b \in Block \ {Root}, CommitFails(b) PROVE TypeInv'
  <2>1. store' \in [Block -> BS!Entry]
    <3>1. PICK s0 \in [Block -> BS!Entry] : s0 = store
      BY <1>t
    <3>2. QED
      BY <1>8, <3>1, AddedIs DEF CommitFails
  <2>2. hasData' \in [Block -> BOOLEAN] /\ arrived' \in SUBSET Block
    BY <1>t, <1>8 DEF CommitFails, TypeOK
  <2>3. UNCHANGED <<last, op, announced, parseTill, saved, crashes>>
    BY <1>8 DEF CommitFails
  <2>4. OpTypes'
    BY <1>t, <2>3 DEF OpTypes, NoParse
  <2>5. CASE HasChild(Parent[b], b)
    <3>1. /\ Childs' = WithoutChild(Parent[b], b) /\ BlockIndex' = BlockIndex \ {b}
          /\ DiscardBlock(b) /\ Misbehave
      BY <1>8, <2>5 DEF CommitFails
    <3>2. Parent[b] \in Block
      BY ChainAssumption
    <3>3. PICK ch : ch = WithoutChild(Parent[b], b)
      OBVIOUS
    <3>4. IsWithoutChild(ch, Childs, Parent[b], b)
      BY <1>t, <2>5, <3>2, <3>3, WithoutChildTree
    <3>5. \A n \in Block : \A x \in Block : Linked(ch, n, x) => x \in BlockIndex /\ x # b
      <4> TAKE n \in Block
      <4> TAKE x \in Block
      <4> HAVE Linked(ch, n, x)
      <4>1. Linked(Childs, n, x) /\ ~(n = Parent[b] /\ x = b)
        BY <3>4 DEF IsWithoutChild
      <4>2. x = b => n = Parent[b]
        BY <1>t, <4>1 DEF GoodEdges, Linked
      <4>3. QED
        BY <1>t, <4>1, <4>2 DEF TreeTypes
    <3>6. TreeTypes'
      <4>1. Childs' = ch /\ BlockIndex' \in SUBSET Block
        BY <1>t, <3>1, <3>3 DEF TreeTypes
      <4>2. ch \in [Block -> Seq(Block)] /\ GoodEdges(ch)
        BY <3>4 DEF IsWithoutChild
      <4>3. QED
        BY <3>1, <3>5, <4>1, <4>2 DEF TreeTypes
    <3>7. mode' \in {"up", "down", "starting"} \cup PanicMsg /\ DiscardedBlocks' \in SUBSET Block
      BY <1>t, <3>1 DEF Misbehave, Panic, PanicMsg, DiscardBlock, Branch, TypeOK
    <3>8. TypeOK'
      BY <1>t, <2>1, <2>2, <2>3, <3>6, <3>7 DEF TypeOK, TreeTypes
    <3>9. QED
      BY <2>4, <3>6, <3>8 DEF TypeInv
  <2>6. CASE ~HasChild(Parent[b], b)
    <3>1. mode' \in PanicMsg /\ UNCHANGED <<Childs, BlockIndex, DiscardedBlocks>>
      BY <1>8, <2>6 DEF CommitFails, Panic, PanicMsg
    <3>2. TreeTypes'
      BY <1>t, <3>1 DEF TreeTypes
    <3>3. TypeOK'
      BY <1>t, <2>1, <2>2, <2>3, <3>1 DEF TypeOK
    <3>4. QED
      BY <2>4, <3>2, <3>3 DEF TypeInv
  <2>7. QED
    BY <2>5, <2>6
<1>9. ASSUME NEW b \in Block \ {Root}, CommitOffTop(b) PROVE TypeInv'
  <2>1. store' \in [Block -> BS!Entry]
    <3>1. PICK s0 \in [Block -> BS!Entry] : s0 = store
      BY <1>t
    <3>2. QED
      BY <1>9, <3>1, AddedIs DEF CommitOffTop
  <2>2. op' = op \/ op' = [pc |-> "move", dst |-> b, blk |-> b]
    BY <1>9 DEF CommitOffTop
  <2>3. TypeOK'
    BY <1>t, <1>9, <2>1, <2>2 DEF CommitOffTop, TypeOK
  <2>4. TreeTypes'
    BY <1>t, <1>9 DEF CommitOffTop, TreeTypes
  <2>5. OpTypes'
    BY <1>t, <1>9, <2>2 DEF CommitOffTop, OpTypes, NoParse
  <2>6. QED
    BY <2>3, <2>4, <2>5 DEF TypeInv
<1>10. CASE MoveToBlock
  <2>0. UNCHANGED <<store, treeVars, announced, arrived, saved, crashes>> /\ op.blk \in Block /\ op.dst \in Block
    BY <1>t, <1>10 DEF MoveToBlock, OpTypes
  <2>1. TreeTypes'
    BY <1>t, <2>0 DEF treeVars, TreeTypes
  <2>2. CASE CannotMove(op.dst)
    <3>1. /\ op' = IdleOp /\ mode' \in {mode} \cup PanicMsg /\ DiscardedBlocks' \in SUBSET Block
          /\ parseTill' \in {parseTill, NoParse}
      BY <1>t, <1>10, <2>0, <2>2, ReturnTypes DEF MoveToBlock
    <3>2. TypeOK'
      BY <1>t, <2>0, <3>1 DEF treeVars, TypeOK, IdleOp, NoParse
    <3>3. OpTypes'
      BY <1>t, <3>1 DEF OpTypes, IdleOp, NoParse
    <3>4. QED
      BY <2>1, <3>2, <3>3 DEF TypeInv
  <2>3. CASE ~CannotMove(op.dst)
    <3>1. op' = [op EXCEPT !.pc = "undo"] /\ UNCHANGED <<mode, DiscardedBlocks, parseTill>>
      BY <1>10, <2>3 DEF MoveToBlock
    <3>2. TypeOK'
      BY <1>t, <2>0, <3>1 DEF treeVars, TypeOK
    <3>3. OpTypes'
      BY <1>t, <2>0, <3>1 DEF OpTypes, NoParse, TypeOK
    <3>4. QED
      BY <2>1, <3>2, <3>3 DEF TypeInv
  <2>4. QED
    BY <2>2, <2>3
<1>11. CASE UndoLastBlock
  <2>1. Parent[last] \in Block
    BY <1>t, <1>11, UndoNotRoot DEF UndoLastBlock, OpTypes
  <2>2. last' \in Block /\ mode' \in {"up", "down", "starting"} \cup PanicMsg
    BY <1>t, <1>11, <2>1 DEF UndoLastBlock, Panic, PanicMsg
  <2>3. TypeOK'
    BY <1>t, <1>11, <2>2 DEF UndoLastBlock, netVars, TypeOK
  <2>4. TreeTypes'
    BY <1>t, <1>11 DEF UndoLastBlock, TreeTypes
  <2>5. OpTypes'
    BY <1>t, <1>11 DEF UndoLastBlock, OpTypes, NoParse
  <2>6. QED
    BY <2>3, <2>4, <2>5 DEF TypeInv
<1>12. CASE UndoDone
  <2>1. TypeOK'
    BY <1>t, <1>12 DEF UndoDone, netVars, treeVars, TypeOK
  <2>2. TreeTypes'
    BY <1>t, <1>12 DEF UndoDone, treeVars, TreeTypes
  <2>3. OpTypes'
    BY <1>t, <1>12 DEF UndoDone, OpTypes, NoParse, TypeOK
  <2>4. QED
    BY <2>1, <2>2, <2>3 DEF TypeInv
<1>n. ASSUME Parsing, NextToParse # None
      PROVE  NextToParse \in Block \ {Root} /\ Parent[NextToParse] = last /\ op.dst \in Block /\ op.blk \in Block
  <2>1. op.dst \in Block /\ op.blk \in Block
    BY <1>t, <1>n DEF Parsing, OpTypes
  <2>2. QED
    BY <1>t, <1>n, <2>1, PathIn DEF NextToParse
<1>13. CASE ParseApply
  <2>1. NextToParse \in Block
    BY <1>n, <1>13 DEF ParseApply
  <2>2. PICK n \in Block : n = NextToParse
    BY <2>1
  <2>3. store' = BS!Trusted(store, n) /\ last' = n
    BY <1>13, <2>2 DEF ParseApply
  <2>4. store' \in [Block -> BS!Entry]
    <3>1. PICK s0 \in [Block -> BS!Entry] : s0 = store
      BY <1>t
    <3>2. QED
      BY <2>3, <3>1, TrustedIs
  <2>5. UNCHANGED <<mode, BlockIndex, Childs, hasData, op, netVars, parseTill, saved, crashes>>
    BY <1>13 DEF ParseApply
  <2>6. TypeOK'
    BY <1>t, <2>3, <2>4, <2>5 DEF netVars, TypeOK
  <2>7. TreeTypes'
    BY <1>t, <2>5 DEF TreeTypes
  <2>8. OpTypes'
    BY <1>t, <2>5 DEF OpTypes, NoParse
  <2>9. QED
    BY <2>6, <2>7, <2>8 DEF TypeInv
<1>14. CASE ParseNoData
  <2>1. op' = [op EXCEPT !.pc = "retry"] /\ UNCHANGED <<mode, store, treeVars, netVars, parseTill, saved, crashes>>
        /\ op.pc = "parse"
    BY <1>14 DEF ParseNoData, Parsing
  <2>2. TypeOK'
    BY <1>t, <2>1 DEF netVars, treeVars, TypeOK
  <2>3. TreeTypes'
    BY <1>t, <2>1 DEF treeVars, TreeTypes
  <2>4. OpTypes'
    BY <1>t, <2>1 DEF OpTypes, NoParse, TypeOK
  <2>5. QED
    BY <2>2, <2>3, <2>4 DEF TypeInv
<1>15. CASE ParsePanic
  <2>1. mode' \in PanicMsg /\ UNCHANGED <<store, treeVars, op, netVars, parseTill, saved, crashes>>
    BY <1>15 DEF ParsePanic, Panic, PanicMsg
  <2>2. TypeOK'
    BY <1>t, <2>1 DEF netVars, treeVars, TypeOK
  <2>3. TreeTypes'
    BY <1>t, <2>1 DEF treeVars, TreeTypes
  <2>4. OpTypes'
    BY <1>t, <2>1 DEF OpTypes, NoParse
  <2>5. QED
    BY <2>2, <2>3, <2>4 DEF TypeInv
<1>16. CASE ParseFails
  <2>1. PICK n : n = NextToParse
    OBVIOUS
  <2>2. n \in Block \ {Root} /\ op.dst \in Block /\ op.blk \in Block
    BY <1>n, <1>16, <2>1 DEF ParseFails
  <2>3. UNCHANGED <<hasData, last, netVars, parseTill, saved, crashes>>
    BY <1>16 DEF ParseFails
  <2>4. CASE DeletePanics(n) \/ ~HasChild(Parent[n], n)
    <3>1. mode' \in PanicMsg /\ UNCHANGED <<store, BlockIndex, Childs, op>>
      BY <1>16, <2>1, <2>4 DEF ParseFails, Panic, PanicMsg
    <3>2. TypeOK'
      BY <1>t, <2>3, <3>1 DEF netVars, TypeOK
    <3>3. TreeTypes'
      BY <1>t, <3>1 DEF TreeTypes
    <3>4. OpTypes'
      BY <1>t, <2>3, <3>1 DEF OpTypes, NoParse
    <3>5. QED
      BY <3>2, <3>3, <3>4 DEF TypeInv
  <2>5. CASE ~(DeletePanics(n) \/ ~HasChild(Parent[n], n))
    <3>1. DeleteBranch(n) /\ op' = [op EXCEPT !.pc = "retry"] /\ UNCHANGED mode
      BY <1>16, <2>1, <2>5 DEF ParseFails
    <3>2. TreeTypes' /\ store' \in [Block -> BS!Entry]
      BY <1>t, <2>2, <2>5, <3>1, DeleteTypes
    <3>3. TypeOK'
      BY <1>t, <2>3, <3>1, <3>2 DEF netVars, TypeOK, TreeTypes
    <3>4. OpTypes'
      BY <1>t, <2>2, <2>3, <3>1 DEF OpTypes, NoParse, TypeOK
    <3>5. QED
      BY <3>2, <3>3, <3>4 DEF TypeInv
  <2>6. QED
    BY <2>4, <2>5
<1>17. CASE ParseRetry
  <2>1. PICK f \in Block : f = FindFarthestNode
    BY <1>t, FarthestIn
  <2>2. op' = [op EXCEPT !.pc = "move", !.dst = f] /\ op.pc = "retry"
        /\ UNCHANGED <<mode, store, treeVars, netVars, parseTill, saved, crashes>>
    BY <1>17, <2>1 DEF ParseRetry
  <2>3. TypeOK'
    BY <1>t, <2>1, <2>2 DEF netVars, treeVars, TypeOK
  <2>4. TreeTypes'
    BY <1>t, <2>2 DEF treeVars, TreeTypes
  <2>5. OpTypes'
    BY <1>t, <2>1, <2>2 DEF OpTypes, NoParse, TypeOK
  <2>6. QED
    BY <2>3, <2>4, <2>5 DEF TypeInv
<1>18. CASE ParseDone
  <2>0. UNCHANGED <<store, treeVars, announced, arrived, saved, crashes>> /\ op.blk \in Block /\ Return
    BY <1>t, <1>18 DEF ParseDone, OpTypes
  <2>1. /\ op' = IdleOp /\ mode' \in {mode} \cup PanicMsg /\ DiscardedBlocks' \in SUBSET Block
        /\ parseTill' \in {parseTill, NoParse}
    BY <1>t, <2>0, ReturnTypes
  <2>2. TypeOK'
    BY <1>t, <2>0, <2>1 DEF treeVars, TypeOK, IdleOp, NoParse
  <2>3. TreeTypes'
    BY <1>t, <2>0 DEF treeVars, TreeTypes
  <2>4. OpTypes'
    BY <1>t, <2>1 DEF OpTypes, IdleOp, NoParse
  <2>5. QED
    BY <2>2, <2>3, <2>4 DEF TypeInv
<1>19. ASSUME NEW b \in Block, WriteBlock(b) PROVE TypeInv'
  <2>1. store' \in [Block -> BS!Entry]
    <3>1. PICK s0 \in [Block -> BS!Entry] : s0 = store
      BY <1>t
    <3>2. QED
      BY <1>19, <3>1, WrittenIs DEF WriteBlock
  <2>2. UNCHANGED <<mode, treeVars, op, netVars, parseTill, saved, crashes>>
    BY <1>19 DEF WriteBlock
  <2>3. TypeOK'
    BY <1>t, <2>1, <2>2 DEF treeVars, netVars, TypeOK
  <2>4. TreeTypes'
    BY <1>t, <2>2 DEF treeVars, TreeTypes
  <2>5. OpTypes'
    BY <1>t, <2>2 DEF OpTypes, NoParse
  <2>6. QED
    BY <2>3, <2>4, <2>5 DEF TypeInv
<1>20. CASE SaveUtxo
  <2>1. saved' = last /\ UNCHANGED <<mode, store, treeVars, op, netVars, parseTill, crashes>>
    BY <1>20 DEF SaveUtxo
  <2>2. TypeOK'
    BY <1>t, <2>1 DEF treeVars, netVars, TypeOK
  <2>3. TreeTypes'
    BY <1>t, <2>1 DEF treeVars, TreeTypes
  <2>4. OpTypes'
    BY <1>t, <2>1 DEF OpTypes, NoParse
  <2>5. QED
    BY <2>2, <2>3, <2>4 DEF TypeInv
<1>21. CASE Crash
  <2>1. store' \in [Block -> BS!Entry]
    <3>1. PICK s0 \in [Block -> BS!Entry] : s0 = store
      BY <1>t
    <3>2. QED
      BY <1>21, <3>1, ReloadedIs DEF Crash
  <2>2. crashes' \in 0..MaxCrash
    BY <1>t, <1>21, ChainAssumption DEF Crash, TypeOK
  <2>3. TypeOK'
    BY <1>t, <1>21, <2>1, <2>2 DEF Crash, treeVars, TypeOK, IdleOp, NoParse
  <2>4. TreeTypes'
    BY <1>t, <1>21 DEF Crash, treeVars, TreeTypes
  <2>5. OpTypes'
    BY <1>21 DEF Crash, OpTypes, IdleOp, NoParse
  <2>6. QED
    BY <2>3, <2>4, <2>5 DEF TypeInv
<1>22. CASE LoadBlockIndex
  <2>1. PICK disk : disk = {Root} \cup {b \in Block : BS!Has(b)}
    OBVIOUS
  <2>2. PICK tree :
              /\ IsLoaded(tree, disk) /\ disk \in SUBSET Block /\ Root \in disk
              /\ BlockIndex' = tree.index /\ Childs' = tree.childs /\ announced' = tree.index
              /\ hasData' = [b \in Block |-> b \in tree.index /\ BS!Has(b)]
              /\ IF saved \in tree.index THEN mode' = "starting" /\ last' = saved
                 ELSE Panic("Last Block Hash not found") /\ UNCHANGED last
    BY <1>22, <2>1, LoadIs
  <2>5. /\ BlockIndex' = tree.index /\ Childs' = tree.childs /\ announced' = tree.index
        /\ IF saved \in tree.index THEN mode' = "starting" /\ last' = saved
           ELSE Panic("Last Block Hash not found") /\ UNCHANGED last
    BY <2>2
  <2>6. /\ tree.index \in SUBSET disk /\ tree.childs \in [Block -> Seq(Block)] /\ GoodEdges(tree.childs)
        /\ \A n \in Block : \A k \in DOMAIN tree.childs[n] : tree.childs[n][k] \in tree.index
    BY <2>2 DEF IsLoaded
  <2>7. mode' \in {"up", "down", "starting"} \cup PanicMsg /\ last' \in Block
    BY <1>t, <2>5 DEF Panic, PanicMsg, TypeOK
  <2>8. hasData' \in [Block -> BOOLEAN] /\ UNCHANGED <<store, op, arrived, DiscardedBlocks, parseTill, saved, crashes>>
    BY <1>22, <2>2 DEF LoadBlockIndex
  <2>9. TreeTypes'
    BY <2>2, <2>5, <2>6 DEF TreeTypes, Linked
  <2>10. TypeOK'
    BY <1>t, <2>2, <2>5, <2>6, <2>7, <2>8 DEF TypeOK
  <2>11. OpTypes'
    BY <1>t, <2>8 DEF OpTypes, NoParse
  <2>12. QED
    BY <2>9, <2>10, <2>11 DEF TypeInv
<1>23. CASE HostInit
  <2>1. PICK f \in Block : f = FindFarthestNode
    BY <1>t, FarthestIn
  <2>2. parseTill' \in {[cur |-> last, end |-> f], NoParse} /\ mode' = "up"
        /\ UNCHANGED <<store, treeVars, op, netVars, saved, crashes>>
    BY <1>23, <2>1 DEF HostInit
  <2>3. TypeOK'
    BY <1>t, <2>1, <2>2 DEF netVars, treeVars, TypeOK, NoParse
  <2>4. TreeTypes'
    BY <1>t, <2>2 DEF treeVars, TreeTypes
  <2>5. OpTypes'
    BY <1>t, <2>1, <2>2 DEF OpTypes, NoParse
  <2>6. QED
    BY <2>3, <2>4, <2>5 DEF TypeInv
<1>24. CASE DoTheBlocks
  <2>1. PICK n : n = FindPathTo(parseTill.cur, parseTill.end)
    OBVIOUS
  <2>2. parseTill.cur \in Block /\ parseTill.end \in Block /\ UNCHANGED <<store, treeVars, op, announced, DiscardedBlocks, saved, crashes>>
    BY <1>t, <1>24 DEF DoTheBlocks, OpTypes
  <2>3. TreeTypes'
    BY <1>t, <2>2 DEF treeVars, TreeTypes
  <2>4. CASE n = None \/ (hasData[n] /\ ~BS!Has(n))
    <3>1. mode' \in PanicMsg /\ UNCHANGED <<arrived, parseTill>>
      BY <1>24, <2>1, <2>4 DEF DoTheBlocks, Panic, PanicMsg
    <3>2. TypeOK'
      BY <1>t, <2>2, <3>1 DEF treeVars, TypeOK
    <3>3. OpTypes'
      BY <1>t, <2>2, <3>1 DEF OpTypes, NoParse
    <3>4. QED
      BY <2>3, <3>2, <3>3 DEF TypeInv
  <2>5. CASE ~(n = None \/ (hasData[n] /\ ~BS!Has(n)))
    <3>0. PICK m : m = IF hasData[n] THEN n ELSE parseTill.end
      OBVIOUS
    <3>1. arrived' \in {arrived \cup {n}, arrived} /\ parseTill' = [parseTill EXCEPT !.cur = m] /\ UNCHANGED mode
      BY <1>24, <2>1, <2>5, <3>0 DEF DoTheBlocks
    <3>2. n \in Block /\ m \in Block
      BY <1>t, <2>1, <2>2, <2>5, <3>0, PathIn
    <3>3. TypeOK'
      BY <1>t, <2>2, <3>1, <3>2 DEF treeVars, TypeOK
    <3>4. OpTypes'
      BY <1>t, <2>2, <3>1, <3>2 DEF OpTypes, NoParse, TypeOK
    <3>5. QED
      BY <2>3, <3>3, <3>4 DEF TypeInv
  <2>6. QED
    BY <2>4, <2>5
<1>25. QED
  BY <1>1, <1>2, <1>3, <1>4, <1>5, <1>6, <1>7, <1>8, <1>9, <1>10, <1>11, <1>12, <1>13, <1>14, <1>15, <1>16,
     <1>17, <1>18, <1>19, <1>20, <1>21, <1>22, <1>23, <1>24 DEF Next, MainNext

\* Every variable keeps its type, whatever blocks exist and whichever of them
\* are bad or malformed: in particular the head is always a block, and
\* MoveToBlock, ParseTillBlock and do_the_blocks never leave the tree.
THEOREM TypeCorrect == Spec => []TypeOK
<1>1. TypeInv => TypeOK
  BY DEF TypeInv
<1>2. QED
  BY <1>1, TypeInit, TypeNext, PTL DEF Spec

-----------------------------------------------------------------------------
(* A node that meets valid blocks only *)

\* The scripts of all blocks verify.
AllValid == Bad = {}

\* What is stored has all its ancestors stored, and what is on disk has them
\* on disk; it passed PostCheckBlock and was never found invalid.
StoreInv ==
    /\ \A b \in Block : BS!Has(b) => b # Root /\ b \notin Malformed /\ ~store[b].invalid
    /\ \A b \in Block \ {Root} : BS!Has(b) => Parent[b] = Root \/ BS!Has(Parent[b])
    /\ \A b \in Block \ {Root} :
          store[b].st = "disk" => Parent[b] = Root \/ store[Parent[b]].st = "disk"

\* The index, the lists of children and the store describe the same tree.
TreeFacts ==
    /\ \A b \in Block : hasData[b] <=> BS!Has(b)
    /\ \A b \in Block : BS!Has(b) => b \in BlockIndex
    /\ Root \in BlockIndex
    /\ \A b \in BlockIndex \ {Root} : Parent[b] \in BlockIndex /\ Linked(Childs, Parent[b], b)
    /\ last = Root \/ BS!Has(last)

\* Blocks on the way from the network to the tree: the tree has their header,
\* unless a malformed block below them made it go.
NetFacts ==
    /\ \A b \in arrived : /\ b # Root /\ b \notin Malformed
                          /\ b \in BlockIndex \/ AncOf[b] \cap Malformed # {}
    /\ \A b \in announced \ (arrived \cup DiscardedBlocks \cup {Root}) :
          hasData[b] \/ b \in BlockIndex

TreeInv == mode \in {"up", "starting"} => TreeFacts /\ NetFacts

\* The main thread moves to a block that is stored.
OpInv ==
    /\ op.pc # "idle" => /\ op.pc \in {"move", "undo", "parse"} /\ op.dst = op.blk /\ BS!Has(op.dst)
    /\ op.pc = "parse" => last \in AncOf[op.dst]

\* A restart: nothing is under way, and until the blocks found on disk are
\* parsed there are no others.
StartInv ==
    /\ mode \in {"down", "starting"} =>
          op = IdleOp /\ arrived = {} /\ DiscardedBlocks = {} /\ parseTill = NoParse
    /\ mode = "starting" \/ (mode = "up" /\ parseTill # NoParse) =>
          /\ \A b \in BlockIndex \ {Root} : BS!Has(b)
          /\ \A b \in arrived : BS!Has(b)
          /\ parseTill # NoParse => parseTill.cur \in BlockIndex /\ parseTill.end \in BlockIndex

ValidInv == TypeInv /\ StoreInv /\ TreeInv /\ OpInv /\ StartInv

\* All ancestors of a stored block are stored.
LEMMA StoredAncestors ==
    ASSUME StoreInv, NEW b \in Block, BS!Has(b), NEW a \in AncOf[b]
    PROVE  a = Root \/ BS!Has(a)
<1> DEFINE S == {x \in Block : x = Root \/ BS!Has(x)}
<1>1. b \in S /\ S \in SUBSET Block
  OBVIOUS
<1>2. \A x \in S \ {Root} : Parent[x] \in S
  BY ChainAssumption DEF StoreInv
<1>3. AncOf[b] \subseteq S
  <2> HIDE DEF S
  <2>1. PICK T \in SUBSET Block : T = S
    BY <1>1
  <2>2. QED
    BY <1>1, <1>2, <2>1, AncLeast
<1>4. QED
  BY <1>3

\* All ancestors of a block on disk are on disk.
LEMMA DiskAncestors ==
    ASSUME StoreInv, NEW b \in Block, store[b].st = "disk", NEW a \in AncOf[b]
    PROVE  a = Root \/ store[a].st = "disk"
<1> DEFINE S == {x \in Block : x = Root \/ store[x].st = "disk"}
<1>1. b \in S /\ S \in SUBSET Block
  OBVIOUS
<1>2. \A x \in S \ {Root} : Parent[x] \in S
  BY ChainAssumption DEF StoreInv
<1>3. AncOf[b] \subseteq S
  <2> HIDE DEF S
  <2>1. PICK T \in SUBSET Block : T = S
    BY <1>1
  <2>2. QED
    BY <1>1, <1>2, <2>1, AncLeast
<1>4. QED
  BY <1>3

\* All ancestors of a block of the tree are in the tree.
LEMMA IndexAncestors ==
    ASSUME BlockIndex \in SUBSET Block, TreeFacts, NEW b \in BlockIndex
    PROVE  AncOf[b] \subseteq BlockIndex
<1>1. PICK T \in SUBSET Block : T = BlockIndex
  OBVIOUS
<1>2. b \in T /\ \A x \in T \ {Root} : Parent[x] \in T
  BY <1>1 DEF TreeFacts
<1>3. AncOf[b] \subseteq T
  BY <1>2, AncLeast
<1>4. QED
  BY <1>1, <1>3

\* A node is in the index exactly if Childs leads to it.
LEMMA IndexReachable ==
    ASSUME TreeTypes, TreeFacts, NEW b \in Block
    PROVE  b \in BlockIndex <=> Reachable(b)
<1>1. ASSUME b \in BlockIndex PROVE Reachable(b)
  <2>1. \A a \in AncOf[b] \ {Root} : Linked(Childs, Parent[a], a)
    BY <1>1, IndexAncestors DEF TreeTypes, TreeFacts
  <2>2. QED
    BY <2>1 DEF Reachable, Linked
<1>2. ASSUME Reachable(b) PROVE b \in BlockIndex
  <2>1. CASE b = Root
    BY <2>1 DEF TreeFacts
  <2>2. CASE b # Root
    <3>1. b \in AncOf[b] /\ Parent[b] \in Block
      BY <2>2, AncSelf, ChainAssumption
    <3>2. Linked(Childs, Parent[b], b)
      BY <1>2, <2>2, <3>1 DEF Reachable, Linked
    <3>3. QED
      BY <3>1, <3>2 DEF TreeTypes
  <2>3. QED
    BY <2>1, <2>2
<1>3. QED
  BY <1>1, <1>2

\* From an ancestor of end, FindPathTo goes towards end.
LEMMA PathTowards ==
    ASSUME TreeTypes, TreeFacts, NEW end \in BlockIndex, NEW n \in AncOf[end], n # end
    PROVE  FindPathTo(n, end) = ToWards(n, end)
<1>t. end \in Block /\ n \in Block
  BY AncSelf DEF TreeTypes
<1>1. PICK c : c = ToWards(n, end)
  OBVIOUS
<1>2. c \in AncOf[end] /\ c \in Block /\ c # Root /\ Parent[c] = n
  BY <1>t, <1>1, ToWardsIn, Rooted
<1>3. Linked(Childs, n, c)
  BY <1>2, IndexAncestors DEF TreeTypes, TreeFacts
<1>4. PICK s \in Seq(Block) : s = Childs[n]
  BY <1>t DEF TreeTypes
<1>5. PICK k \in DOMAIN s : s[k] = c
  BY <1>3, <1>4 DEF Linked
<1>6. ~(Height(end) <= Height(n))
  BY <1>t, HeightLess, Rooted
<1>7. s # <<>> /\ (Len(s) = 1 => s[1] = c)
  BY <1>4, <1>5
<1>8. CASE Len(s) = 1
  BY <1>1, <1>4, <1>6, <1>7, <1>8 DEF FindPathTo
<1>9. CASE Len(s) # 1
  BY <1>1, <1>4, <1>6, <1>7, <1>9 DEF FindPathTo
<1>10. QED
  BY <1>8, <1>9

\* FindPathTo stays in the tree.
LEMMA PathIndexed ==
    ASSUME TreeTypes, TreeFacts, NEW end \in BlockIndex, NEW n \in BlockIndex, FindPathTo(n, end) # None
    PROVE  FindPathTo(n, end) \in BlockIndex \ {Root}
<1>t. end \in Block /\ n \in Block
  BY DEF TreeTypes
<1>1. PICK c : c = FindPathTo(n, end)
  OBVIOUS
<1>2. c \in Block \ {Root} /\ Parent[c] = n
  BY <1>t, <1>1, PathIn DEF TreeTypes
<1>3. PICK s \in Seq(Block) : s = Childs[n]
  BY <1>t DEF TreeTypes
<1>4. ~(Height(end) <= Height(n)) /\ s # <<>>
  BY <1>1, <1>3 DEF FindPathTo
<1>5. CASE Len(s) = 1
  <2>1. c = s[1]
    BY <1>1, <1>3, <1>4, <1>5 DEF FindPathTo
  <2>2. DOMAIN s = 1..1
    BY <1>3, <1>5
  <2>3. 1 \in DOMAIN s
    BY <2>2
  <2>4. Linked(Childs, n, c)
    BY <1>3, <2>1, <2>3 DEF Linked
  <2>5. QED
    BY <1>t, <1>1, <1>2, <2>4 DEF TreeTypes
<1>6. CASE Len(s) # 1
  <2>1. n \in AncOf[end] /\ c = ToWards(n, end)
    BY <1>1, <1>3, <1>4, <1>6 DEF FindPathTo
  <2>2. n # end
    BY <1>t, <1>4, Rooted, HeightRange
  <2>3. c \in AncOf[end]
    BY <1>t, <2>1, <2>2, Rooted, ToWardsIn
  <2>4. QED
    BY <1>1, <1>2, <2>3, IndexAncestors DEF TreeTypes
<1>7. QED
  BY <1>5, <1>6

\* A block that LocalAcceptBlock takes is in the tree, and all below it is
\* stored.
LEMMA AcceptableIn ==
    ASSUME TypeOK, StoreInv, TreeFacts, NetFacts, NEW b \in Block \ {Root}, Acceptable(b)
    PROVE  /\ b \in BlockIndex /\ b \notin Malformed
           /\ \A a \in AncOf[b] \ {b} : a = Root \/ BS!Has(a)
           /\ Parent[b] = Root \/ BS!Has(Parent[b])
<1>t. last \in Block /\ AncOf[b] \in SUBSET Block /\ b \in AncOf[b]
  BY AncSelf DEF TypeOK
<1>1. ASSUME NEW a \in AncOf[b] \ {b} PROVE a = Root \/ BS!Has(a)
  <2>1. a \in Block /\ (a \in AncOf[last] \/ hasData[a])
    BY <1>t, <1>1 DEF Acceptable, HasAllParents, OnActiveBranch
  <2>2. CASE hasData[a]
    BY <2>1, <2>2 DEF TreeFacts
  <2>3. CASE a \in AncOf[last]
    <3>1. CASE last = Root
      BY <2>3, <3>1, AncRoot, Rooted
    <3>2. CASE BS!Has(last)
      BY <1>t, <2>3, <3>2, StoredAncestors
    <3>3. QED
      BY <3>1, <3>2 DEF TreeFacts
  <2>4. QED
    BY <2>1, <2>2, <2>3
<1>2. b \in arrived /\ b \notin Malformed /\ (b \in BlockIndex \/ AncOf[b] \cap Malformed # {})
  BY DEF Acceptable, NetFacts
<1>3. \A a \in AncOf[b] : a \notin Malformed
  <2>1. Root \notin Malformed
    BY ChainAssumption
  <2>2. QED
    BY <1>t, <1>1, <1>2, <2>1 DEF StoreInv
<1>4. Parent[b] \in AncOf[b] /\ Parent[b] # b
  <2>1. b \notin AncOf[Parent[b]] /\ Parent[b] \in Block
    BY AncAcyclic, Rooted, ChainAssumption
  <2>2. QED
    BY <1>t, <2>1, AncParent, AncSelf, Rooted
<1>5. QED
  BY <1>1, <1>2, <1>3, <1>4

\* The next block that ParseTillBlock applies.
LEMMA ParsingIn ==
    ASSUME ValidInv, Parsing
    PROVE  /\ NextToParse \in AncOf[op.dst] /\ NextToParse \in Block \ {Root} /\ NextToParse # None
           /\ BS!Has(NextToParse) /\ hasData[NextToParse]
<1>1. TreeTypes /\ TreeFacts /\ StoreInv /\ op.dst \in Block /\ BS!Has(op.dst) /\ op.dst \in BlockIndex
      /\ last \in AncOf[op.dst] /\ last # op.dst
  BY DEF ValidInv, TypeInv, OpTypes, TreeInv, TreeFacts, OpInv, Parsing
<1>2. NextToParse = ToWards(last, op.dst)
  BY <1>1, PathTowards DEF NextToParse
<1>3. PICK d \in Block : d = op.dst
  BY <1>1
<1>4. PICK l \in AncOf[d] : l = last
  BY <1>1, <1>3
<1>5. PICK n : n = ToWards(l, d)
  OBVIOUS
<1>6. n \in AncOf[d] /\ n \in Block /\ n # Root
  BY <1>1, <1>3, <1>4, <1>5, ToWardsIn, Rooted
<1>7. BS!Has(n)
  BY <1>1, <1>3, <1>6, StoredAncestors
<1>8. n # None
  BY <1>6, ChainAssumption
<1>9. QED
  BY <1>1, <1>2, <1>3, <1>4, <1>5, <1>6, <1>7, <1>8 DEF TreeFacts

LEMMA ValidInit == Init => ValidInv
<1> SUFFICES ASSUME Init PROVE ValidInv
  OBVIOUS
<1>1. TypeInv
  BY TypeInit
<1>2. /\ Root \in Start /\ Start \in SUBSET Block /\ Tip \in Block /\ Start = AncOf[Tip]
      /\ \A b \in Start \ {Root} : Parent[b] \in Start /\ Linked(Childs, Parent[b], b)
  BY FirstChilds, ChainAssumption
<1>3. \A b \in Block : /\ b \in Start \ {Root} => store[b].st = "disk" /\ store[b].invalid = FALSE
                       /\ b \notin Start \ {Root} => store[b].st = "none"
  BY DEF Init, BS!Absent
<1>4. \A b \in Block : BS!Has(b) <=> b \in Start \ {Root}
  BY <1>3 DEF BS!Has
<1>5. \A b \in Start : b \notin Malformed
  BY ChainAssumption
<1>6. StoreInv
  BY <1>2, <1>3, <1>4, <1>5 DEF StoreInv
<1>7. TreeFacts
  <2>1. hasData = [b \in Block |-> b \in Start \ {Root}] /\ BlockIndex = Start /\ last = Tip
    BY DEF Init
  <2>2. Tip \in Start
    BY <1>2, AncSelf
  <2>3. QED
    BY <1>2, <1>4, <2>1, <2>2 DEF TreeFacts
<1>8. NetFacts
  BY DEF Init, NetFacts
<1>9. OpInv /\ StartInv
  BY DEF Init, IdleOp, OpInv, StartInv
<1>10. QED
  BY <1>1, <1>6, <1>7, <1>8, <1>9 DEF ValidInv, TreeInv

\* The tree after a header.
LEMMA HeaderFacts ==
    ASSUME ValidInv, TreeFacts, NEW b \in Block \ {Root}, PreCheckBlock(b), AcceptHeader(b),
           store' = store, last' = last
    PROVE  /\ TreeFacts' /\ BlockIndex' = BlockIndex \cup {b}
           /\ \A x \in Block : x # b => hasData'[x] = hasData[x]
<1>1. TreeTypes /\ hasData \in [Block -> BOOLEAN]
  BY DEF ValidInv, TypeInv, TypeOK
<1>2. b \notin BlockIndex /\ Parent[b] \in BlockIndex /\ Parent[b] \in Block /\ ~BS!Has(b)
  BY ChainAssumption DEF PreCheckBlock, TreeFacts
<1>3. IsWithChild(WithChild(Parent[b], b), Childs, b)
  BY <1>1, <1>2, WithChildTree DEF TreeTypes
<1>4. PICK ch : ch = WithChild(Parent[b], b)
  OBVIOUS
<1>5. /\ Childs' = ch /\ BlockIndex' = BlockIndex \cup {b}
      /\ \A x \in Block : hasData'[x] <=> (x # b /\ hasData[x])
      /\ \A x \in Block : x # b => hasData'[x] = hasData[x]
  BY <1>1, <1>4 DEF AcceptHeader
<1>6. \A n \in Block : \A x \in Block : Linked(ch, n, x) <=> (n # b /\ Linked(Childs, n, x)) \/ (n = Parent[b] /\ x = b)
  BY <1>3, <1>4 DEF IsWithChild
<1>7. \A x \in BlockIndex' \ {Root} : Parent[x] \in BlockIndex' /\ Linked(ch, Parent[x], x)
  <2> TAKE x \in BlockIndex' \ {Root}
  <2>1. CASE x = b
    BY <1>2, <1>5, <1>6, <2>1
  <2>2. CASE x # b
    <3>1. x \in BlockIndex \ {Root} /\ x \in Block
      BY <1>1, <1>5, <2>2 DEF TreeTypes
    <3>2. Parent[x] \in BlockIndex /\ Linked(Childs, Parent[x], x) /\ Parent[x] \in Block /\ Parent[x] # b
      BY <1>1, <1>2, <3>1 DEF TreeFacts, TreeTypes
    <3>3. QED
      BY <1>5, <1>6, <3>1, <3>2
  <2>3. QED
    BY <2>1, <2>2
<1>8. \A x \in Block : hasData'[x] <=> store'[x].st # "none"
  BY <1>2, <1>5 DEF TreeFacts, BS!Has
<1>9. (\A x \in Block : store'[x].st # "none" => x \in BlockIndex') /\ Root \in BlockIndex'
  BY <1>5 DEF TreeFacts, BS!Has
<1>10. last' = Root \/ store'[last'].st # "none"
  BY DEF TreeFacts, BS!Has
<1>11. TreeFacts'
  BY <1>5, <1>7, <1>8, <1>9, <1>10 DEF TreeFacts, BS!Has
<1>12. QED
  BY <1>5, <1>11

\* The store and the tree after CommitBlock of b: the store has the block.
CommitStore(b) ==
    /\ \A x \in Block : x # b => store'[x] = store[x]
    /\ store'[b].st = (IF store[b].st = "none" THEN "queued" ELSE store[b].st)
    /\ store'[b].invalid <=> (store[b].st # "none" /\ store[b].invalid)

LEMMA CommitFacts ==
    ASSUME ValidInv, TreeFacts, NetFacts, NEW b \in Block \ {Root}, Acceptable(b), CommitStore(b),
           hasData' = [hasData EXCEPT ![b] = TRUE], UNCHANGED <<BlockIndex, Childs, announced, DiscardedBlocks>>,
           arrived' = arrived \ {b}, last' \in {last, b}
    PROVE  /\ StoreInv' /\ TreeFacts' /\ NetFacts'
           /\ \A x \in Block : store'[x].st # "none" <=> x = b \/ BS!Has(x)
<1>1. /\ TreeTypes /\ StoreInv /\ TypeOK /\ hasData \in [Block -> BOOLEAN] /\ store \in [Block -> BS!Entry]
      /\ announced \in SUBSET Block /\ last \in Block
  BY DEF ValidInv, TypeInv, TypeOK
<1>2. b \in BlockIndex /\ b \notin Malformed /\ (Parent[b] = Root \/ BS!Has(Parent[b])) /\ Parent[b] \in Block /\ Parent[b] # b
  <2>1. b \notin AncOf[Parent[b]] /\ Parent[b] \in Block
    BY AncAcyclic, Rooted, ChainAssumption
  <2>2. QED
    BY <1>1, <2>1, AcceptableIn, AncSelf
<1>3. \A x \in Block : store'[x].st # "none" <=> x = b \/ store[x].st # "none"
  BY DEF CommitStore
<1>4. \A x \in Block : store'[x].st = "disk" <=> store[x].st = "disk"
  BY DEF CommitStore
<1>5. \A x \in Block : store[x].st # "none" /\ ~store[x].invalid => ~store'[x].invalid
  BY DEF CommitStore
<1>6. StoreInv'
  <2>1. ASSUME NEW x \in Block, store'[x].st # "none" PROVE x # Root /\ x \notin Malformed /\ ~store'[x].invalid
    <3>1. CASE store[x].st # "none"
      BY <1>1, <1>5, <3>1 DEF StoreInv, BS!Has
    <3>2. CASE store[x].st = "none"
      BY <1>2, <1>3, <2>1, <3>2 DEF CommitStore
    <3>3. QED
      BY <3>1, <3>2
  <2>2. ASSUME NEW x \in Block \ {Root}, store'[x].st # "none" PROVE Parent[x] = Root \/ store'[Parent[x]].st # "none"
    <3>1. Parent[x] \in Block
      BY ChainAssumption
    <3>2. x = b \/ store[x].st # "none"
      BY <1>3, <2>2
    <3>3. Parent[x] = Root \/ store[Parent[x]].st # "none"
      BY <1>1, <1>2, <3>2 DEF StoreInv, BS!Has
    <3>4. QED
      BY <1>3, <3>1, <3>3
  <2>3. ASSUME NEW x \in Block \ {Root}, store'[x].st = "disk" PROVE Parent[x] = Root \/ store'[Parent[x]].st = "disk"
    <3>1. Parent[x] \in Block
      BY ChainAssumption
    <3>2. QED
      BY <1>1, <1>4, <2>3, <3>1 DEF StoreInv
  <2>4. QED
    BY <2>1, <2>2, <2>3 DEF StoreInv, BS!Has
<1>7. \A x \in Block : hasData'[x] <=> (x = b \/ hasData[x])
  BY <1>1
<1>8. TreeFacts'
  <2>1. \A x \in Block : hasData'[x] <=> store'[x].st # "none"
    BY <1>3, <1>7 DEF TreeFacts, BS!Has
  <2>2. \A x \in Block : store'[x].st # "none" => x \in BlockIndex'
    BY <1>2, <1>3 DEF TreeFacts, BS!Has
  <2>3. last' = Root \/ store'[last'].st # "none"
    BY <1>1, <1>3 DEF TreeFacts, BS!Has
  <2>4. Root \in BlockIndex' /\ \A x \in BlockIndex' \ {Root} : Parent[x] \in BlockIndex' /\ Linked(Childs', Parent[x], x)
    BY DEF TreeFacts
  <2>5. QED
    BY <2>1, <2>2, <2>3, <2>4 DEF TreeFacts, BS!Has
<1>9. NetFacts'
  <2>1. \A x \in arrived' : x # Root /\ x \notin Malformed /\ (x \in BlockIndex' \/ AncOf[x] \cap Malformed # {})
    BY DEF NetFacts
  <2>2. \A x \in announced' \ (arrived' \cup DiscardedBlocks' \cup {Root}) : hasData'[x] \/ x \in BlockIndex'
    BY <1>1, <1>2, <1>7 DEF NetFacts
  <2>3. QED
    BY <2>1, <2>2 DEF NetFacts
<1>10. QED
  BY <1>3, <1>6, <1>8, <1>9 DEF BS!Has

\* The store and the tree after a malformed block was given up.
LEMMA MalformedFacts ==
    ASSUME ValidInv, TreeFacts, NetFacts, NEW b \in BlockIndex \ {Root}, b \in Malformed, DeleteBranch(b),
           announced' = announced \ {c \in Branch(b) : ToGet(c)},
           UNCHANGED <<hasData, last, arrived, DiscardedBlocks>>
    PROVE  /\ StoreInv' /\ TreeFacts' /\ NetFacts'
           /\ \A x \in Block : store'[x].st # "none" <=> BS!Has(x)
<1>1. /\ TreeTypes /\ StoreInv /\ TypeOK /\ store \in [Block -> BS!Entry] /\ b \in Block
      /\ announced \in SUBSET Block /\ last \in Block /\ arrived \in SUBSET Block
  BY DEF ValidInv, TypeInv, TypeOK
<1>2. \A x \in Branch(b) : x \in Block /\ b \in AncOf[x] /\ ~BS!Has(x)
  <2> TAKE x \in Branch(b)
  <2>1. x \in Block /\ b \in AncOf[x]
    BY <1>1, BranchSelf
  <2>2. ~BS!Has(x)
    BY <1>1, <2>1, StoredAncestors DEF StoreInv
  <2>3. QED
    BY <2>1, <2>2
<1>3. \A x \in Block : IF x \in Branch(b) THEN store[x].st = "none" /\ store'[x].st = "none" ELSE store'[x] = store[x]
  <2> TAKE x \in Block
  <2>1. PICK s \in [Block -> BS!Entry] : s = store
    BY <1>1
  <2>2. store'[x] = IF x \in Branch(b) /\ InvalidCalls(b, x) > 0 THEN BS!Invalidated(s, x)[x] ELSE store[x]
    BY <2>1 DEF DeleteBranch
  <2>3. CASE x \in Branch(b)
    <3>1. store[x].st = "none"
      BY <1>2, <2>3 DEF BS!Has
    <3>2. BS!Invalidated(s, x)[x] = BS!Absent
      BY <2>1, <3>1, InvalidatedIs
    <3>3. QED
      BY <2>2, <2>3, <3>1, <3>2 DEF BS!Absent
  <2>4. CASE x \notin Branch(b)
    BY <2>2, <2>4
  <2>5. QED
    BY <2>3, <2>4
<1>4. \A x \in Block : store'[x].st = store[x].st /\ (store[x].st # "none" => store'[x] = store[x])
  BY <1>3
<1>5. StoreInv'
  <2>1. \A x \in Block : store'[x].st # "none" => x # Root /\ x \notin Malformed /\ ~store'[x].invalid
    BY <1>1, <1>4 DEF StoreInv, BS!Has
  <2>2. \A x \in Block \ {Root} : Parent[x] \in Block
    BY ChainAssumption
  <2>3. \A x \in Block \ {Root} : store'[x].st # "none" => Parent[x] = Root \/ store'[Parent[x]].st # "none"
    BY <1>1, <1>4, <2>2 DEF StoreInv, BS!Has
  <2>4. \A x \in Block \ {Root} : store'[x].st = "disk" => Parent[x] = Root \/ store'[Parent[x]].st = "disk"
    BY <1>1, <1>4, <2>2 DEF StoreInv
  <2>5. QED
    BY <2>1, <2>3, <2>4 DEF StoreInv, BS!Has
<1>6. BlockIndex' = BlockIndex \ Branch(b) /\ Childs' = BranchGone(b) /\ b \in Branch(b)
  BY <1>1, BranchSelf DEF DeleteBranch, BranchGone
<1>7. PICK ch : ch = BranchGone(b)
  OBVIOUS
<1>8. \A m \in Block : \A x \in Block : Linked(ch, m, x) <=> Linked(Childs, m, x) /\ m \notin Branch(b) /\ x # b
  <2>1. HasChild(Parent[b], b)
    BY ChildLinked DEF TreeFacts
  <2>2. QED
    BY <1>1, <1>7, <2>1, BranchGoneTree DEF TreeTypes
<1>9. Root \notin Branch(b)
  BY <1>1, <1>2, AncRoot, Rooted
<1>10. \A x \in BlockIndex' \ {Root} : Parent[x] \in BlockIndex' /\ Linked(ch, Parent[x], x)
  <2> TAKE x \in BlockIndex' \ {Root}
  <2>1. x \in BlockIndex \ {Root} /\ x \in Block /\ x \notin Branch(b) /\ x # b
    BY <1>1, <1>6 DEF TreeTypes
  <2>2. Parent[x] \in BlockIndex /\ Parent[x] \in Block /\ Linked(Childs, Parent[x], x)
    BY <1>1, <2>1 DEF TreeFacts, TreeTypes
  <2>3. Parent[x] \notin Branch(b)
    BY <1>1, <2>1, <2>2, BranchStep DEF TreeTypes
  <2>4. QED
    BY <1>6, <1>8, <2>1, <2>2, <2>3
<1>11. TreeFacts'
  <2>1. \A x \in Block : hasData'[x] <=> store'[x].st # "none"
    BY <1>4 DEF TreeFacts, BS!Has
  <2>2. \A x \in Block : store'[x].st # "none" => x \in BlockIndex'
    BY <1>2, <1>4, <1>6 DEF TreeFacts, BS!Has
  <2>3. last' = Root \/ store'[last'].st # "none"
    BY <1>1, <1>4 DEF TreeFacts, BS!Has
  <2>4. Root \in BlockIndex'
    BY <1>6, <1>9 DEF TreeFacts
  <2>5. QED
    BY <1>6, <1>7, <1>10, <2>1, <2>2, <2>3, <2>4 DEF TreeFacts, BS!Has
<1>12. NetFacts'
  <2>1. \A x \in arrived' : x # Root /\ x \notin Malformed /\ (x \in BlockIndex' \/ AncOf[x] \cap Malformed # {})
    BY <1>2, <1>6 DEF NetFacts
  <2>2. \A x \in announced' \ (arrived' \cup DiscardedBlocks' \cup {Root}) : hasData'[x] \/ x \in BlockIndex'
    <3> TAKE x \in announced' \ (arrived' \cup DiscardedBlocks' \cup {Root})
    <3>1. x \in announced \ (arrived \cup DiscardedBlocks \cup {Root}) /\ (x \in Branch(b) => ~ToGet(x))
      OBVIOUS
    <3>2. hasData[x] \/ x \in BlockIndex
      BY <3>1 DEF NetFacts
    <3>3. x \in Branch(b) => hasData[x]
      BY <3>1 DEF ToGet
    <3>4. QED
      BY <1>6, <3>2, <3>3
  <2>3. QED
    BY <2>1, <2>2 DEF NetFacts
<1>13. QED
  BY <1>4, <1>5, <1>11, <1>12 DEF BS!Has

\* The blocks of the store when the node starts are closed under Parent, and
\* all of them get into the tree.
LEMMA LoadFacts ==
    ASSUME ValidInv, LoadBlockIndex, mode' \in {"up", "starting"}
    PROVE  /\ TreeFacts' /\ NetFacts' /\ mode' = "starting" /\ store' = store /\ last' = saved
           /\ \A b \in BlockIndex' \ {Root} : BS!Has(b)
<1>1. PICK disk : disk = {Root} \cup {b \in Block : BS!Has(b)}
  OBVIOUS
<1>3. PICK tree :
            /\ IsLoaded(tree, disk) /\ disk \in SUBSET Block /\ Root \in disk
            /\ BlockIndex' = tree.index /\ Childs' = tree.childs /\ announced' = tree.index
            /\ hasData' = [b \in Block |-> b \in tree.index /\ BS!Has(b)]
            /\ IF saved \in tree.index THEN mode' = "starting" /\ last' = saved
               ELSE Panic("Last Block Hash not found") /\ UNCHANGED last
  BY <1>1, LoadIs
<1>2. disk \in SUBSET Block /\ Root \in disk
  BY <1>3
<1>5. /\ BlockIndex' = tree.index /\ Childs' = tree.childs /\ announced' = tree.index
      /\ IF saved \in tree.index THEN mode' = "starting" /\ last' = saved
         ELSE Panic("Last Block Hash not found") /\ UNCHANGED last
  BY <1>3
<1>6. IsLoaded(tree, disk)
  BY <1>3
<1>7. StoreInv /\ store' = store /\ arrived' = arrived /\ arrived = {}
  BY DEF LoadBlockIndex, ValidInv, StartInv
<1>8. \A c \in disk \ {Root} : Parent[c] \in disk
  <2> TAKE c \in disk \ {Root}
  <2>1. c \in Block \ {Root} /\ BS!Has(c) /\ Parent[c] \in Block
    BY <1>1, <1>2, ChainAssumption
  <2>2. Parent[c] = Root \/ BS!Has(Parent[c])
    BY <1>7, <2>1 DEF StoreInv
  <2>3. QED
    BY <1>1, <2>1, <2>2
<1>9. tree.index = disk /\ \A c \in disk \ {Root} : Linked(tree.childs, Parent[c], c)
  BY <1>6, <1>8 DEF IsLoaded
<1>10. saved \in tree.index /\ mode' = "starting" /\ last' = saved
  BY <1>5 DEF Panic
<1>11. \A b \in Block : (b \in BlockIndex' \ {Root} => BS!Has(b)) /\ (BS!Has(b) => b \in BlockIndex')
  BY <1>1, <1>5, <1>9
<1>12. TreeFacts'
  <2>1. \A b \in Block : hasData'[b] <=> store'[b].st # "none"
    BY <1>1, <1>3, <1>7, <1>9 DEF BS!Has
  <2>2. \A b \in Block : store'[b].st # "none" => b \in BlockIndex'
    BY <1>7, <1>11 DEF BS!Has
  <2>3. last' = Root \/ store'[last'].st # "none"
    BY <1>1, <1>7, <1>9, <1>10 DEF BS!Has
  <2>4. Root \in BlockIndex' /\ \A b \in BlockIndex' \ {Root} : Parent[b] \in BlockIndex' /\ Linked(Childs', Parent[b], b)
    BY <1>2, <1>5, <1>8, <1>9
  <2>5. QED
    BY <2>1, <2>2, <2>3, <2>4 DEF TreeFacts, BS!Has
<1>13. NetFacts'
  BY <1>5, <1>7 DEF NetFacts
<1>14. \A b \in BlockIndex' \ {Root} : BS!Has(b)
  BY <1>2, <1>5, <1>9, <1>11
<1>15. QED
  BY <1>7, <1>10, <1>12, <1>13, <1>14

LEMMA ValidNext ==
    ASSUME AllValid
    PROVE  ValidInv /\ [Next]_vars => ValidInv'
<1> SUFFICES ASSUME ValidInv, [Next]_vars PROVE ValidInv'
  OBVIOUS
<1>t. /\ TypeOK /\ TreeTypes /\ OpTypes /\ StoreInv /\ TreeInv /\ OpInv /\ StartInv
      /\ store \in [Block -> BS!Entry] /\ last \in Block
      /\ op \in [pc : {"idle", "move", "undo", "parse", "retry"}, dst : Block \cup {None}, blk : Block \cup {None}]
      /\ BlockIndex \in SUBSET Block /\ hasData \in [Block -> BOOLEAN] /\ announced \in SUBSET Block
  BY DEF ValidInv, TypeInv, TypeOK
<1>ty. TypeInv'
  BY TypeNext DEF ValidInv
<1>u. mode = "up" => TreeFacts /\ NetFacts
  BY <1>t DEF TreeInv
<1>fs. ASSUME store' = store PROVE StoreInv'
  BY <1>t, <1>fs DEF StoreInv, BS!Has
<1>ft. ASSUME UNCHANGED <<store, treeVars>>, TreeFacts PROVE TreeFacts'
  BY <1>ft DEF TreeFacts, BS!Has, treeVars
<1>fn. ASSUME UNCHANGED <<hasData, BlockIndex, arrived, announced>>, DiscardedBlocks \subseteq DiscardedBlocks', NetFacts
       PROVE  NetFacts'
  BY <1>fn DEF NetFacts
<1>fo. ASSUME UNCHANGED <<store, last, op>> PROVE OpInv'
  BY <1>t, <1>fo DEF OpInv, BS!Has
<1>fi. ASSUME op' = IdleOp PROVE OpInv'
  BY <1>fi DEF OpInv, IdleOp
<1>fb. ASSUME UNCHANGED <<store, BlockIndex, arrived>>, parseTill' \in {parseTill, NoParse}, mode = "up",
              mode' = "up" \/ mode' \in PanicMsg
       PROVE  StartInv'
  <2>1. mode' \notin {"down", "starting"}
    BY <1>fb DEF PanicMsg
  <2>2. QED
    BY <1>t, <1>fb, <2>1 DEF StartInv, BS!Has
<1>v. ASSUME StoreInv', TreeFacts', NetFacts', OpInv', StartInv' PROVE ValidInv'
  BY <1>ty, <1>v DEF ValidInv, TreeInv
<1>r. ASSUME mode = "up", op.blk \in Block, Return, UNCHANGED <<store, treeVars, announced, arrived, saved, crashes>>
      PROVE  ValidInv'
  <2>1. /\ op' = IdleOp /\ mode' \in {mode} \cup PanicMsg /\ parseTill' \in {parseTill, NoParse}
        /\ DiscardedBlocks \subseteq DiscardedBlocks'
    <3>1. CASE last # op.blk
      BY <1>r, <3>1 DEF Return, DiscardBlock, Misbehave, Panic, PanicMsg
    <3>2. CASE last = op.blk
      BY <1>r, <3>2 DEF Return, ReachedTill
    <3>3. QED
      BY <3>1, <3>2
  <2>2. StoreInv' /\ TreeFacts' /\ NetFacts'
    BY <1>r, <1>u, <1>fs, <1>ft, <1>fn, <2>1 DEF treeVars
  <2>3. OpInv' /\ StartInv'
    BY <1>r, <1>fi, <1>fb, <2>1 DEF treeVars
  <2>4. QED
    BY <1>v, <2>2, <2>3
<1>1. CASE UNCHANGED vars
  <2>1. UNCHANGED <<mode, store, BlockIndex, Childs, hasData, last, op, announced, arrived, DiscardedBlocks, parseTill>>
    BY <1>1 DEF vars, treeVars, netVars
  <2>2. StoreInv' /\ OpInv'
    BY <1>fs, <1>fo, <2>1
  <2>3. TreeInv'
    BY <1>t, <1>ft, <1>fn, <2>1 DEF TreeInv, treeVars
  <2>4. StartInv'
    BY <1>t, <2>1 DEF StartInv, BS!Has, NoParse, IdleOp
  <2>5. QED
    BY <1>ty, <2>2, <2>3, <2>4 DEF ValidInv
<1>h. ASSUME NEW b \in Block \ {Root}, ProcessNewHeader(b),
             UNCHANGED <<mode, store, last, op, DiscardedBlocks, parseTill, saved, crashes>>,
             arrived' = arrived \/ (arrived' = arrived \cup {b} /\ b \notin Malformed)
      PROVE  ValidInv'
  <2>1. mode = "up" /\ parseTill = NoParse /\ PreCheckBlock(b) /\ AcceptHeader(b) /\ announced' = announced \cup {b}
    BY <1>h DEF ProcessNewHeader
  <2>2. /\ TreeFacts' /\ BlockIndex' = BlockIndex \cup {b}
        /\ \A x \in Block : x # b => hasData'[x] = hasData[x]
    BY <1>h, <1>u, <2>1, HeaderFacts
  <2>3. NetFacts'
    <3>1. \A x \in arrived' : x # Root /\ x \notin Malformed /\ (x \in BlockIndex' \/ AncOf[x] \cap Malformed # {})
      BY <1>h, <1>u, <2>1, <2>2 DEF NetFacts
    <3>2. \A x \in announced' \ (arrived' \cup DiscardedBlocks' \cup {Root}) : hasData'[x] \/ x \in BlockIndex'
      <4> TAKE x \in announced' \ (arrived' \cup DiscardedBlocks' \cup {Root})
      <4>1. CASE x = b
        BY <2>2, <4>1
      <4>2. CASE x # b
        <5>1. x \in announced \ (arrived \cup DiscardedBlocks \cup {Root}) /\ x \in Block
          BY <1>h, <1>t, <2>1, <4>2
        <5>2. hasData[x] \/ x \in BlockIndex
          BY <1>u, <2>1, <5>1 DEF NetFacts
        <5>3. QED
          BY <2>2, <4>2, <5>1, <5>2
      <4>3. QED
        BY <4>1, <4>2
    <3>3. QED
      BY <3>1, <3>2 DEF NetFacts
  <2>4. StartInv'
    BY <1>h, <2>1 DEF StartInv
  <2>5. QED
    BY <1>h, <1>v, <1>fs, <1>fo, <2>2, <2>3, <2>4
<1>2. ASSUME NEW b \in Block \ {Root}, HandleHeaders(b) PROVE ValidInv'
  BY <1>2, <1>h DEF HandleHeaders
<1>3. ASSUME NEW b \in Block \ {Root}, NewBlockReceived(b) PROVE ValidInv'
  BY <1>3, <1>h DEF NewBlockReceived, PostCheckBlock
<1>g. ASSUME NEW b \in Block \ {Root}, mode = "up", ToGet(b)
      PROVE  b \in BlockIndex /\ parseTill = NoParse
  <2>1. b \in BlockIndex /\ ~hasData[b]
    BY <1>g, <1>u DEF ToGet, NetFacts
  <2>2. ~BS!Has(b)
    BY <1>g, <1>u, <2>1 DEF TreeFacts
  <2>3. QED
    BY <1>g, <1>t, <2>1, <2>2 DEF StartInv
<1>4. ASSUME NEW b \in Block \ {Root}, BlockReceived(b) PROVE ValidInv'
  <2>1. /\ mode = "up" /\ ToGet(b) /\ b \notin Malformed /\ arrived' = arrived \cup {b}
        /\ UNCHANGED <<mode, store, treeVars, op, announced, DiscardedBlocks, parseTill, saved, crashes>>
    BY <1>4 DEF BlockReceived, PostCheckBlock
  <2>2. b \in BlockIndex /\ parseTill = NoParse
    BY <1>g, <2>1
  <2>3. NetFacts'
    BY <1>u, <2>1, <2>2 DEF NetFacts, treeVars
  <2>4. StartInv'
    BY <2>1, <2>2 DEF StartInv
  <2>5. StoreInv' /\ TreeFacts' /\ OpInv'
    BY <1>u, <1>fs, <1>ft, <1>fo, <2>1 DEF treeVars
  <2>6. QED
    BY <1>v, <2>3, <2>4, <2>5
<1>5. ASSUME NEW b \in Block \ {Root}, WronglyMined(b) PROVE ValidInv'
  <2>1. mode = "up" /\ ToGet(b) /\ b \in Malformed
    BY <1>5 DEF WronglyMined, PostCheckBlock
  <2>2. b \in BlockIndex /\ parseTill = NoParse
    BY <1>g, <2>1
  <2>3. HasChild(Parent[b], b)
    BY <1>u, <2>1, <2>2, ChildLinked DEF TreeFacts
  <2>4. /\ DeleteBranch(b) /\ announced' = announced \ {c \in Branch(b) : ToGet(c)}
        /\ UNCHANGED <<mode, hasData, last, op, arrived, DiscardedBlocks, parseTill, saved, crashes>>
    BY <1>5, <2>3 DEF WronglyMined
  <2>5. /\ StoreInv' /\ TreeFacts' /\ NetFacts'
        /\ \A x \in Block : store'[x].st # "none" <=> BS!Has(x)
    BY <1>u, <2>1, <2>2, <2>4, MalformedFacts
  <2>6. OpInv'
    BY <1>t, <2>4, <2>5 DEF OpInv, OpTypes, BS!Has
  <2>7. StartInv'
    BY <2>1, <2>2, <2>4 DEF StartInv
  <2>8. QED
    BY <1>v, <2>5, <2>6, <2>7
<1>6. ASSUME NEW b \in Block \ {Root}, DiscardArrived(b) PROVE ValidInv'
  <2>1. /\ mode = "up" /\ DiscardedBlocks' = DiscardedBlocks \cup {b} /\ arrived' = arrived \ {b}
        /\ UNCHANGED <<mode, store, treeVars, op, announced, parseTill, saved, crashes>>
    BY <1>6 DEF DiscardArrived, MainFree
  <2>2. NetFacts'
    BY <1>u, <2>1 DEF NetFacts, treeVars
  <2>3. StartInv'
    BY <1>t, <2>1 DEF StartInv, treeVars, BS!Has
  <2>4. StoreInv' /\ TreeFacts' /\ OpInv'
    BY <1>u, <1>fs, <1>ft, <1>fo, <2>1 DEF treeVars
  <2>5. QED
    BY <1>v, <2>2, <2>3, <2>4
<1>c. ASSUME NEW b \in Block \ {Root}, Acceptable(b), CommitStore(b), hasData' = [hasData EXCEPT ![b] = TRUE],
             UNCHANGED <<mode, BlockIndex, Childs, announced, DiscardedBlocks, saved, crashes>>,
             arrived' = arrived \ {b}, last' \in {last, b}, parseTill' \in {parseTill, NoParse},
             op' = op \/ op' = [pc |-> "move", dst |-> b, blk |-> b]
      PROVE  ValidInv'
  <2>1. mode = "up" /\ op.pc = "idle"
    BY <1>c DEF Acceptable, MainFree
  <2>2. /\ StoreInv' /\ TreeFacts' /\ NetFacts'
        /\ \A x \in Block : store'[x].st # "none" <=> x = b \/ BS!Has(x)
    BY <1>c, <1>u, <2>1, CommitFacts
  <2>3. OpInv'
    <3>1. CASE op' = op
      BY <2>1, <3>1 DEF OpInv
    <3>2. CASE op' = [pc |-> "move", dst |-> b, blk |-> b]
      BY <2>2, <3>2 DEF OpInv, BS!Has
    <3>3. QED
      BY <1>c, <3>1, <3>2
  <2>4. StartInv'
    <3>1. arrived \in SUBSET Block
      BY <1>t DEF TypeOK
    <3>2. ASSUME parseTill' # NoParse
          PROVE  /\ \A x \in BlockIndex' \ {Root} : store'[x].st # "none"
                 /\ \A x \in arrived' : store'[x].st # "none"
                 /\ parseTill'.cur \in BlockIndex' /\ parseTill'.end \in BlockIndex'
      <4>1. parseTill' = parseTill /\ parseTill # NoParse
        BY <1>c, <3>2
      <4>2. QED
        BY <1>c, <1>t, <2>1, <2>2, <3>1, <4>1 DEF StartInv
    <3>3. QED
      BY <1>c, <2>1, <3>2 DEF StartInv, BS!Has
  <2>5. QED
    BY <1>v, <2>2, <2>3, <2>4
<1>7. ASSUME NEW b \in Block \ {Root}, CommitOnTop(b) PROVE ValidInv'
  <2>1. PICK s0 \in [Block -> BS!Entry] : s0 = store
    BY <1>t
  <2>2. PICK s1 \in [Block -> BS!Entry] : s1 = BS!Added(s0, b, FALSE)
    BY AddedIs
  <2>3. PICK s2 \in [Block -> BS!Entry] : s2 = BS!Added(s1, b, TRUE)
    BY AddedIs
  <2>4. store' = s2
    BY <1>7, <2>1, <2>2, <2>3 DEF CommitOnTop
  <2>5. IsAdded(s1, s0, b, FALSE)
    BY <2>2, AddedIs
  <2>6. IsAdded(s2, s1, b, TRUE)
    BY <2>3, AddedIs
  <2>7. CommitStore(b)
    BY <2>1, <2>4, <2>5, <2>6 DEF CommitStore, IsAdded
  <2>8. parseTill' \in {parseTill, NoParse}
    BY <1>7 DEF CommitOnTop, ReachedTill
  <2>9. QED
    BY <1>7, <1>c, <2>7, <2>8 DEF CommitOnTop
<1>8. ASSUME NEW b \in Block \ {Root}, CommitFails(b) PROVE ValidInv'
  BY <1>8 DEF CommitFails, Verifies, AllValid
<1>9. ASSUME NEW b \in Block \ {Root}, CommitOffTop(b) PROVE ValidInv'
  <2>1. PICK s0 \in [Block -> BS!Entry] : s0 = store
    BY <1>t
  <2>2. PICK s1 \in [Block -> BS!Entry] : s1 = BS!Added(s0, b, FALSE)
    BY AddedIs
  <2>3. store' = s1
    BY <1>9, <2>1, <2>2 DEF CommitOffTop
  <2>4. IsAdded(s1, s0, b, FALSE)
    BY <2>2, AddedIs
  <2>5. CommitStore(b)
    BY <2>1, <2>3, <2>4 DEF CommitStore, IsAdded
  <2>6. op' = op \/ op' = [pc |-> "move", dst |-> b, blk |-> b]
    BY <1>9 DEF CommitOffTop
  <2>7. QED
    BY <1>9, <1>c, <2>5, <2>6 DEF CommitOffTop
<1>10. CASE MoveToBlock
  <2>1. /\ mode = "up" /\ op.pc = "move" /\ op.blk \in Block
        /\ UNCHANGED <<store, treeVars, announced, arrived, saved, crashes>>
    BY <1>t, <1>10 DEF MoveToBlock, OpTypes
  <2>2. CASE CannotMove(op.dst)
    BY <1>r, <1>10, <2>1, <2>2 DEF MoveToBlock
  <2>3. CASE ~CannotMove(op.dst)
    <3>1. op' = [op EXCEPT !.pc = "undo"] /\ UNCHANGED <<mode, DiscardedBlocks, parseTill>>
      BY <1>10, <2>3 DEF MoveToBlock
    <3>2. OpInv'
      BY <1>t, <2>1, <3>1 DEF OpInv, BS!Has, treeVars
    <3>3. StoreInv' /\ TreeFacts' /\ NetFacts' /\ StartInv'
      BY <1>u, <1>fs, <1>ft, <1>fn, <1>fb, <2>1, <3>1 DEF treeVars
    <3>4. QED
      BY <1>v, <3>2, <3>3
  <2>4. QED
    BY <2>2, <2>3
<1>11. CASE UndoLastBlock
  <2>1. /\ mode = "up" /\ op.pc = "undo" /\ last # Common(op.dst, last) /\ op.dst \in Block
        /\ UNCHANGED <<store, BlockIndex, Childs, hasData, op, netVars, parseTill, saved, crashes>>
    BY <1>t, <1>11 DEF UndoLastBlock, OpTypes
  <2>2. last # Root /\ Parent[last] \in Block
    BY <1>t, <2>1, UndoNotRoot
  <2>3. BS!Has(last)
    BY <1>u, <2>1, <2>2 DEF TreeFacts
  <2>4. last' = Parent[last] /\ UNCHANGED mode
    BY <1>11, <2>3 DEF UndoLastBlock
  <2>5. Parent[last] = Root \/ BS!Has(Parent[last])
    BY <1>t, <2>2, <2>3 DEF StoreInv
  <2>6. TreeFacts'
    BY <1>u, <2>1, <2>4, <2>5 DEF TreeFacts, BS!Has
  <2>7. OpInv'
    BY <1>t, <2>1 DEF OpInv, BS!Has
  <2>8. StoreInv' /\ NetFacts' /\ StartInv'
    BY <1>u, <1>fs, <1>fn, <1>fb, <2>1, <2>4 DEF netVars
  <2>9. QED
    BY <1>v, <2>6, <2>7, <2>8
<1>12. CASE UndoDone
  <2>1. /\ mode = "up" /\ op.pc = "undo" /\ last = Common(op.dst, last) /\ op.dst \in Block
        /\ op' = [op EXCEPT !.pc = "parse"]
        /\ UNCHANGED <<mode, store, treeVars, netVars, parseTill, saved, crashes>>
    BY <1>t, <1>12 DEF UndoDone, OpTypes
  <2>2. last \in AncOf[op.dst]
    BY <1>t, <2>1, CommonIn, Rooted
  <2>3. OpInv'
    BY <1>t, <2>1, <2>2 DEF OpInv, BS!Has, treeVars
  <2>4. StoreInv' /\ TreeFacts' /\ NetFacts' /\ StartInv'
    BY <1>u, <1>fs, <1>ft, <1>fn, <1>fb, <2>1 DEF treeVars, netVars
  <2>5. QED
    BY <1>v, <2>3, <2>4
<1>13. CASE ParseApply
  <2>1. PICK n : n = NextToParse
    OBVIOUS
  <2>2. /\ Parsing /\ mode = "up" /\ store' = BS!Trusted(store, n) /\ last' = n
        /\ UNCHANGED <<mode, BlockIndex, Childs, hasData, op, netVars, parseTill, saved, crashes>>
    BY <1>13, <2>1 DEF ParseApply, Parsing
  <2>3. n \in AncOf[op.dst] /\ n \in Block /\ BS!Has(n)
    BY <2>1, <2>2, ParsingIn
  <2>4. \A x \in Block : store'[x].st = store[x].st /\ store'[x].invalid = store[x].invalid
    <3>1. PICK s0 \in [Block -> BS!Entry] : s0 = store
      BY <1>t
    <3>2. store' = BS!Trusted(s0, n)
      BY <2>2, <3>1
    <3>3. \A x \in Block : x # n => store'[x] = s0[x]
      BY <2>3, <3>2, TrustedIs
    <3>4. store'[n].st = s0[n].st /\ store'[n].invalid = s0[n].invalid
      BY <2>3, <3>2, TrustedIs
    <3>5. QED
      BY <3>1, <3>3, <3>4
  <2>5. StoreInv'
    <3>1. \A x \in Block \ {Root} : Parent[x] \in Block
      BY ChainAssumption
    <3>2. QED
      BY <1>t, <2>4, <3>1 DEF StoreInv, BS!Has
  <2>6. TreeFacts'
    BY <1>u, <2>2, <2>3, <2>4 DEF TreeFacts, BS!Has
  <2>7. OpInv'
    BY <1>t, <2>2, <2>3, <2>4 DEF OpInv, OpTypes, BS!Has
  <2>8. NetFacts'
    BY <1>u, <1>fn, <2>2 DEF netVars
  <2>9. StartInv'
    BY <1>t, <2>2, <2>4 DEF StartInv, BS!Has, netVars, TypeOK
  <2>10. QED
    BY <1>v, <2>5, <2>6, <2>7, <2>8, <2>9
<1>14. CASE ParseNoData
  BY <1>14, ParsingIn DEF ParseNoData
<1>15. CASE ParsePanic
  BY <1>15, ParsingIn DEF ParsePanic
<1>16. CASE ParseFails
  BY <1>16 DEF ParseFails, Verifies, AllValid
<1>17. CASE ParseRetry
  BY <1>t, <1>17 DEF ParseRetry, OpInv
<1>18. CASE ParseDone
  BY <1>t, <1>r, <1>18 DEF ParseDone, OpTypes
<1>19. ASSUME NEW b \in Block, WriteBlock(b) PROVE ValidInv'
  <2>1. /\ mode = "up" /\ store[b].st = "queued" /\ store' = BS!Written(store, b)
        /\ \A a \in AncOf[b] \ {b} : store[a].st # "queued"
        /\ UNCHANGED <<mode, treeVars, op, netVars, parseTill, saved, crashes>>
    BY <1>19 DEF WriteBlock, MainFree
  <2>2. /\ \A x \in Block : x # b => store'[x] = store[x]
        /\ store'[b].st = "disk" /\ store'[b].invalid = store[b].invalid
    <3>1. PICK s0 \in [Block -> BS!Entry] : s0 = store
      BY <1>t
    <3>2. QED
      BY <2>1, <3>1, WrittenIs
  <2>3. BS!Has(b)
    BY <2>1 DEF BS!Has
  <2>4. \A x \in Block : store'[x].st # "none" <=> BS!Has(x)
    BY <2>2, <2>3 DEF BS!Has
  <2>5. b # Root
    BY <1>t, <2>3 DEF StoreInv
  <2>6. Parent[b] = Root \/ (store[Parent[b]].st = "disk" /\ Parent[b] # b)
    <3>1. Parent[b] \in Block /\ Parent[b] \in AncOf[b] /\ Parent[b] # b
      <4>1. b \notin AncOf[Parent[b]] /\ Parent[b] \in Block
        BY <2>5, AncAcyclic, Rooted, ChainAssumption
      <4>2. QED
        BY <2>5, <4>1, AncParent, AncSelf, Rooted
    <3>2. Parent[b] = Root \/ BS!Has(Parent[b])
      BY <1>t, <2>3, <2>5 DEF StoreInv
    <3>3. store[Parent[b]].st \in {"none", "queued", "disk"}
      BY <1>t, <3>1 DEF BS!Entry
    <3>4. QED
      BY <2>1, <3>1, <3>2, <3>3 DEF BS!Has
  <2>7. StoreInv'
    <3>1. \A x \in Block \ {Root} : Parent[x] \in Block
      BY ChainAssumption
    <3>2. \A x \in Block : store'[x].st # "none" => x # Root /\ x \notin Malformed /\ ~store'[x].invalid
      BY <1>t, <2>2, <2>4 DEF StoreInv
    <3>3. \A x \in Block \ {Root} : store'[x].st # "none" => Parent[x] = Root \/ store'[Parent[x]].st # "none"
      BY <1>t, <2>4, <3>1 DEF StoreInv
    <3>4. \A x \in Block \ {Root} : store'[x].st = "disk" => Parent[x] = Root \/ store'[Parent[x]].st = "disk"
      BY <1>t, <2>2, <2>6, <3>1 DEF StoreInv
    <3>5. QED
      BY <3>2, <3>3, <3>4 DEF StoreInv, BS!Has
  <2>8. TreeFacts'
    BY <1>t, <1>u, <2>1, <2>4 DEF TreeFacts, BS!Has, treeVars
  <2>9. OpInv'
    BY <1>t, <2>1, <2>4 DEF OpInv, OpTypes, BS!Has, treeVars
  <2>10. NetFacts'
    BY <1>u, <1>fn, <2>1 DEF netVars, treeVars
  <2>11. StartInv'
    BY <1>t, <2>1, <2>4 DEF StartInv, BS!Has, netVars, treeVars, TypeOK
  <2>12. QED
    BY <1>v, <2>7, <2>8, <2>9, <2>10, <2>11
<1>20. CASE SaveUtxo
  <2>1. mode = "up" /\ UNCHANGED <<mode, store, treeVars, op, netVars, parseTill, crashes>>
    BY <1>20 DEF SaveUtxo, MainFree
  <2>2. StoreInv' /\ TreeFacts' /\ NetFacts' /\ OpInv' /\ StartInv'
    BY <1>u, <1>fs, <1>ft, <1>fn, <1>fo, <1>fb, <2>1 DEF treeVars, netVars
  <2>3. QED
    BY <1>v, <2>2
<1>21. CASE Crash
  <2>1. /\ mode' = "down" /\ store' = BS!Reloaded(store) /\ op' = IdleOp /\ arrived' = {} /\ DiscardedBlocks' = {}
        /\ parseTill' = NoParse
    BY <1>21 DEF Crash
  <2>2. \A b \in Block : store'[b] = IF store[b].st = "disk" /\ ~store[b].invalid THEN store[b] ELSE BS!Absent
    <3>1. PICK s0 \in [Block -> BS!Entry] : s0 = store
      BY <1>t
    <3>2. QED
      BY <2>1, <3>1, ReloadedIs
  <2>3. \A b \in Block : store[b].st = "disk" => ~store[b].invalid /\ b # Root /\ b \notin Malformed
    BY <1>t DEF StoreInv, BS!Has
  <2>4. \A b \in Block : /\ store[b].st = "disk" => store'[b] = store[b]
                         /\ store'[b].st # "none" => store[b].st = "disk"
    BY <2>2, <2>3 DEF BS!Absent
  <2>5. StoreInv'
    <3>1. \A x \in Block \ {Root} : Parent[x] \in Block
      BY ChainAssumption
    <3>2. \A x \in Block : store'[x].st # "none" => x # Root /\ x \notin Malformed /\ ~store'[x].invalid
      BY <2>3, <2>4
    <3>3. \A x \in Block \ {Root} : store'[x].st # "none" => Parent[x] = Root \/ store'[Parent[x]].st = "disk"
      BY <1>t, <2>4, <3>1 DEF StoreInv
    <3>4. QED
      BY <3>2, <3>3 DEF StoreInv, BS!Has
  <2>6. OpInv' /\ StartInv' /\ TreeInv'
    BY <2>1 DEF OpInv, StartInv, TreeInv, IdleOp
  <2>7. QED
    BY <1>ty, <2>5, <2>6 DEF ValidInv
<1>22. CASE LoadBlockIndex
  <2>1. /\ mode = "down" /\ (mode' = "starting" \/ mode' \in PanicMsg)
        /\ UNCHANGED <<store, op, arrived, DiscardedBlocks, parseTill, saved, crashes>>
    BY <1>22 DEF LoadBlockIndex, Panic, PanicMsg
  <2>2. op = IdleOp /\ arrived = {} /\ DiscardedBlocks = {} /\ parseTill = NoParse
    BY <1>t, <2>1 DEF StartInv
  <2>3. StoreInv' /\ OpInv'
    BY <1>fs, <1>fi, <2>1, <2>2
  <2>4. CASE mode' = "starting"
    <3>1. TreeFacts' /\ NetFacts' /\ \A b \in BlockIndex' \ {Root} : BS!Has(b)
      BY <1>22, <2>4, LoadFacts
    <3>2. StartInv'
      BY <2>1, <2>2, <2>4, <3>1 DEF StartInv, BS!Has
    <3>3. QED
      BY <1>v, <2>3, <3>1, <3>2
  <2>5. CASE mode' \in PanicMsg
    <3>1. mode' \notin {"up", "down", "starting"}
      BY <2>5 DEF PanicMsg
    <3>2. StartInv' /\ TreeInv'
      BY <3>1 DEF StartInv, TreeInv
    <3>3. QED
      BY <1>ty, <2>3, <3>2 DEF ValidInv
  <2>6. QED
    BY <2>1, <2>4, <2>5
<1>23. CASE HostInit
  <2>1. PICK f : f = FindFarthestNode
    OBVIOUS
  <2>2. /\ mode = "starting" /\ mode' = "up" /\ parseTill' \in {[cur |-> last, end |-> f], NoParse}
        /\ UNCHANGED <<store, treeVars, op, netVars, saved, crashes>>
    BY <1>23, <2>1 DEF HostInit
  <2>3. TreeFacts /\ NetFacts
    BY <1>t, <2>2 DEF TreeInv
  <2>4. f \in BlockIndex
    <3>1. f \in Block /\ Reachable(f)
      BY <1>t, <2>1, FarthestIn DEF TreeTypes
    <3>2. QED
      BY <1>t, <2>3, <3>1, IndexReachable
  <2>5. last \in BlockIndex
    BY <1>t, <2>3 DEF TreeFacts
  <2>6. StartInv'
    BY <1>t, <2>2, <2>4, <2>5 DEF StartInv, BS!Has, treeVars, netVars
  <2>7. StoreInv' /\ TreeFacts' /\ NetFacts' /\ OpInv'
    BY <1>fs, <1>ft, <1>fn, <1>fo, <2>2, <2>3 DEF treeVars, netVars
  <2>8. QED
    BY <1>v, <2>6, <2>7
<1>24. CASE DoTheBlocks
  <2>1. PICK n : n = FindPathTo(parseTill.cur, parseTill.end)
    OBVIOUS
  <2>2. /\ mode = "up" /\ parseTill # NoParse
        /\ UNCHANGED <<store, treeVars, op, announced, DiscardedBlocks, saved, crashes>>
    BY <1>24 DEF DoTheBlocks
  <2>3. StoreInv' /\ TreeFacts' /\ OpInv'
    BY <1>u, <1>fs, <1>ft, <1>fo, <2>2 DEF treeVars
  <2>4. CASE n = None
    <3>1. mode' \in PanicMsg /\ UNCHANGED <<arrived, parseTill>>
      BY <1>24, <2>1, <2>4 DEF DoTheBlocks, Panic, PanicMsg
    <3>2. NetFacts' /\ StartInv'
      BY <1>u, <1>fn, <1>fb, <2>2, <3>1 DEF treeVars
    <3>3. QED
      BY <1>v, <2>3, <3>2
  <2>5. CASE n # None
    <3>2. parseTill.cur \in BlockIndex /\ parseTill.end \in BlockIndex
      BY <1>t, <2>2 DEF StartInv
    <3>3. n \in BlockIndex \ {Root}
      BY <1>t, <1>u, <2>1, <2>2, <2>5, <3>2, PathIndexed
    <3>4. BS!Has(n) /\ n \notin Malformed /\ n \in Block
      BY <1>t, <2>2, <3>3 DEF StartInv, StoreInv
    <3>h. hasData[n]
      BY <1>u, <2>2, <3>4 DEF TreeInv, TreeFacts
    <3>1. arrived' = arrived \cup {n} /\ parseTill' = [parseTill EXCEPT !.cur = n] /\ UNCHANGED mode
      BY <1>24, <2>1, <2>5, <3>4, <3>h DEF DoTheBlocks
    <3>5. NetFacts'
      BY <1>u, <2>2, <3>1, <3>3, <3>4 DEF NetFacts, treeVars
    <3>6. parseTill'.cur = n /\ parseTill'.end = parseTill.end
      BY <1>t, <3>1 DEF TypeOK
    <3>7. StartInv'
      BY <1>t, <2>2, <3>1, <3>2, <3>3, <3>4, <3>6 DEF StartInv, BS!Has, treeVars
    <3>8. QED
      BY <1>v, <2>3, <3>5, <3>7
  <2>6. QED
    BY <2>4, <2>5
<1>25. QED
  BY <1>1, <1>2, <1>3, <1>4, <1>5, <1>6, <1>7, <1>8, <1>9, <1>10, <1>11, <1>12, <1>13, <1>14, <1>15, <1>16,
     <1>17, <1>18, <1>19, <1>20, <1>21, <1>22, <1>23, <1>24 DEF Next, MainNext

LEMMA ValidHolds ==
    ASSUME AllValid
    PROVE  Spec => []ValidInv
<1>1. ValidInv /\ [Next]_vars => ValidInv'
  BY ValidNext
<1>2. QED
  BY <1>1, ValidInit, PTL DEF Spec

\* addChild, delChild, delAllChildren and loadBlockIndex: as long as no block
\* turns out bad, BlockIndex and the Childs lists describe the same tree,
\* whatever malformed blocks come and however often the node restarts.
THEOREM IndexStaysTree ==
    ASSUME AllValid
    PROVE  Spec => []IndexMatchesTree
<1>1. ValidInv => IndexMatchesTree
  <2> SUFFICES ASSUME ValidInv, mode = "up" PROVE BlockIndex = {b \in Block : Reachable(b)}
    BY DEF IndexMatchesTree
  <2>1. TreeTypes /\ TreeFacts /\ BlockIndex \in SUBSET Block
    BY DEF ValidInv, TypeInv, TreeInv, TreeTypes
  <2>2. QED
    BY <2>1, IndexReachable
<1>2. QED
  BY <1>1, ValidHolds, PTL

\* A node that never crashes never goes through a restart.
UpInv == MaxCrash = 0 => mode \notin {"down", "starting"} /\ parseTill = NoParse

LEMMA UpNext == TypeInv /\ UpInv /\ [Next]_vars => UpInv'
<1> SUFFICES ASSUME TypeInv, UpInv, [Next]_vars, MaxCrash = 0 PROVE mode' \notin {"down", "starting"} /\ parseTill' = NoParse
  BY DEF UpInv
<1>1. mode \notin {"down", "starting"} /\ parseTill = NoParse /\ crashes = 0
  BY DEF UpInv, TypeInv, TypeOK
<1>2. parseTill.end = None
  BY <1>1 DEF NoParse
<1>r. ASSUME Return PROVE mode' \in {mode} \cup PanicMsg /\ parseTill' = NoParse
  <2>1. CASE last # op.blk
    BY <1>1, <1>r, <2>1 DEF Return, Misbehave
  <2>2. CASE last = op.blk
    BY <1>1, <1>r, <2>2 DEF Return, ReachedTill
  <2>3. QED
    BY <2>1, <2>2
<1>p. PanicMsg \cap {"down", "starting"} = {}
  BY DEF PanicMsg
<1>3. CASE UNCHANGED vars
  BY <1>1, <1>3 DEF vars
<1>4. ASSUME NEW b \in Block \ {Root}, HandleHeaders(b) \/ BlockReceived(b) \/ NewBlockReceived(b) \/ DiscardArrived(b) \/ CommitOffTop(b)
      PROVE  UNCHANGED <<mode, parseTill>>
  BY <1>4 DEF HandleHeaders, BlockReceived, NewBlockReceived, DiscardArrived, CommitOffTop
<1>5. ASSUME NEW b \in Block \ {Root}, WronglyMined(b) PROVE mode' \in {mode} \cup PanicMsg /\ parseTill' = parseTill
  BY <1>5 DEF WronglyMined, Panic, PanicMsg
<1>6. ASSUME NEW b \in Block \ {Root}, CommitOnTop(b) PROVE mode' = mode /\ parseTill' = NoParse
  BY <1>1, <1>6 DEF CommitOnTop, ReachedTill
<1>7. ASSUME NEW b \in Block \ {Root}, CommitFails(b) PROVE mode' \in {mode} \cup PanicMsg /\ parseTill' = parseTill
  BY <1>7 DEF CommitFails, Misbehave, Panic, PanicMsg
<1>8. ASSUME MoveToBlock \/ ParseDone PROVE mode' \in {mode} \cup PanicMsg /\ parseTill' = NoParse
  BY <1>1, <1>r, <1>8 DEF MoveToBlock, ParseDone
<1>9. ASSUME UndoLastBlock PROVE mode' \in {mode} \cup PanicMsg /\ parseTill' = parseTill
  BY <1>9 DEF UndoLastBlock, Panic, PanicMsg
<1>10. ASSUME UndoDone \/ ParseApply \/ ParseNoData \/ ParseRetry \/ SaveUtxo PROVE UNCHANGED <<mode, parseTill>>
  BY <1>10 DEF UndoDone, ParseApply, ParseNoData, ParseRetry, SaveUtxo
<1>11. ASSUME ParsePanic \/ ParseFails PROVE mode' \in {mode} \cup PanicMsg /\ parseTill' = parseTill
  BY <1>11 DEF ParsePanic, ParseFails, Panic, PanicMsg
<1>12. ASSUME NEW b \in Block, WriteBlock(b) PROVE UNCHANGED <<mode, parseTill>>
  BY <1>12 DEF WriteBlock
<1>13. ~Crash /\ ~LoadBlockIndex /\ ~HostInit /\ ~DoTheBlocks
  <2>1. ~Crash
    BY <1>1 DEF Crash
  <2>2. ~LoadBlockIndex
    BY <1>1 DEF LoadBlockIndex
  <2>3. ~HostInit /\ ~DoTheBlocks
    BY <1>1 DEF HostInit, DoTheBlocks
  <2>4. QED
    BY <2>1, <2>2, <2>3
<1>14. QED
  BY <1>1, <1>p, <1>3, <1>4, <1>5, <1>6, <1>7, <1>8, <1>9, <1>10, <1>11, <1>12, <1>13 DEF Next, MainNext

LEMMA UpHolds == Spec => [](TypeInv /\ UpInv)
<1>1. Init => UpInv
  BY DEF Init, UpInv
<1>2. QED
  BY <1>1, TypeInit, TypeNext, UpNext, PTL DEF Spec

\* What a step may do to a node that runs and meets valid blocks only.
LEMMA RunsOn ==
    ASSUME AllValid, ValidInv, [Next]_vars, mode = "up", parseTill = NoParse
    PROVE  mode' \in {"up", "down"}
<1>t. /\ TypeOK /\ TreeTypes /\ OpTypes /\ TreeFacts /\ NetFacts /\ last \in Block
  BY DEF ValidInv, TypeInv, TypeOK, TreeInv
<1>r. Return => mode' = mode
  BY DEF Return, Misbehave
<1>1. CASE UNCHANGED vars
  BY <1>1 DEF vars
<1>2. ASSUME NEW b \in Block \ {Root}, HandleHeaders(b) \/ BlockReceived(b) \/ NewBlockReceived(b) \/ DiscardArrived(b)
                                       \/ CommitOffTop(b) \/ CommitOnTop(b)
      PROVE  UNCHANGED mode
  BY <1>2 DEF HandleHeaders, BlockReceived, NewBlockReceived, DiscardArrived, CommitOffTop, CommitOnTop
<1>3. ASSUME NEW b \in Block \ {Root}, WronglyMined(b) PROVE UNCHANGED mode
  <2>1. b \in BlockIndex
    BY <1>t, <1>3 DEF WronglyMined, ToGet, NetFacts
  <2>2. HasChild(Parent[b], b)
    BY <1>t, <2>1, ChildLinked DEF TreeFacts
  <2>3. QED
    BY <1>3, <2>2 DEF WronglyMined
<1>4. ASSUME NEW b \in Block \ {Root} PROVE ~CommitFails(b)
  BY DEF CommitFails, Verifies, AllValid
<1>5. ASSUME MoveToBlock \/ ParseDone PROVE UNCHANGED mode
  BY <1>r, <1>5 DEF MoveToBlock, ParseDone
<1>6. ASSUME UndoLastBlock PROVE UNCHANGED mode
  <2>1. op.dst \in Block /\ last # Common(op.dst, last)
    BY <1>t, <1>6 DEF UndoLastBlock, OpTypes
  <2>2. last # Root
    BY <1>t, <2>1, UndoNotRoot
  <2>3. QED
    BY <1>t, <1>6, <2>2 DEF UndoLastBlock, TreeFacts
<1>7. ASSUME UndoDone \/ ParseApply \/ ParseNoData \/ ParseRetry \/ SaveUtxo PROVE UNCHANGED mode
  BY <1>7 DEF UndoDone, ParseApply, ParseNoData, ParseRetry, SaveUtxo
<1>8. ~ParsePanic /\ ~ParseFails
  BY ParsingIn DEF ParsePanic, ParseFails, Verifies, AllValid
<1>9. ASSUME NEW b \in Block, WriteBlock(b) PROVE UNCHANGED mode
  BY <1>9 DEF WriteBlock
<1>10. Crash => mode' = "down"
  BY DEF Crash
<1>11. ~LoadBlockIndex /\ ~HostInit /\ ~DoTheBlocks
  BY DEF LoadBlockIndex, HostInit, DoTheBlocks
<1>12. QED
  BY <1>1, <1>2, <1>3, <1>4, <1>5, <1>6, <1>7, <1>8, <1>9, <1>10, <1>11 DEF Next, MainNext

\* As long as all blocks are valid and the node is not restarted, no internal
\* check of the tree or of the store fires: FindPathTo always finds its way,
\* UndoLastBlock finds the block to undo and delChild the child.
THEOREM NeverPanics ==
    ASSUME AllValid, MaxCrash = 0
    PROVE  Spec => []NoPanic
<1>1. Init => NoPanic
  BY DEF Init, NoPanic, PanicMsg
<1>2. ValidInv /\ TypeInv /\ UpInv /\ NoPanic /\ [Next]_vars => NoPanic'
  <2> SUFFICES ASSUME ValidInv, TypeInv, UpInv, NoPanic, [Next]_vars PROVE NoPanic'
    OBVIOUS
  <2>1. mode = "up" /\ parseTill = NoParse
    BY DEF TypeInv, TypeOK, UpInv, NoPanic
  <2>2. mode' \in {"up", "down"}
    BY <2>1, RunsOn
  <2>3. QED
    BY <2>2 DEF NoPanic, PanicMsg
<1>3. QED
  BY <1>1, <1>2, ValidHolds, UpHolds, PTL DEF Spec

-----------------------------------------------------------------------------
(* The snapshot and the blocks on disk *)

\* What is on disk and not flagged stays there.
DiskKept ==
    \A x \in Block : store[x].st = "disk" /\ ~store[x].invalid => store'[x].st = "disk" /\ ~store'[x].invalid

LEMMA DiskStays ==
    ASSUME AllValid
    PROVE  ValidInv /\ [Next]_vars => DiskKept
<1> SUFFICES ASSUME ValidInv, [Next]_vars PROVE DiskKept
  OBVIOUS
<1>t. store \in [Block -> BS!Entry] /\ TypeInv /\ TreeInv
  BY DEF ValidInv, TypeInv, TypeOK
<1>0. PICK s \in [Block -> BS!Entry] : s = store
  BY <1>t
<1>s. store' = store => DiskKept
  BY DEF DiskKept
<1>1. CASE UNCHANGED vars
  BY <1>s, <1>1 DEF vars
<1>2. ASSUME NEW b \in Block \ {Root}, HandleHeaders(b) \/ BlockReceived(b) \/ NewBlockReceived(b) \/ DiscardArrived(b)
      PROVE  store' = store
  BY <1>2 DEF HandleHeaders, BlockReceived, NewBlockReceived, DiscardArrived
<1>3. ASSUME NEW b \in Block \ {Root}, WronglyMined(b) PROVE DiskKept
  <2>1. mode = "up" /\ TreeFacts /\ NetFacts /\ b \in Malformed
    BY <1>t, <1>3 DEF WronglyMined, TreeInv, PostCheckBlock
  <2>2. b \in BlockIndex
    BY <1>3, <2>1 DEF WronglyMined, ToGet, NetFacts
  <2>3. HasChild(Parent[b], b)
    BY <2>1, <2>2, ChildLinked DEF TreeFacts
  <2>4. DeleteBranch(b)
    BY <1>3, <2>3 DEF WronglyMined
  <2>5. \A x \in Branch(b) : x \in Block /\ ~BS!Has(x)
    <3> TAKE x \in Branch(b)
    <3>1. x \in Block /\ b \in AncOf[x]
      BY BranchSelf
    <3>2. QED
      BY <3>1, <2>1, StoredAncestors DEF StoreInv, ValidInv
  <2>6. QED
    BY <2>4, <2>5 DEF DeleteBranch, DiskKept, BS!Has
<1>4. ASSUME NEW b \in Block \ {Root}, CommitOnTop(b) PROVE DiskKept
  <2>1. PICK s1 \in [Block -> BS!Entry] : s1 = BS!Added(s, b, FALSE)
    BY AddedIs
  <2>2. PICK s2 \in [Block -> BS!Entry] : s2 = BS!Added(s1, b, TRUE)
    BY AddedIs
  <2>3. store' = s2
    BY <1>0, <1>4, <2>1, <2>2 DEF CommitOnTop
  <2>4. \A x \in Block : s[x].st = "disk" /\ ~s[x].invalid => s1[x].st = "disk" /\ ~s1[x].invalid
    <3>1. IsAdded(s1, s, b, FALSE)
      BY <2>1, AddedIs
    <3>2. QED
      BY <3>1 DEF IsAdded
  <2>5. \A x \in Block : s1[x].st = "disk" /\ ~s1[x].invalid => s2[x].st = "disk" /\ ~s2[x].invalid
    <3>1. IsAdded(s2, s1, b, TRUE)
      BY <2>2, AddedIs
    <3>2. QED
      BY <3>1 DEF IsAdded
  <2>6. QED
    BY <1>0, <2>3, <2>4, <2>5 DEF DiskKept
<1>5. ASSUME NEW b \in Block \ {Root}, CommitOffTop(b) PROVE DiskKept
  <2>1. PICK s1 \in [Block -> BS!Entry] : s1 = BS!Added(s, b, FALSE)
    BY AddedIs
  <2>2. store' = s1
    BY <1>0, <1>5, <2>1 DEF CommitOffTop
  <2>3. \A x \in Block : s[x].st = "disk" /\ ~s[x].invalid => s1[x].st = "disk" /\ ~s1[x].invalid
    <3>1. IsAdded(s1, s, b, FALSE)
      BY <2>1, AddedIs
    <3>2. QED
      BY <3>1 DEF IsAdded
  <2>4. QED
    BY <1>0, <2>2, <2>3 DEF DiskKept
<1>6. ASSUME NEW b \in Block \ {Root} PROVE ~CommitFails(b)
  BY DEF CommitFails, Verifies, AllValid
<1>7. ASSUME MoveToBlock \/ UndoLastBlock \/ UndoDone \/ ParseNoData \/ ParsePanic \/ ParseRetry \/ ParseDone
             \/ SaveUtxo \/ LoadBlockIndex \/ HostInit \/ DoTheBlocks
      PROVE  store' = store
  BY <1>7 DEF MoveToBlock, UndoLastBlock, UndoDone, ParseNoData, ParsePanic, ParseRetry, ParseDone, SaveUtxo,
              LoadBlockIndex, HostInit, DoTheBlocks
<1>8. CASE ParseApply
  <2>1. PICK n : n = NextToParse
    OBVIOUS
  <2>2. n \in Block /\ store' = BS!Trusted(s, n)
    BY <1>0, <1>8, <2>1, ParsingIn DEF ParseApply
  <2>3. \A x \in Block : x # n => store'[x] = s[x]
    BY <2>2, TrustedIs
  <2>4. store'[n].st = s[n].st /\ store'[n].invalid = s[n].invalid
    BY <2>2, TrustedIs
  <2>5. QED
    BY <1>0, <2>3, <2>4 DEF DiskKept
<1>9. ~ParseFails
  BY DEF ParseFails, Verifies, AllValid
<1>10. ASSUME NEW b \in Block, WriteBlock(b) PROVE DiskKept
  <2>1. store' = BS!Written(s, b)
    BY <1>0, <1>10 DEF WriteBlock
  <2>2. \A x \in Block : x # b => store'[x] = s[x]
    BY <2>1, WrittenIs
  <2>3. store'[b].st = "disk" /\ store'[b].invalid = s[b].invalid
    BY <2>1, WrittenIs
  <2>4. QED
    BY <1>0, <2>2, <2>3 DEF DiskKept
<1>11. CASE Crash
  <2>1. store' = BS!Reloaded(s)
    BY <1>0, <1>11 DEF Crash
  <2>2. \A b \in Block : store'[b] = IF s[b].st = "disk" /\ ~s[b].invalid THEN s[b] ELSE BS!Absent
    BY <2>1, ReloadedIs
  <2>3. QED
    BY <1>0, <2>2 DEF DiskKept
<1>12. QED
  BY <1>s, <1>1, <1>2, <1>3, <1>4, <1>5, <1>6, <1>7, <1>8, <1>9, <1>10, <1>11 DEF Next, MainNext

LEMMA SavedNext ==
    ASSUME AllValid, ~SaveCommand
    PROVE  ValidInv /\ SavedIsOnDisk /\ [Next]_vars => SavedIsOnDisk'
<1> SUFFICES ASSUME ValidInv, SavedIsOnDisk, [Next]_vars PROVE SavedIsOnDisk'
  OBVIOUS
<1>1. DiskKept
  BY DiskStays
<1>2. CASE saved' = saved
  <2>1. AncOf[saved] \in SUBSET Block
    BY AncSelf DEF ValidInv, TypeInv, TypeOK
  <2>2. QED
    BY <1>1, <1>2, <2>1 DEF SavedIsOnDisk, DiskKept
<1>3. CASE SaveUtxo
  <2>1. /\ saved' = last /\ store' = store /\ mode = "up" /\ StoreInv /\ TreeFacts /\ last \in Block
        /\ \A b \in Block : store[b].st # "queued"
    BY <1>3 DEF SaveUtxo, MainFree, ValidInv, TypeInv, TypeOK, TreeInv
  <2>2. ASSUME NEW a \in AncOf[last] \ {Root} PROVE store[a].st = "disk" /\ ~store[a].invalid
    <3>1. a \in Block
      BY <2>1, AncSelf
    <3>2. last # Root
      BY <2>2, AncRoot, Rooted
    <3>3. BS!Has(a)
      BY <2>1, <3>2, StoredAncestors DEF TreeFacts
    <3>4. store[a].st \in {"none", "queued", "disk"}
      BY <3>1 DEF ValidInv, TypeInv, TypeOK, BS!Entry
    <3>5. QED
      BY <2>1, <3>1, <3>3, <3>4 DEF BS!Has, StoreInv
  <2>3. QED
    BY <2>1, <2>2 DEF SavedIsOnDisk
<1>4. saved' = saved \/ SaveUtxo
  <2>1. ASSUME NEW b \in Block \ {Root}, HandleHeaders(b) \/ BlockReceived(b) \/ NewBlockReceived(b) \/ WronglyMined(b)
        PROVE  saved' = saved
    BY <2>1 DEF HandleHeaders, BlockReceived, NewBlockReceived, WronglyMined
  <2>2. ASSUME MainNext PROVE saved' = saved
    <3>1. ASSUME NEW b \in Block \ {Root}, DiscardArrived(b) \/ CommitOnTop(b) \/ CommitFails(b) \/ CommitOffTop(b)
          PROVE  saved' = saved
      BY <3>1 DEF DiscardArrived, CommitOnTop, CommitFails, CommitOffTop
    <3>2. ASSUME MoveToBlock \/ UndoLastBlock \/ UndoDone \/ ParseApply \/ ParseNoData \/ ParsePanic \/ ParseFails
                 \/ ParseRetry \/ ParseDone
          PROVE  saved' = saved
      BY <3>2 DEF MoveToBlock, UndoLastBlock, UndoDone, ParseApply, ParseNoData, ParsePanic, ParseFails, ParseRetry, ParseDone
    <3>3. QED
      BY <2>2, <3>1, <3>2 DEF MainNext
  <2>3. ASSUME NEW b \in Block, WriteBlock(b) PROVE saved' = saved
    BY <2>3 DEF WriteBlock
  <2>4. ASSUME Crash \/ LoadBlockIndex \/ HostInit \/ DoTheBlocks \/ UNCHANGED vars PROVE saved' = saved
    BY <2>4 DEF Crash, LoadBlockIndex, HostInit, DoTheBlocks, vars
  <2>5. QED
    BY <2>1, <2>2, <2>3, <2>4 DEF Next
<1>5. QED
  BY <1>2, <1>3, <1>4

\* Chain.Idle and Chain.Close: the block that the saved UTXO snapshot belongs
\* to, and all its ancestors, are on disk whenever a crash comes, if the
\* snapshot is only saved with nothing left to write.
THEOREM SavedStaysOnDisk ==
    ASSUME AllValid, ~SaveCommand
    PROVE  Spec => []SavedIsOnDisk
<1>1. Init => SavedIsOnDisk
  <2> SUFFICES ASSUME Init, NEW b \in AncOf[saved] \ {Root} PROVE store[b].st = "disk" /\ ~store[b].invalid
    BY DEF SavedIsOnDisk
  <2>1. saved = Tip /\ b \in Start \ {Root} /\ b \in Block
    BY ChainAssumption, AncSelf DEF Init
  <2>2. QED
    BY <2>1 DEF Init
<1>2. ValidInv /\ SavedIsOnDisk /\ [Next]_vars => SavedIsOnDisk'
  BY SavedNext
<1>3. QED
  BY <1>1, <1>2, ValidHolds, PTL DEF Spec

-----------------------------------------------------------------------------
(* The branch with the most work *)

\* Only one block is built on the genesis block.
OneTrunk == \A b, c \in Block \ {Root} : Parent[b] = Root /\ Parent[c] = Root => b = c

\* Nothing stored has more work than the end of what is to be parsed, than the
\* block the main thread moves to, or than the head.
WorkInv ==
    mode = "up" =>
        /\ parseTill # NoParse => \A b \in Block : BS!Has(b) => WorkOf[b] <= WorkOf[parseTill.end]
        /\ parseTill = NoParse /\ op.pc = "idle" =>
              \A b \in Block : BS!Has(b) => WorkOf[b] <= WorkOf[last]
        /\ parseTill = NoParse /\ op.pc # "idle" =>
              /\ \A b \in Block : BS!Has(b) => WorkOf[b] <= WorkOf[op.dst]
              /\ op.pc = "move" => last # Root

\* Two blocks above the root have an ancestor above the root in common.
LEMMA TrunkShared ==
    ASSUME OneTrunk, NEW x \in Block \ {Root}, NEW y \in Block \ {Root}
    PROVE  /\ \E t \in AncOf[x] \cap AncOf[y] : t # Root /\ Parent[t] = Root
           /\ Height(Common(x, y)) > 0
<1>1. Root \in AncOf[x] /\ Root \in AncOf[y] /\ Root \in Block
  BY ChainAssumption
<1>2. PICK t : t = ToWards(Root, x)
  OBVIOUS
<1>3. PICK u : u = ToWards(Root, y)
  OBVIOUS
<1>4. t \in AncOf[x] /\ t \in Block /\ t # Root /\ Parent[t] = Root
  BY <1>1, <1>2, ToWardsIn, Rooted
<1>5. u \in AncOf[y] /\ u \in Block /\ u # Root /\ Parent[u] = Root
  BY <1>1, <1>3, ToWardsIn, Rooted
<1>6. t = u
  BY <1>4, <1>5 DEF OneTrunk
<1>7. PICK c : c = Common(x, y)
  OBVIOUS
<1>8. t \in AncOf[c] /\ c \in Block
  BY <1>4, <1>5, <1>6, <1>7, CommonIn, Rooted
<1>9. Height(t) = Height(Root) + 1
  BY <1>4, HeightStep, Rooted
<1>10. Height(t) = 1
  BY <1>9, HeightRoot, Rooted
<1>11. Height(c) \in Nat /\ Height(t) <= Height(c)
  BY <1>8, HeightLess, Rooted
<1>12. QED
  BY <1>4, <1>5, <1>6, <1>7, <1>10, <1>11

\* MoveToBlock does not give up.
LEMMA CanMove ==
    ASSUME OneTrunk, ValidInv, mode = "up", op.pc = "move", last # Root
    PROVE  ~CannotMove(op.dst)
<1> SUFFICES ASSUME NEW a \in AncOf[op.dst] \ {op.dst}, Height(a) >= Height(Common(op.dst, last)), ~hasData[a]
             PROVE  FALSE
  BY DEF CannotMove
<1>1. op.dst \in Block /\ BS!Has(op.dst) /\ StoreInv /\ TreeFacts /\ last \in Block
  BY DEF ValidInv, TypeInv, TypeOK, OpTypes, OpInv, TreeInv
<1>2. op.dst # Root
  BY <1>1 DEF StoreInv
<1>3. a \in Block
  BY <1>1, AncSelf
<1>4. a = Root
  BY <1>1, <1>3, StoredAncestors DEF TreeFacts
<1>5. Height(Common(op.dst, last)) > 0
  <2>1. PICK x \in Block \ {Root} : x = op.dst
    BY <1>1, <1>2
  <2>2. PICK y \in Block \ {Root} : y = last
    BY <1>1
  <2>3. QED
    BY <2>1, <2>2, TrunkShared
<1>6. Height(Root) = 0
  BY HeightRoot, Rooted
<1>7. Height(Common(op.dst, last)) \in Nat
  <2>1. Common(op.dst, last) \in Block
    BY <1>1, CommonIn, Rooted
  <2>2. QED
    BY <2>1, HeightLess, AncSelf, Rooted
<1>8. QED
  BY <1>4, <1>5, <1>6, <1>7

\* What the store has after a step that does not commit a block.
LEMMA HasShrinks ==
    ASSUME AllValid, ValidInv, [Next]_vars, NEW x \in Block, BS!Has(x)',
           ~ \E b \in Block \ {Root} : CommitOnTop(b) \/ CommitOffTop(b)
    PROVE  BS!Has(x)
<1>t. store \in [Block -> BS!Entry] /\ TypeInv /\ TreeInv
  BY DEF ValidInv, TypeInv, TypeOK
<1>0. PICK s \in [Block -> BS!Entry] : s = store
  BY <1>t
<1>x. store'[x].st # "none"
  BY DEF BS!Has
<1>s. store' = store => BS!Has(x)
  BY <1>x DEF BS!Has
<1>1. CASE UNCHANGED vars
  BY <1>s, <1>1 DEF vars
<1>2. ASSUME NEW b \in Block \ {Root}, HandleHeaders(b) \/ BlockReceived(b) \/ NewBlockReceived(b) \/ DiscardArrived(b)
      PROVE  store' = store
  BY <1>2 DEF HandleHeaders, BlockReceived, NewBlockReceived, DiscardArrived
<1>3. ASSUME NEW b \in Block \ {Root}, WronglyMined(b) PROVE BS!Has(x)
  <2>1. mode = "up" /\ TreeFacts /\ NetFacts /\ b \in Malformed
    BY <1>t, <1>3 DEF WronglyMined, TreeInv, PostCheckBlock
  <2>2. b \in BlockIndex
    BY <1>3, <2>1 DEF WronglyMined, ToGet, NetFacts
  <2>3. HasChild(Parent[b], b)
    BY <2>1, <2>2, ChildLinked DEF TreeFacts
  <2>4. /\ DeleteBranch(b) /\ announced' = announced \ {c \in Branch(b) : ToGet(c)}
        /\ UNCHANGED <<hasData, last, arrived, DiscardedBlocks>>
    BY <1>3, <2>3 DEF WronglyMined
  <2>5. QED
    BY <1>x, <2>1, <2>2, <2>4, MalformedFacts
<1>4. ASSUME NEW b \in Block \ {Root} PROVE ~CommitFails(b)
  BY DEF CommitFails, Verifies, AllValid
<1>5. ASSUME MoveToBlock \/ UndoLastBlock \/ UndoDone \/ ParseNoData \/ ParsePanic \/ ParseRetry \/ ParseDone
             \/ SaveUtxo \/ LoadBlockIndex \/ HostInit \/ DoTheBlocks
      PROVE  store' = store
  BY <1>5 DEF MoveToBlock, UndoLastBlock, UndoDone, ParseNoData, ParsePanic, ParseRetry, ParseDone, SaveUtxo,
              LoadBlockIndex, HostInit, DoTheBlocks
<1>6. CASE ParseApply
  <2>1. PICK n : n = NextToParse
    OBVIOUS
  <2>2. n \in Block /\ store' = BS!Trusted(s, n)
    BY <1>0, <1>6, <2>1, ParsingIn DEF ParseApply
  <2>3. x # n => store'[x] = s[x]
    BY <2>2, TrustedIs
  <2>4. store'[n].st = s[n].st
    BY <2>2, TrustedIs
  <2>5. QED
    BY <1>0, <1>x, <2>3, <2>4 DEF BS!Has
<1>7. ~ParseFails
  BY DEF ParseFails, Verifies, AllValid
<1>8. ASSUME NEW b \in Block, WriteBlock(b) PROVE BS!Has(x)
  <2>1. store' = BS!Written(s, b) /\ store[b].st = "queued"
    BY <1>0, <1>8 DEF WriteBlock
  <2>2. x # b => store'[x] = s[x]
    BY <2>1, WrittenIs
  <2>3. QED
    BY <1>0, <1>x, <2>1, <2>2 DEF BS!Has
<1>9. CASE Crash
  <2>1. store' = BS!Reloaded(s)
    BY <1>0, <1>9 DEF Crash
  <2>2. store'[x] = IF s[x].st = "disk" /\ ~s[x].invalid THEN s[x] ELSE BS!Absent
    BY <2>1, ReloadedIs
  <2>3. QED
    BY <1>0, <1>x, <2>2 DEF BS!Has, BS!Absent
<1>10. QED
  BY <1>s, <1>1, <1>2, <1>3, <1>4, <1>5, <1>6, <1>7, <1>8, <1>9 DEF Next, MainNext

\* A block that is committed while blocks found on disk are parsed was there.
LEMMA CommittedHas ==
    ASSUME ValidInv, NEW b \in Block \ {Root}, CommitOnTop(b) \/ CommitOffTop(b), NEW x \in Block, BS!Has(x)'
    PROVE  /\ x = b \/ BS!Has(x)
           /\ parseTill # NoParse => BS!Has(x)
<1>1. PICK s \in [Block -> BS!Entry] : s = store
  BY DEF ValidInv, TypeInv, TypeOK
<1>2. PICK s1 \in [Block -> BS!Entry] : s1 = BS!Added(s, b, FALSE)
  BY AddedIs
<1>3. PICK s2 \in [Block -> BS!Entry] : s2 = BS!Added(s1, b, TRUE)
  BY AddedIs
<1>4. store' = s1 \/ store' = s2
  BY <1>1, <1>2, <1>3 DEF CommitOnTop, CommitOffTop
<1>5. x # b => s1[x] = s[x]
  <2>1. IsAdded(s1, s, b, FALSE)
    BY <1>2, AddedIs
  <2>2. QED
    BY <2>1 DEF IsAdded
<1>6. x # b => s2[x] = s1[x]
  <2>1. IsAdded(s2, s1, b, TRUE)
    BY <1>3, AddedIs
  <2>2. QED
    BY <2>1 DEF IsAdded
<1>7. x = b \/ BS!Has(x)
  BY <1>1, <1>4, <1>5, <1>6 DEF BS!Has
<1>8. mode = "up" /\ b \in arrived
  BY DEF CommitOnTop, CommitOffTop, Acceptable, MainFree
<1>9. parseTill # NoParse => BS!Has(b)
  BY <1>8 DEF ValidInv, StartInv
<1>10. QED
  BY <1>7, <1>9

\* Only the genesis block has no work.
LEMMA WorkPositive ==
    ASSUME NEW b \in Block
    PROVE  WorkOf[b] \in Nat /\ (b # Root => WorkOf[Parent[b]] \in Nat /\ WorkOf[b] > WorkOf[Parent[b]]) /\ (b # Root => WorkOf[b] > 0)
<1>1. b # Root => Parent[b] \in Block /\ Work[b] \in Nat /\ Work[b] > 0
  BY ChainAssumption
<1>2. QED
  BY <1>1, WorkOfRec

LEMMA WorkNext ==
    ASSUME AllValid, OneTrunk, MaxCrash = 0 \/ EqualWork
    PROVE  ValidInv /\ UpInv /\ WorkInv /\ [Next]_vars => WorkInv'
<1> SUFFICES ASSUME ValidInv, UpInv, WorkInv, [Next]_vars, mode' = "up" PROVE WorkInv'
  BY DEF WorkInv
<1>t. TypeOK /\ OpTypes /\ TreeTypes /\ StoreInv /\ OpInv /\ StartInv /\ last \in Block /\ None \notin Block
  BY ChainAssumption DEF ValidInv, TypeInv, TypeOK
<1>w. WorkOf \in [Block -> Nat]
  BY WorkOfRec
<1>n. parseTill = NoParse => parseTill.end = None
  BY DEF NoParse
<1> DEFINE Bound(w) == \A x \in Block : BS!Has(x)' => WorkOf[x] <= w
<1>b. ASSUME NEW m, \A x \in Block : BS!Has(x) => WorkOf[x] <= m,
             ~ \E b \in Block \ {Root} : CommitOnTop(b) \/ CommitOffTop(b)
      PROVE  Bound(m)
  BY <1>b, HasShrinks
<1> DEFINE Goal ==
              /\ parseTill' # NoParse => Bound(WorkOf[parseTill'.end])
              /\ parseTill' = NoParse /\ op'.pc = "idle" => Bound(WorkOf[last'])
              /\ parseTill' = NoParse /\ op'.pc # "idle" =>
                    Bound(WorkOf[op'.dst]) /\ (op'.pc = "move" => last' # Root)
<1>d. Goal
  <2> DEFINE NoCommit == ~ \E b \in Block \ {Root} : CommitOnTop(b) \/ CommitOffTop(b)
  <2> HIDE DEF Bound
  <2>f. ASSUME mode = "up", UNCHANGED <<last, op, parseTill>>, NoCommit PROVE Goal
    BY <1>b, <2>f DEF WorkInv
  <2>r. ASSUME mode = "up", op.pc # "idle", Return, last' = last, NoCommit, op.dst = op.blk,
               parseTill = NoParse => last = op.blk
        PROVE  Goal
    <3>1. last = op.blk
      BY <2>r DEF Return, Misbehave, Panic
    <3>2. op'.pc = "idle" /\ parseTill' = IF parseTill.end = last THEN NoParse ELSE parseTill
      BY <2>r, <3>1 DEF Return, ReachedTill, IdleOp
    <3>3. CASE parseTill = NoParse
      <4>1. parseTill' = NoParse /\ Bound(WorkOf[last])
        BY <1>b, <2>r, <3>1, <3>2, <3>3 DEF WorkInv
      <4>2. QED
        BY <2>r, <3>2, <4>1
    <3>4. CASE parseTill # NoParse
      <4>1. Bound(WorkOf[parseTill.end])
        BY <1>b, <2>r, <3>4 DEF WorkInv
      <4>2. QED
        BY <2>r, <3>2, <3>4, <4>1
    <3>5. QED
      BY <3>3, <3>4
  <2>1. ASSUME NEW b \in Block \ {Root}, CommitOnTop(b) PROVE Goal
    <3>1. /\ mode = "up" /\ op.pc = "idle" /\ op' = op /\ last' = b /\ last = Parent[b]
          /\ parseTill' = IF parseTill.end = b THEN NoParse ELSE parseTill
      BY <2>1 DEF CommitOnTop, Acceptable, MainFree, ReachedTill
    <3>2. CASE parseTill # NoParse
      <4>1. Bound(WorkOf[parseTill.end])
        BY <2>1, <3>1, <3>2, CommittedHas DEF WorkInv, Bound
      <4>2. QED
        BY <3>1, <3>2, <4>1
    <3>3. CASE parseTill = NoParse
      <4>1. parseTill' = NoParse
        BY <1>n, <1>t, <3>1, <3>3
      <4>2. \A x \in Block : BS!Has(x) => WorkOf[x] <= WorkOf[last]
        BY <3>1, <3>3 DEF WorkInv
      <4>3. WorkOf[b] \in Nat /\ WorkOf[last] \in Nat /\ WorkOf[last] < WorkOf[b]
        BY <3>1, WorkPositive
      <4>4. Bound(WorkOf[b])
        <5> SUFFICES ASSUME NEW x \in Block, BS!Has(x)' PROVE WorkOf[x] <= WorkOf[b]
          BY DEF Bound
        <5>1. x = b \/ WorkOf[x] <= WorkOf[last]
          BY <2>1, <4>2, CommittedHas
        <5>2. QED
          BY <1>w, <4>3, <5>1
      <4>5. QED
        BY <3>1, <4>1, <4>4
    <3>4. QED
      BY <3>2, <3>3
  <2>2. ASSUME NEW b \in Block \ {Root}, CommitOffTop(b) PROVE Goal
    <3>1. /\ mode = "up" /\ op.pc = "idle" /\ last # Parent[b] /\ parseTill' = parseTill /\ last' = last /\ Acceptable(b)
          /\ op' = IF MorePOW(b, last) THEN [pc |-> "move", dst |-> b, blk |-> b] ELSE op
      BY <2>2 DEF CommitOffTop, Acceptable, MainFree
    <3>2. CASE parseTill # NoParse
      <4>1. Bound(WorkOf[parseTill.end])
        BY <2>2, <3>1, <3>2, CommittedHas DEF WorkInv, Bound
      <4>2. QED
        BY <3>1, <3>2, <4>1
    <3>3. CASE parseTill = NoParse
      <4>1. \A x \in Block : BS!Has(x) => WorkOf[x] <= WorkOf[last]
        BY <3>1, <3>3 DEF WorkInv
      <4>2. WorkOf[b] \in Nat /\ WorkOf[last] \in Nat
        BY <1>t, <1>w
      <4>3. CASE MorePOW(b, last)
        <5>1. op'.pc = "move" /\ op'.dst = b
          BY <3>1, <4>3
        <5>2. Bound(WorkOf[b])
          <6> SUFFICES ASSUME NEW x \in Block, BS!Has(x)' PROVE WorkOf[x] <= WorkOf[b]
            BY DEF Bound
          <6>1. x = b \/ WorkOf[x] <= WorkOf[last]
            BY <2>2, <4>1, CommittedHas
          <6>2. QED
            BY <1>w, <4>2, <4>3, <6>1 DEF MorePOW
        <5>3. last # Root
          <6> SUFFICES ASSUME last = Root PROVE FALSE
            OBVIOUS
          <6>1. Parent[b] = Root \/ BS!Has(Parent[b])
            <7>1. TreeFacts /\ NetFacts
              BY <3>1 DEF ValidInv, TreeInv
            <7>2. QED
              BY <1>t, <3>1, <7>1, AcceptableIn
          <6>2. BS!Has(Parent[b]) /\ Parent[b] \in Block /\ Parent[b] # Root
            BY <3>1, <6>1, ChainAssumption
          <6>3. WorkOf[Parent[b]] <= 0
            BY <4>1, <6>2, WorkOfRec
          <6>4. WorkOf[Parent[b]] > 0 /\ WorkOf[Parent[b]] \in Nat
            BY <6>2, WorkPositive
          <6>5. QED
            BY <6>3, <6>4
        <5>4. QED
          BY <3>1, <3>3, <5>1, <5>2, <5>3
      <4>4. CASE ~MorePOW(b, last)
        <5>1. op' = op
          BY <3>1, <4>4
        <5>2. Bound(WorkOf[last])
          <6> SUFFICES ASSUME NEW x \in Block, BS!Has(x)' PROVE WorkOf[x] <= WorkOf[last]
            BY DEF Bound
          <6>1. x = b \/ WorkOf[x] <= WorkOf[last]
            BY <2>2, <4>1, CommittedHas
          <6>2. QED
            BY <1>w, <4>2, <4>4, <6>1 DEF MorePOW
        <5>3. QED
          BY <3>1, <3>3, <5>1, <5>2
      <4>5. QED
        BY <4>3, <4>4
    <3>4. QED
      BY <3>2, <3>3
  <2>3. CASE ~NoCommit
    BY <2>1, <2>2, <2>3
  <2>4. CASE NoCommit
    <3>u. ASSUME UNCHANGED vars PROVE Goal
      <4>1. mode = "up" /\ UNCHANGED <<last, op, parseTill>>
        BY <3>u DEF vars, treeVars
      <4>2. QED
        BY <2>4, <2>f, <4>1
    <3>1. ASSUME NEW b \in Block \ {Root}, HandleHeaders(b) \/ BlockReceived(b) \/ NewBlockReceived(b) \/ WronglyMined(b) \/ DiscardArrived(b)
          PROVE  mode = "up" /\ UNCHANGED <<last, op, parseTill>>
      BY <3>1 DEF HandleHeaders, BlockReceived, NewBlockReceived, WronglyMined, DiscardArrived, ProcessNewHeader, MainFree, treeVars
    <3>2. ASSUME NEW b \in Block \ {Root} PROVE ~CommitFails(b)
      BY DEF CommitFails, Verifies, AllValid
    <3>3. ASSUME MoveToBlock PROVE Goal
      <4>1. mode = "up" /\ op.pc = "move" /\ last' = last /\ op.dst = op.blk
        BY <1>t, <3>3 DEF MoveToBlock, treeVars, OpInv
      <4>2. parseTill = NoParse => ~CannotMove(op.dst)
        BY <4>1, CanMove DEF WorkInv
      <4>3. CASE CannotMove(op.dst)
        BY <2>r, <2>4, <3>3, <4>1, <4>2, <4>3 DEF MoveToBlock
      <4>4. CASE ~CannotMove(op.dst)
        <5>1. op' = [op EXCEPT !.pc = "undo"] /\ parseTill' = parseTill
          BY <3>3, <4>4 DEF MoveToBlock
        <5>2. op'.pc = "undo" /\ op'.dst = op.dst
          BY <1>t, <5>1 DEF TypeOK
        <5>3. QED
          BY <1>b, <2>4, <4>1, <5>1, <5>2 DEF WorkInv
      <4>5. QED
        BY <4>3, <4>4
    <3>4. ASSUME UndoLastBlock PROVE Goal
      <4>1. mode = "up" /\ op.pc = "undo" /\ UNCHANGED <<op, parseTill>>
        BY <3>4 DEF UndoLastBlock
      <4>2. QED
        BY <1>b, <2>4, <4>1 DEF WorkInv
    <3>5. ASSUME UndoDone PROVE Goal
      <4>1. mode = "up" /\ op.pc = "undo" /\ op' = [op EXCEPT !.pc = "parse"] /\ parseTill' = parseTill
        BY <3>5 DEF UndoDone
      <4>2. op'.pc = "parse" /\ op'.dst = op.dst
        BY <1>t, <4>1 DEF TypeOK
      <4>3. QED
        BY <1>b, <2>4, <4>1, <4>2 DEF WorkInv
    <3>6. ASSUME ParseApply PROVE Goal
      <4>1. mode = "up" /\ op.pc = "parse" /\ UNCHANGED <<op, parseTill>>
        BY <3>6 DEF ParseApply, Parsing
      <4>2. QED
        BY <1>b, <2>4, <4>1 DEF WorkInv
    <3>7. ~ParseNoData /\ ~ParsePanic /\ ~ParseFails /\ ~ParseRetry
      <4>1. ~ParseNoData /\ ~ParsePanic /\ ~ParseFails
        BY ParsingIn DEF ParseNoData, ParsePanic, ParseFails, Verifies, AllValid
      <4>2. ~ParseRetry
        BY <1>t DEF ParseRetry, OpInv
      <4>3. QED
        BY <4>1, <4>2
    <3>8. ASSUME ParseDone PROVE Goal
      <4>1. mode = "up" /\ op.pc = "parse" /\ last' = last /\ Return /\ op.dst = op.blk /\ last = op.blk
        BY <1>t, <3>8 DEF ParseDone, treeVars, OpInv
      <4>2. QED
        BY <2>r, <2>4, <4>1
    <3>9. ASSUME NEW b \in Block, WriteBlock(b) PROVE mode = "up" /\ UNCHANGED <<last, op, parseTill>>
      BY <3>9 DEF WriteBlock, MainFree, treeVars
    <3>10. ASSUME SaveUtxo PROVE mode = "up" /\ UNCHANGED <<last, op, parseTill>>
      BY <3>10 DEF SaveUtxo, MainFree, treeVars
    <3>11. ~Crash /\ ~LoadBlockIndex
      <4>1. ~Crash
        BY DEF Crash
      <4>2. ~LoadBlockIndex
        BY DEF LoadBlockIndex, Panic
      <4>3. QED
        BY <4>1, <4>2
    <3>12. ASSUME HostInit PROVE Goal
      <4>1. PICK f : f = FindFarthestNode
        OBVIOUS
      <4>2. /\ mode = "starting" /\ UNCHANGED <<last, op, store>>
            /\ parseTill' = IF Height(f) > Height(last) THEN [cur |-> last, end |-> f] ELSE NoParse
        BY <3>12, <4>1 DEF HostInit, treeVars
      <4>3. EqualWork /\ TreeFacts /\ op.pc = "idle"
        BY <1>t, <4>2 DEF UpInv, ValidInv, TreeInv, StartInv, IdleOp
      <4>4. f \in Block /\ \A c \in Block : Reachable(c) => Height(c) <= Height(f)
        BY <1>t, <4>1, FarthestIn DEF TreeTypes
      <4>5. \A x \in Block : BS!Has(x)' => Height(x) <= Height(f)
        <5> TAKE x \in Block
        <5> HAVE BS!Has(x)'
        <5>1. BS!Has(x)
          BY <4>2 DEF BS!Has
        <5>2. Reachable(x)
          BY <1>t, <4>3, <5>1, IndexReachable DEF TreeFacts
        <5>3. QED
          BY <4>4, <5>2
      <4>6. CASE Height(f) > Height(last)
        <5>1. parseTill'.end = f /\ parseTill' # NoParse
          BY <1>t, <4>2, <4>4, <4>6 DEF NoParse
        <5>2. Bound(WorkOf[f])
          BY <4>3, <4>4, <4>5, WorkByHeight DEF Bound
        <5>3. QED
          BY <5>1, <5>2
      <4>7. CASE ~(Height(f) > Height(last))
        <5>1. parseTill' = NoParse /\ op'.pc = "idle" /\ last' = last
          BY <4>2, <4>3, <4>7
        <5>2. Bound(WorkOf[last])
          <6> SUFFICES ASSUME NEW x \in Block, BS!Has(x)' PROVE WorkOf[x] <= WorkOf[last]
            BY DEF Bound
          <6>1. Height(x) <= Height(f) /\ Height(x) \in Nat /\ Height(f) \in Nat /\ Height(last) \in Nat
            BY <1>t, <4>4, <4>5, HeightLess, AncSelf, Rooted
          <6>2. Height(x) <= Height(last)
            BY <4>7, <6>1
          <6>3. QED
            BY <1>t, <4>3, <6>2, WorkByHeight
        <5>3. QED
          BY <5>1, <5>2
      <4>8. QED
        BY <4>6, <4>7
    <3>13. ASSUME DoTheBlocks PROVE Goal
      <4>1. /\ mode = "up" /\ parseTill # NoParse /\ parseTill.end \in Block
            /\ \E n : parseTill' = [parseTill EXCEPT !.cur = n] \/ parseTill' = parseTill
        BY <1>t, <3>13 DEF DoTheBlocks, OpTypes
      <4>2. parseTill'.end = parseTill.end /\ parseTill' # NoParse
        BY <1>t, <4>1 DEF TypeOK, NoParse
      <4>3. QED
        BY <1>b, <2>4, <4>1, <4>2 DEF WorkInv
    <3>14. QED
      BY <2>f, <2>4, <3>u, <3>1, <3>2, <3>3, <3>4, <3>5, <3>6, <3>7, <3>8, <3>9, <3>10, <3>11, <3>12, <3>13 DEF Next, MainNext
  <2>5. QED
    BY <2>3, <2>4
<1>e. QED
  BY <1>d DEF WorkInv, Bound, NoParse

\* An ancestor has no more work.
LEMMA WorkAncestor ==
    ASSUME NEW b \in Block, NEW a \in AncOf[b]
    PROVE  WorkOf[a] <= WorkOf[b]
<1> DEFINE S == {x \in Block : WorkOf[x] <= WorkOf[b]}
<1>1. b \in S /\ S \in SUBSET Block
  BY WorkPositive
<1>2. \A x \in S \ {Root} : Parent[x] \in S
  <2> TAKE x \in S \ {Root}
  <2>1. x \in Block /\ WorkOf[x] <= WorkOf[b] /\ Parent[x] \in Block
    BY ChainAssumption
  <2>2. WorkOf[b] \in Nat /\ WorkOf[x] \in Nat /\ WorkOf[Parent[x]] \in Nat /\ WorkOf[Parent[x]] < WorkOf[x]
    BY <2>1, WorkPositive
  <2>3. QED
    BY <2>1, <2>2
<1>3. AncOf[b] \subseteq S
  <2> HIDE DEF S
  <2>1. PICK T \in SUBSET Block : T = S
    BY <1>1
  <2>2. QED
    BY <1>1, <1>2, <2>1, AncLeast
<1>4. QED
  BY <1>3

LEMMA WorkInit == Init => WorkInv
<1> SUFFICES ASSUME Init PROVE WorkInv
  OBVIOUS
<1>1. parseTill = NoParse /\ op.pc = "idle" /\ last = Tip /\ Tip \in Block /\ Start = AncOf[Tip]
  BY ChainAssumption DEF Init, IdleOp
<1>2. ASSUME NEW b \in Block, BS!Has(b) PROVE WorkOf[b] <= WorkOf[last]
  <2>1. b \in Start \ {Root}
    BY <1>2 DEF Init, BS!Has, BS!Absent
  <2>2. QED
    BY <1>1, <2>1, WorkAncestor
<1>3. QED
  BY <1>1, <1>2 DEF WorkInv

\* MorePOW, MoveToBlock and ParseTillBlock: whenever the main thread is done
\* with a block, no branch whose blocks have all been committed has more work
\* than the active one, in whatever order headers and blocks came.  After a
\* restart this takes blocks of equal work, since FindFarthestNode goes by
\* height; and it takes a single block on top of the genesis block, since
\* MoveToBlock never goes back as far as that.
THEOREM MostWorkAlwaysWins ==
    ASSUME AllValid, OneTrunk, MaxCrash = 0 \/ EqualWork
    PROVE  Spec => []MostWorkWins
<1>1. ValidInv /\ UpInv /\ WorkInv /\ [Next]_vars => WorkInv'
  BY WorkNext
<1>2. ValidInv /\ WorkInv => MostWorkWins
  <2> SUFFICES ASSUME ValidInv, WorkInv, MainFree, parseTill = NoParse, NEW b \in BlockIndex,
                      \A a \in AncOf[b] \ {Root} : hasData[a] /\ a \notin Bad
               PROVE  WorkOf[b] <= WorkOf[last]
    BY DEF MostWorkWins
  <2>1. mode = "up" /\ op.pc = "idle" /\ TreeFacts /\ b \in Block /\ last \in Block
    BY DEF MainFree, ValidInv, TreeInv, TypeInv, TypeOK
  <2>2. CASE b = Root
    BY <2>1, <2>2, WorkOfRec
  <2>3. CASE b # Root
    <3>1. hasData[b]
      BY <2>1, <2>3, AncSelf
    <3>2. QED
      BY <2>1, <3>1 DEF TreeFacts, WorkInv
  <2>4. QED
    BY <2>2, <2>3
<1>3. QED
  BY <1>1, <1>2, WorkInit, ValidHolds, UpHolds, PTL DEF Spec

-----------------------------------------------------------------------------
(* Restarts *)

\* The head and the snapshot never go back to the genesis block.
HeadInv == last # Root /\ saved # Root

\* The index after loadBlockIndex.
LEMMA LoadedIndex ==
    ASSUME ValidInv, LoadBlockIndex
    PROVE  saved = Root \/ BS!Has(saved) => mode' = "starting" /\ last' = saved
<1>1. PICK disk : disk = {Root} \cup {b \in Block : BS!Has(b)}
  OBVIOUS
<1>3. PICK tree :
            /\ IsLoaded(tree, disk) /\ disk \in SUBSET Block /\ Root \in disk
            /\ BlockIndex' = tree.index /\ Childs' = tree.childs /\ announced' = tree.index
            /\ hasData' = [b \in Block |-> b \in tree.index /\ BS!Has(b)]
            /\ IF saved \in tree.index THEN mode' = "starting" /\ last' = saved
               ELSE Panic("Last Block Hash not found") /\ UNCHANGED last
  BY <1>1, LoadIs
<1>2. disk \in SUBSET Block /\ Root \in disk
  BY <1>3
<1>5. saved \in tree.index => mode' = "starting" /\ last' = saved
  BY <1>3
<1>6. IsLoaded(tree, disk)
  BY <1>3
<1>7. \A c \in disk \ {Root} : Parent[c] \in disk
  <2> TAKE c \in disk \ {Root}
  <2>1. c \in Block \ {Root} /\ BS!Has(c) /\ Parent[c] \in Block
    BY <1>1, <1>2, ChainAssumption
  <2>2. Parent[c] = Root \/ BS!Has(Parent[c])
    BY <2>1 DEF StoreInv, ValidInv
  <2>3. QED
    BY <1>1, <2>1, <2>2
<1>8. tree.index = disk
  BY <1>6, <1>7 DEF IsLoaded
<1>9. saved \in Block
  BY DEF ValidInv, TypeInv, TypeOK
<1>10. QED
  BY <1>1, <1>5, <1>8, <1>9

\* The modes of a node that meets valid blocks only.
RestartInv == HeadInv /\ mode \in {"up", "down", "starting", "FindPathTo"}

LEMMA RestartNext ==
    ASSUME AllValid, OneTrunk
    PROVE  ValidInv /\ SavedIsOnDisk /\ RestartInv /\ [Next]_vars => RestartInv'
<1> SUFFICES ASSUME ValidInv, SavedIsOnDisk, RestartInv, [Next]_vars PROVE RestartInv'
  OBVIOUS
<1>t. TypeOK /\ OpTypes /\ TreeTypes /\ StoreInv /\ OpInv /\ StartInv /\ TreeInv /\ last \in Block /\ saved \in Block
      /\ last # Root /\ saved # Root /\ mode \in {"up", "down", "starting", "FindPathTo"}
  BY DEF ValidInv, TypeInv, TypeOK, RestartInv, HeadInv
<1>f. ASSUME UNCHANGED <<last, saved, mode>> PROVE RestartInv'
  BY <1>t, <1>f DEF RestartInv, HeadInv
<1>1. CASE UNCHANGED vars
  BY <1>f, <1>1 DEF vars, treeVars
<1>2. ASSUME NEW b \in Block \ {Root}, HandleHeaders(b) \/ BlockReceived(b) \/ NewBlockReceived(b) \/ DiscardArrived(b)
                                       \/ CommitOffTop(b)
      PROVE  UNCHANGED <<last, saved, mode>>
  BY <1>2 DEF HandleHeaders, BlockReceived, NewBlockReceived, DiscardArrived, CommitOffTop, treeVars
<1>3. ASSUME NEW b \in Block \ {Root}, WronglyMined(b) PROVE UNCHANGED <<last, saved, mode>>
  <2>1. TreeFacts /\ NetFacts
    BY <1>t, <1>3 DEF WronglyMined, TreeInv
  <2>2. b \in BlockIndex
    BY <1>3, <2>1 DEF WronglyMined, ToGet, NetFacts
  <2>3. HasChild(Parent[b], b)
    BY <2>1, <2>2, ChildLinked DEF TreeFacts
  <2>4. QED
    BY <1>3, <2>3 DEF WronglyMined
<1>4. ASSUME NEW b \in Block \ {Root}, CommitOnTop(b) PROVE RestartInv'
  BY <1>t, <1>4 DEF CommitOnTop, RestartInv, HeadInv
<1>5. ASSUME NEW b \in Block \ {Root} PROVE ~CommitFails(b)
  BY DEF CommitFails, Verifies, AllValid
<1>6. ASSUME MoveToBlock PROVE UNCHANGED <<last, saved, mode>>
  <2>1. ~CannotMove(op.dst)
    BY <1>t, <1>6, CanMove DEF MoveToBlock
  <2>2. QED
    BY <1>6, <2>1 DEF MoveToBlock, treeVars
<1>7. ASSUME UndoLastBlock PROVE RestartInv'
  <2>1. /\ mode = "up" /\ op.pc = "undo" /\ op.dst \in Block /\ last # Common(op.dst, last) /\ BS!Has(op.dst)
        /\ saved' = saved
    BY <1>t, <1>7 DEF UndoLastBlock, OpTypes, OpInv
  <2>2. BS!Has(last)
    BY <1>t, <2>1 DEF TreeInv, TreeFacts
  <2>3. last' = Parent[last] /\ UNCHANGED mode
    BY <1>7, <2>2 DEF UndoLastBlock
  <2>4. Parent[last] # Root
    <3> SUFFICES ASSUME Parent[last] = Root PROVE FALSE
      OBVIOUS
    <3>1. PICK d \in Block \ {Root} : d = op.dst
      BY <1>t, <2>1 DEF StoreInv
    <3>2. PICK l \in Block \ {Root} : l = last
      BY <1>t
    <3>3. PICK t \in AncOf[d] \cap AncOf[l] : t # Root /\ Parent[t] = Root
      BY <3>1, <3>2, TrunkShared
    <3>4. t \in Block
      BY <3>1, <3>3, AncSelf
    <3>5. t = l
      BY <3>2, <3>3, <3>4 DEF OneTrunk
    <3>6. l \in AncOf[d] \cap AncOf[l] /\ \A z \in AncOf[d] \cap AncOf[l] : z \in AncOf[l]
      BY <3>3, <3>5
    <3>7. Common(d, l) = l
      BY <3>1, <3>2, <3>6, CommonIs, Rooted
    <3>8. QED
      BY <2>1, <3>1, <3>2, <3>7
  <2>5. QED
    BY <1>t, <2>1, <2>3, <2>4 DEF RestartInv, HeadInv
<1>8. ASSUME UndoDone \/ ParseNoData \/ ParseRetry PROVE UNCHANGED <<last, saved, mode>>
  BY <1>8 DEF UndoDone, ParseNoData, ParseRetry, treeVars
<1>9. ASSUME ParseApply PROVE RestartInv'
  <2>1. last' = NextToParse /\ UNCHANGED <<saved, mode>> /\ Parsing
    BY <1>9 DEF ParseApply
  <2>2. NextToParse # Root
    BY <2>1, ParsingIn
  <2>3. QED
    BY <1>t, <2>1, <2>2 DEF RestartInv, HeadInv
<1>10. ~ParsePanic /\ ~ParseFails
  BY ParsingIn DEF ParsePanic, ParseFails, Verifies, AllValid
<1>11. ASSUME ParseDone PROVE UNCHANGED <<last, saved, mode>>
  BY <1>t, <1>11 DEF ParseDone, Return, OpInv, treeVars
<1>12. ASSUME NEW b \in Block, WriteBlock(b) PROVE UNCHANGED <<last, saved, mode>>
  BY <1>12 DEF WriteBlock, treeVars
<1>13. ASSUME SaveUtxo PROVE RestartInv'
  BY <1>t, <1>13 DEF SaveUtxo, treeVars, RestartInv, HeadInv
<1>14. ASSUME Crash PROVE RestartInv'
  BY <1>t, <1>14 DEF Crash, treeVars, RestartInv, HeadInv
<1>15. ASSUME LoadBlockIndex PROVE RestartInv'
  <2>1. BS!Has(saved)
    BY <1>t, AncSelf DEF SavedIsOnDisk, BS!Has
  <2>2. mode' = "starting" /\ last' = saved /\ saved' = saved
    BY <1>15, <2>1, LoadedIndex DEF LoadBlockIndex
  <2>3. QED
    BY <1>t, <2>2 DEF RestartInv, HeadInv
<1>16. ASSUME HostInit PROVE RestartInv'
  BY <1>t, <1>16 DEF HostInit, treeVars, RestartInv, HeadInv
<1>17. ASSUME DoTheBlocks PROVE RestartInv'
  <2>1. PICK n : n = FindPathTo(parseTill.cur, parseTill.end)
    OBVIOUS
  <2>2. mode = "up" /\ UNCHANGED <<last, saved>>
    BY <1>17 DEF DoTheBlocks, treeVars
  <2>3. n # None => n \in Block
    BY <1>t, <1>17, <2>1, PathIn DEF DoTheBlocks, OpTypes, TreeTypes
  <2>4. n # None => ~(hasData[n] /\ ~BS!Has(n))
    BY <1>t, <2>2, <2>3 DEF TreeInv, TreeFacts
  <2>5. mode' \in {mode, "FindPathTo"}
    BY <1>17, <2>1, <2>4 DEF DoTheBlocks, Panic
  <2>6. QED
    BY <1>t, <2>2, <2>5 DEF RestartInv, HeadInv
<1>18. QED
  BY <1>f, <1>1, <1>2, <1>3, <1>4, <1>5, <1>6, <1>7, <1>8, <1>9, <1>10, <1>11, <1>12, <1>13, <1>14, <1>15, <1>16, <1>17
     DEF Next, MainNext

\* loadBlockIndex, host_init and do_the_blocks: however often the node crashes,
\* it finds the block of its snapshot at the next start and accepts the blocks
\* that it finds on disk.  The one check that may still fire is that of
\* FindPathTo, in do_the_blocks: the farthest node on disk need not be above
\* the head.
THEOREM RestartSucceeds ==
    ASSUME AllValid, OneTrunk, Tip # Root, ~SaveCommand
    PROVE  Spec => [](StoredIsAccepted /\ TrustedStaysValid /\ mode \notin PanicMsg \ {"FindPathTo"})
<1>1. Init => RestartInv
  BY DEF Init, RestartInv, HeadInv
<1>2. ValidInv /\ SavedIsOnDisk /\ RestartInv /\ [Next]_vars => RestartInv'
  BY RestartNext
<1>3. RestartInv => StoredIsAccepted /\ TrustedStaysValid /\ mode \notin PanicMsg \ {"FindPathTo"}
  BY DEF RestartInv, StoredIsAccepted, TrustedStaysValid, PanicMsg
<1>4. QED
  BY <1>1, <1>2, <1>3, ValidHolds, SavedStaysOnDisk, PTL DEF Spec
-----------------------------------------------------------------------------
(* No block whose scripts fail is applied *)

Clean(b) == AncOf[b] \cap Malformed = {}

\* The first bad block of a branch.
FirstBad(x) == x \in Bad /\ AncOf[x] \cap Bad = {x}

\* The head and the snapshot are fit: nothing below them is bad or malformed.
HeadGood ==
    /\ AncOf[last] \cap Bad = {} /\ Clean(last)
    /\ AncOf[saved] \cap Bad = {} /\ Clean(saved)

\* What is stored or committed is not built on a malformed block.
CleanInv ==
    /\ \A b \in Block : BS!Has(b) \/ hasData[b] => Clean(b)
    /\ arrived \cap Malformed = {}

\* Nothing bad or malformed is below the parent of b.
GoodParent(b) == b # Root /\ AncOf[Parent[b]] \cap Bad = {} /\ Clean(Parent[b])

\* Up to the first bad block of a branch, what is stored has its parent stored
\* and what is on disk has it on disk.
GoodStore ==
    /\ \A b \in Block : BS!Has(b) => b # Root
    /\ \A b \in Block \ {Root} :
          GoodParent(b) /\ Parent[b] # Root =>
              /\ ~store[Parent[b]].invalid
              /\ BS!Has(b) => BS!Has(Parent[b])
              /\ store[b].st = "disk" => store[Parent[b]].st = "disk"
              /\ mode \in {"up", "starting"} /\ hasData[Parent[b]] => BS!Has(Parent[b])
    /\ mode \in {"up", "starting"} => \A a \in AncOf[last] \ {Root} : BS!Has(a)

\* Whatever the tree, the queues or the nodes with data have was announced in
\* this session.
KnownInv ==
    /\ mode \in {"down", "starting"} => op = IdleOp /\ arrived = {} /\ parseTill = NoParse
    /\ mode # "down" => /\ BlockIndex \subseteq announced /\ arrived \subseteq announced
                        /\ \A b \in Block : hasData[b] => b \in announced

\* x was committed in this session and has left the tree: it will not be
\* taken again.
Out(x) == x \notin BlockIndex /\ x \in announced /\ hasData[x]

\* As long as the first bad block of a branch is in the tree, so are its
\* children.
KeptInv ==
    mode # "down" =>
        /\ \A x \in Block : \A y \in Block : Linked(Childs, x, y) /\ FirstBad(x) => x \in announced
        /\ \A y \in announced \ {Root} :
              FirstBad(Parent[y]) /\ Clean(y) => Linked(Childs, Parent[y], y) \/ Out(Parent[y])

\* A block found on disk at start-up failed: the main thread will end in
\* Misbehave of a nil Conn.
Doomed == parseTill # NoParse /\ op.pc # "idle" /\ AncOf[op.blk] \cap Bad # {}

\* The first bad block of a branch is marked as trusted only when it was
\* flagged on disk; then it is out of the tree, is not in the queue of the
\* main thread, and no block on top of it was announced.
TrustInv ==
    \A x \in Block :
        FirstBad(x) /\ store[x].trusted =>
            /\ mode \notin {"down", "starting"}
            /\ store[x].st = "disk" /\ store[x].invalid
            /\ Out(x)
            /\ mode = "up" /\ x \in arrived => Doomed
            /\ \A y \in announced \ {Root} : Parent[y] = x => ~Clean(y)

\* The main thread never moves across such a block.
GoalInv ==
    op.pc \in {"move", "undo", "parse"} =>
        \A x \in AncOf[op.dst] : FirstBad(x) => ~store[x].trusted

\* Start-up: the blocks queued by do_the_blocks are a path of the tree from
\* the head upwards, and nothing else is known.
QueuedPath ==
    /\ last \in AncOf[parseTill.cur] /\ arrived \subseteq AncOf[parseTill.cur]
    /\ Height(parseTill.cur) <= Height(parseTill.end)
    /\ \A a \in AncOf[parseTill.cur] \ AncOf[last] : Linked(Childs, Parent[a], a)
    /\ \A a \in AncOf[parseTill.end] \ {Root} : Linked(Childs, Parent[a], a)
    /\ op.pc # "idle" => /\ op.pc # "retry" /\ op.dst = op.blk
                         /\ op.blk \in AncOf[parseTill.cur] /\ last \in AncOf[op.blk]

QueueInv ==
    /\ mode = "starting" \/ (mode = "up" /\ parseTill # NoParse) =>
          \A b \in announced \ {Root} : hasData[b]
    /\ mode = "up" /\ parseTill # NoParse =>
          /\ \A a \in AncOf[parseTill.end] \ {Root} : a \in announced
          /\ Doomed \/ QueuedPath
    /\ mode = "up" /\ parseTill = NoParse => \A b \in arrived \cap Bad : ~hasData[b]

BadInv == HeadGood /\ CleanInv /\ GoodStore /\ KnownInv /\ KeptInv /\ TrustInv /\ GoalInv /\ QueueInv

\* A branch without malformed blocks has none further down.
LEMMA CleanBelow ==
    ASSUME NEW b \in Block, Clean(b), NEW a \in AncOf[b]
    PROVE  a \in Block /\ Clean(a) /\ a \notin Malformed
<1>1. a \in Block /\ AncOf[a] \subseteq AncOf[b]
  BY AncSelf, AncTransitive, Rooted
<1>2. QED
  BY <1>1, AncSelf DEF Clean

LEMMA RootGood == Root \notin Bad /\ Root \notin Malformed
<1>1. Root \in Start
  BY ChainAssumption
<1>2. QED
  BY <1>1, ChainAssumption

\* A bad block on top of good ones is the first of its branch.
LEMMA FirstAbove ==
    ASSUME NEW b \in Block \ {Root}, b \in Bad, AncOf[Parent[b]] \cap Bad = {}
    PROVE  FirstBad(b)
<1>1. AncOf[b] = {b} \cup AncOf[Parent[b]]
  BY Rooted, AncStep
<1>2. QED
  BY <1>1 DEF FirstBad

LEMMA FirstOnly ==
    ASSUME NEW x, FirstBad(x), NEW n \in AncOf[x], n \in Bad
    PROVE  n = x
BY DEF FirstBad

\* FindPathTo goes to a child, or to the block that the destination's own
\* ancestors lead to.
LEMMA PathWay ==
    ASSUME Childs \in [Block -> Seq(Block)], NEW n \in Block, NEW end \in Block, FindPathTo(n, end) # None
    PROVE  /\ Height(n) < Height(end)
           /\ \/ Linked(Childs, n, FindPathTo(n, end))
              \/ n \in AncOf[end] /\ n # end /\ FindPathTo(n, end) = ToWards(n, end)
<1>1. PICK s \in Seq(Block) : s = Childs[n]
  OBVIOUS
<1>2. PICK c : c = FindPathTo(n, end)
  OBVIOUS
<1>3. ~(Height(end) <= Height(n)) /\ s # <<>>
  BY <1>1, <1>2 DEF FindPathTo
<1>4. Height(n) < Height(end)
  BY <1>3, HeightRange, Rooted
<1>5. CASE Len(s) = 1
  <2>1. c = s[1]
    BY <1>1, <1>2, <1>3, <1>5 DEF FindPathTo
  <2>2. DOMAIN s = 1..1
    BY <1>1, <1>5
  <2>3. 1 \in DOMAIN s
    BY <2>2
  <2>4. Linked(Childs, n, c)
    BY <1>1, <2>1, <2>3 DEF Linked
  <2>5. QED
    BY <1>2, <1>4, <2>4
<1>6. CASE Len(s) # 1
  <2>1. n \in AncOf[end] /\ c = ToWards(n, end)
    BY <1>1, <1>2, <1>3, <1>6 DEF FindPathTo
  <2>2. n # end
    BY <1>3, Rooted, HeightRange
  <2>3. QED
    BY <1>2, <1>4, <2>1, <2>2
<1>7. QED
  BY <1>5, <1>6

\* If the block towards the destination is a child, FindPathTo goes there.
LEMMA PathLinked ==
    ASSUME Childs \in [Block -> Seq(Block)], NEW end \in Block, NEW n \in AncOf[end], n # end,
           Linked(Childs, n, ToWards(n, end))
    PROVE  FindPathTo(n, end) = ToWards(n, end)
<1>t. n \in Block
  BY AncSelf
<1>1. PICK c : c = ToWards(n, end)
  OBVIOUS
<1>2. PICK s \in Seq(Block) : s = Childs[n]
  BY <1>t
<1>3. PICK k \in DOMAIN s : s[k] = c
  BY <1>1, <1>2 DEF Linked
<1>4. ~(Height(end) <= Height(n))
  BY <1>t, HeightLess, Rooted
<1>5. s # <<>> /\ (Len(s) = 1 => s[1] = c)
  BY <1>2, <1>3
<1>6. QED
  BY <1>1, <1>2, <1>4, <1>5 DEF FindPathTo

\* The blocks of a reachable branch are in the tree.
LEMMA ReachableIn ==
    ASSUME TreeTypes, NEW f \in Block, Reachable(f), NEW a \in AncOf[f], a # Root
    PROVE  Linked(Childs, Parent[a], a) /\ a \in BlockIndex
<1>1. a \in Block \ {Root} /\ Parent[a] \in Block
  BY AncSelf, ChainAssumption
<1>2. Linked(Childs, Parent[a], a)
  BY DEF Reachable, Linked
<1>3. QED
  BY <1>1, <1>2 DEF TreeTypes

\* A block that the main thread takes is built on announced blocks that are
\* not malformed, and on no block that is marked as trusted by mistake.
LEMMA AcceptableGood ==
    ASSUME TypeInv, BadInv, NEW b \in Block \ {Root}, Acceptable(b)
    PROVE  /\ mode = "up" /\ op.pc = "idle" /\ b \in arrived /\ b \in announced /\ Clean(b) /\ ~Doomed
           /\ \A x \in AncOf[b] : FirstBad(x) => ~store[x].trusted
<1>i. HeadGood /\ CleanInv /\ KnownInv /\ TrustInv
  BY DEF BadInv
<1>t. last \in Block
  BY DEF TypeInv, TypeOK
<1>1. mode = "up" /\ op.pc = "idle" /\ b \in arrived /\ HasAllParents(b) /\ ~Doomed
  BY DEF Acceptable, MainFree, Doomed
<1>2. b \in announced
  BY <1>i, <1>1 DEF KnownInv
<1>3. \A a \in AncOf[b] \ {b} : a \in AncOf[last] \/ hasData[a]
  BY <1>1 DEF HasAllParents, OnActiveBranch
<1>4. AncOf[b] \in SUBSET Block
  BY AncSelf
<1>5. Clean(b)
  <2>1. b \notin Malformed
    BY <1>i, <1>1 DEF CleanInv
  <2>2. ASSUME NEW a \in AncOf[b] \ {b} PROVE a \notin Malformed
    <3>1. CASE a \in AncOf[last]
      BY <1>i, <3>1 DEF HeadGood, Clean
    <3>2. CASE hasData[a]
      <4>1. Clean(a) /\ a \in Block
        BY <1>i, <1>4, <3>2 DEF CleanInv
      <4>2. QED
        BY <4>1, AncSelf DEF Clean
    <3>3. QED
      BY <1>3, <3>1, <3>2
  <2>3. QED
    BY <2>1, <2>2 DEF Clean
<1>6. ASSUME NEW x \in AncOf[b], FirstBad(x), store[x].trusted PROVE FALSE
  <2>1. x \in Block
    BY <1>4
  <2>2. x \notin arrived /\ \A y \in announced \ {Root} : Parent[y] = x => ~Clean(y)
    BY <1>i, <1>1, <1>6, <2>1 DEF TrustInv
  <2>3. x # b
    BY <1>1, <2>2
  <2>4. PICK y : y = ToWards(x, b)
    OBVIOUS
  <2>5. y \in AncOf[b] /\ y \in Block /\ y # Root /\ Parent[y] = x
    BY <2>3, <2>4, ToWardsIn, Rooted
  <2>6. y # b
    BY <1>2, <1>5, <2>2, <2>5
  <2>7. y \notin AncOf[last]
    <3>1. SUFFICES ASSUME y \in AncOf[last] PROVE FALSE
      OBVIOUS
    <3>2. x \in AncOf[last]
      BY <1>t, <2>5, <3>1, AncParent, Rooted
    <3>3. QED
      BY <1>i, <1>6, <3>2 DEF HeadGood, FirstBad
  <2>8. hasData[y]
    BY <1>3, <2>5, <2>6, <2>7
  <2>9. y \in announced /\ Clean(y)
    BY <1>i, <1>1, <2>5, <2>8 DEF KnownInv, CleanInv
  <2>10. QED
    BY <2>2, <2>5, <2>9
<1>7. QED
  BY <1>1, <1>2, <1>5, <1>6

LEMMA BadParts ==
    ASSUME BadInv
    PROVE  HeadGood /\ CleanInv /\ GoodStore /\ KnownInv /\ KeptInv /\ TrustInv /\ GoalInv /\ QueueInv
BY DEF BadInv

\* A step that leaves the tree and the store alone.
LEMMA BadFrame ==
    ASSUME BadInv, mode = "up", mode' \in {"up"} \cup PanicMsg,
           UNCHANGED <<store, BlockIndex, Childs, hasData, announced>>,
           HeadGood', \A a \in AncOf[last'] \ {Root} : mode' = "up" => BS!Has(a),
           arrived' \subseteq announced, arrived' \cap Malformed = {},
           \A x \in arrived' : mode' = "up" /\ FirstBad(x) /\ store[x].trusted => Doomed',
           GoalInv', QueueInv'
    PROVE  BadInv'
<1>1. CleanInv /\ GoodStore /\ KnownInv /\ KeptInv /\ TrustInv
  BY BadParts
<1>2. mode' \notin {"down", "starting"}
  BY DEF PanicMsg
<1>3. CleanInv'
  BY <1>1 DEF CleanInv, BS!Has
<1>4. GoodStore'
  BY <1>1, <1>2 DEF GoodStore, BS!Has
<1>5. KnownInv'
  BY <1>1, <1>2 DEF KnownInv
<1>6. KeptInv'
  BY <1>1 DEF KeptInv, Out
<1>7. TrustInv'
  BY <1>1, <1>2 DEF TrustInv, Out
<1>8. QED
  BY <1>3, <1>4, <1>5, <1>6, <1>7 DEF BadInv

\* The head is on top of stored blocks.
LEMMA BadSteady ==
    ASSUME BadInv, mode = "up", mode' \in {"up"} \cup PanicMsg,
           UNCHANGED <<store, BlockIndex, Childs, hasData, announced, last, saved>>,
           arrived' \subseteq announced, arrived' \cap Malformed = {},
           \A x \in arrived' : mode' = "up" /\ FirstBad(x) /\ store[x].trusted => Doomed',
           GoalInv', QueueInv'
    PROVE  BadInv'
<1>1. HeadGood /\ GoodStore
  BY BadParts
<1>2. HeadGood'
  BY <1>1 DEF HeadGood
<1>3. \A a \in AncOf[last'] \ {Root} : BS!Has(a)
  BY <1>1 DEF GoodStore
<1>4. QED
  BY <1>2, <1>3, BadFrame

\* A panic.
LEMMA BadPanic ==
    ASSUME BadInv, mode = "up", mode' \in PanicMsg,
           UNCHANGED <<store, BlockIndex, Childs, hasData, announced, last, saved, arrived, op>>
    PROVE  BadInv'
<1>1. mode' # "up" /\ mode' \notin {"down", "starting"}
  BY DEF PanicMsg
<1>2. CleanInv /\ KnownInv /\ GoalInv
  BY BadParts
<1>3. arrived' \subseteq announced /\ arrived' \cap Malformed = {}
  BY <1>2 DEF CleanInv, KnownInv
<1>4. GoalInv'
  BY <1>2 DEF GoalInv
<1>5. QueueInv'
  BY <1>1 DEF QueueInv
<1>6. QED
  BY <1>1, <1>3, <1>4, <1>5, BadSteady

\* A header.
LEMMA BadHeader ==
    ASSUME TypeInv, BadInv, NEW b \in Block \ {Root}, ProcessNewHeader(b),
           UNCHANGED <<mode, store, last, op, parseTill, saved>>,
           arrived' = arrived \/ (b \notin Malformed /\ arrived' = arrived \cup {b})
    PROVE  BadInv'
<1>i. HeadGood /\ CleanInv /\ GoodStore /\ KnownInv /\ KeptInv /\ TrustInv /\ GoalInv /\ QueueInv
  BY BadParts
<1>t. TypeOK /\ TreeTypes
  BY DEF TypeInv
<1>1. mode = "up" /\ parseTill = NoParse /\ b \notin announced /\ b \notin BlockIndex /\ Parent[b] \in BlockIndex
  BY DEF ProcessNewHeader, PreCheckBlock
<1>2. AcceptHeader(b) /\ announced' = announced \cup {b}
  BY DEF ProcessNewHeader
<1>3. Parent[b] \in Block /\ ~Linked(Childs, Parent[b], b)
  BY <1>t, <1>1, ChainAssumption DEF TreeTypes
<1>4. IsWithChild(WithChild(Parent[b], b), Childs, b)
  BY <1>t, <1>3, WithChildTree DEF TreeTypes
<1>5. PICK ch : ch = WithChild(Parent[b], b)
  OBVIOUS
<1>6. Childs' = ch /\ BlockIndex' = BlockIndex \cup {b} /\ hasData' = [hasData EXCEPT ![b] = FALSE]
  BY <1>2, <1>5 DEF AcceptHeader
<1>7. \A n \in Block : \A x \in Block : Linked(ch, n, x) <=> (n # b /\ Linked(Childs, n, x)) \/ (n = Parent[b] /\ x = b)
  BY <1>4, <1>5 DEF IsWithChild
<1>8. hasData' = hasData /\ ~hasData[b]
  <2>1. ~hasData[b]
    BY <1>i, <1>1 DEF KnownInv
  <2>2. hasData \in [Block -> BOOLEAN]
    BY <1>t DEF TypeOK
  <2>3. QED
    BY <1>6, <2>1, <2>2
<1>9. HeadGood'
  BY <1>i DEF HeadGood
<1>10. CleanInv'
  <2>1. arrived' \cap Malformed = {}
    BY <1>i DEF CleanInv
  <2>2. QED
    BY <1>i, <1>8, <2>1 DEF CleanInv, BS!Has
<1>11. GoodStore'
  BY <1>i, <1>8 DEF GoodStore, BS!Has
<1>12. KnownInv'
  BY <1>i, <1>1, <1>2, <1>6, <1>8 DEF KnownInv
<1>13. KeptInv'
  <2>1. ASSUME NEW x \in Block, NEW y \in Block, Linked(ch, x, y), FirstBad(x) PROVE x \in announced
    <3>1. CASE x # b /\ Linked(Childs, x, y)
      BY <1>i, <1>1, <2>1, <3>1 DEF KeptInv
    <3>2. CASE x = Parent[b]
      BY <1>i, <1>1, <3>2 DEF KnownInv
    <3>3. QED
      BY <1>7, <2>1, <3>1, <3>2
  <2>2. ASSUME NEW y \in (announced \cup {b}) \ {Root}, FirstBad(Parent[y]), Clean(y)
        PROVE  Linked(ch, Parent[y], y) \/ Out(Parent[y])'
    <3>1. CASE y = b
      BY <1>3, <1>7, <3>1
    <3>2. CASE y # b
      <4>1. y \in announced \ {Root} /\ y \in Block /\ Parent[y] \in Block
        BY <1>t, <3>2, ChainAssumption DEF TypeOK
      <4>2. Linked(Childs, Parent[y], y) \/ Out(Parent[y])
        BY <1>i, <1>1, <2>2, <4>1 DEF KeptInv
      <4>3. CASE Linked(Childs, Parent[y], y)
        <5>1. Parent[y] # b
          BY <1>i, <1>1, <2>2, <4>1, <4>3 DEF KeptInv
        <5>2. QED
          BY <1>7, <4>1, <4>3, <5>1
      <4>4. CASE Out(Parent[y])
        BY <1>1, <1>2, <1>6, <1>8, <4>4 DEF Out
      <4>5. QED
        BY <4>2, <4>3, <4>4
    <3>3. QED
      BY <3>1, <3>2
  <2>3. QED
    BY <1>2, <1>6, <2>1, <2>2 DEF KeptInv
<1>14. TrustInv'
  <2> SUFFICES ASSUME NEW x \in Block, FirstBad(x), store[x].trusted
               PROVE  /\ mode' \notin {"down", "starting"}
                      /\ store[x].st = "disk" /\ store[x].invalid
                      /\ Out(x)'
                      /\ mode' = "up" /\ x \in arrived' => Doomed'
                      /\ \A y \in announced' \ {Root} : Parent[y] = x => ~Clean(y)
    BY DEF TrustInv
  <2>1. /\ mode \notin {"down", "starting"}
        /\ store[x].st = "disk" /\ store[x].invalid
        /\ Out(x)
        /\ mode = "up" /\ x \in arrived => Doomed
        /\ \A y \in announced \ {Root} : Parent[y] = x => ~Clean(y)
    BY <1>i DEF TrustInv
  <2>2. x # b /\ Out(x)'
    BY <1>1, <1>2, <1>6, <1>8, <2>1 DEF Out
  <2>3. x \in arrived' => Doomed'
    BY <1>1, <2>1, <2>2 DEF Doomed
  <2>4. Parent[b] # x
    BY <1>1, <2>1 DEF Out
  <2>5. QED
    BY <1>2, <2>1, <2>2, <2>3, <2>4
<1>15. GoalInv'
  BY <1>i DEF GoalInv
<1>16. QueueInv'
  BY <1>i, <1>1, <1>8 DEF QueueInv
<1>17. QED
  BY <1>9, <1>10, <1>11, <1>12, <1>13, <1>14, <1>15, <1>16 DEF BadInv

\* The body of a block that was asked for.
LEMMA BadReceived ==
    ASSUME TypeInv, BadInv, NEW b \in Block \ {Root}, BlockReceived(b)
    PROVE  BadInv'
<1>i. CleanInv /\ KnownInv /\ TrustInv /\ GoalInv /\ QueueInv
  BY BadParts
<1>1. /\ mode = "up" /\ b \in announced /\ ~hasData[b] /\ b \notin Malformed /\ arrived' = arrived \cup {b}
      /\ UNCHANGED <<mode, store, treeVars, op, announced, parseTill, saved>>
  BY DEF BlockReceived, ToGet, PostCheckBlock
<1>2. parseTill = NoParse
  BY <1>i, <1>1 DEF QueueInv
<1>3. arrived' \subseteq announced /\ arrived' \cap Malformed = {}
  BY <1>i, <1>1 DEF CleanInv, KnownInv
<1>4. ASSUME NEW x \in arrived', FirstBad(x), store[x].trusted PROVE Doomed'
  <2>1. x # b
    BY <1>i, <1>1, <1>4 DEF TrustInv, Out
  <2>2. x \in Block
    BY <1>1, <1>3 DEF TypeInv, TypeOK
  <2>3. Doomed
    BY <1>i, <1>1, <1>4, <2>1, <2>2 DEF TrustInv
  <2>4. QED
    BY <1>2, <2>3 DEF Doomed
<1>5. GoalInv'
  BY <1>i, <1>1 DEF GoalInv
<1>6. QueueInv'
  BY <1>i, <1>1, <1>2 DEF QueueInv, treeVars
<1>7. UNCHANGED <<BlockIndex, Childs, hasData, last>>
  BY <1>1 DEF treeVars
<1>8. QED
  BY <1>1, <1>3, <1>4, <1>5, <1>6, <1>7, BadSteady

\* Clearing the queue of the main thread.
LEMMA BadDiscard ==
    ASSUME TypeInv, BadInv, NEW b \in Block \ {Root}, DiscardArrived(b)
    PROVE  BadInv'
<1>i. CleanInv /\ KnownInv /\ TrustInv /\ GoalInv /\ QueueInv
  BY BadParts
<1>1. /\ mode = "up" /\ arrived' \subseteq arrived
      /\ UNCHANGED <<mode, store, BlockIndex, Childs, hasData, last, op, announced, parseTill, saved>>
  BY DEF DiscardArrived, MainFree, treeVars
<1>2. arrived' \subseteq announced /\ arrived' \cap Malformed = {} /\ arrived \subseteq Block
  BY <1>i, <1>1 DEF CleanInv, KnownInv, TypeInv, TypeOK
<1>3. Doomed' <=> Doomed
  BY <1>1 DEF Doomed
<1>4. ASSUME NEW x \in arrived', FirstBad(x), store[x].trusted PROVE Doomed'
  BY <1>i, <1>1, <1>2, <1>3, <1>4 DEF TrustInv
<1>5. GoalInv'
  BY <1>i, <1>1 DEF GoalInv
<1>6. QueuedPath => QueuedPath'
  BY <1>1 DEF QueuedPath
<1>7. QueueInv'
  BY <1>i, <1>1, <1>3, <1>6 DEF QueueInv
<1>8. QED
  BY <1>1, <1>2, <1>4, <1>5, <1>7, BadSteady

\* What DeleteBranch(n) does to the tree and to the store.
LEMMA BranchDeleted ==
    ASSUME TypeInv, NEW n \in Block \ {Root}, HasChild(Parent[n], n), DeleteBranch(n)
    PROVE  /\ BlockIndex' = BlockIndex \ Branch(n) /\ n \in Branch(n)
           /\ \A m \in Block : \A x \in Block :
                 Linked(Childs', m, x) <=> Linked(Childs, m, x) /\ m \notin Branch(n) /\ x # n
           /\ \A x \in Block : x \notin Branch(n) => store'[x] = store[x]
           /\ \A x \in Block : \/ store'[x] = store[x] /\ x # n
                               \/ store[x].st # "disk" /\ store'[x] = BS!Absent
                               \/ store[x].st = "disk" /\ store'[x].st = "disk" /\ store'[x].invalid
<1>1. BlockIndex' = BlockIndex \ Branch(n) /\ n \in Branch(n)
  BY BranchSelf DEF DeleteBranch
<1>2. \A m \in Block : \A x \in Block :
          Linked(Childs', m, x) <=> Linked(Childs, m, x) /\ m \notin Branch(n) /\ x # n
  <2>1. Childs' = BranchGone(n)
    BY DEF DeleteBranch, BranchGone
  <2>2. PICK ch : ch = BranchGone(n)
    OBVIOUS
  <2>3. \A m \in Block : \A x \in Block : Linked(ch, m, x) <=> Linked(Childs, m, x) /\ m \notin Branch(n) /\ x # n
    BY <2>2, BranchGoneTree DEF TypeInv, TreeTypes
  <2>4. QED
    BY <2>1, <2>2, <2>3
<1>3. \A x \in Block : store'[x] = IF x \in Branch(n) /\ InvalidCalls(n, x) > 0
                                   THEN BS!Invalidated(store, x)[x] ELSE store[x]
  BY DEF DeleteBranch
<1>4. InvalidCalls(n, n) > 0
  <2>1. Childs[n] \in Seq(Block)
    BY DEF TypeInv, TypeOK
  <2>2. Len(Childs[n]) \in Nat
    BY <2>1
  <2>3. QED
    BY <2>2 DEF InvalidCalls
<1>5. \A x \in Block : /\ store[x].st # "disk" => BS!Invalidated(store, x)[x] = BS!Absent
                       /\ store[x].st = "disk" => /\ BS!Invalidated(store, x)[x].st = "disk"
                                                  /\ BS!Invalidated(store, x)[x].invalid = TRUE
  <2>1. PICK s \in [Block -> BS!Entry] : s = store
    BY DEF TypeInv, TypeOK
  <2>2. QED
    BY <2>1, InvalidatedIs
<1>6. \A x \in Block : x \notin Branch(n) => store'[x] = store[x]
  BY <1>3
<1>7. \A x \in Block : \/ store'[x] = store[x] /\ x # n
                       \/ store[x].st # "disk" /\ store'[x] = BS!Absent
                       \/ store[x].st = "disk" /\ store'[x].st = "disk" /\ store'[x].invalid
  <2> TAKE x \in Block
  <2>1. CASE x \in Branch(n) /\ InvalidCalls(n, x) > 0
    BY <1>3, <1>5, <2>1
  <2>2. CASE ~(x \in Branch(n) /\ InvalidCalls(n, x) > 0)
    BY <1>1, <1>3, <1>4, <2>2
  <2>3. QED
    BY <2>1, <2>2
<1>8. QED
  BY <1>1, <1>2, <1>6, <1>7

\* A malformed block: nothing that is stored or committed is built on it.
LEMMA BadWronglyMined ==
    ASSUME TypeInv, BadInv, NEW b \in Block \ {Root}, WronglyMined(b)
    PROVE  BadInv'
<1>i. HeadGood /\ CleanInv /\ GoodStore /\ KnownInv /\ KeptInv /\ TrustInv /\ GoalInv /\ QueueInv
  BY BadParts
<1>t. TypeOK
  BY DEF TypeInv
<1>1. /\ mode = "up" /\ ToGet(b) /\ b \in Malformed
      /\ UNCHANGED <<hasData, last, op, arrived, parseTill, saved>>
  BY DEF WronglyMined, PostCheckBlock
<1>2. parseTill = NoParse
  BY <1>i, <1>1 DEF QueueInv, ToGet
<1>3. CASE ~HasChild(Parent[b], b)
  <2>1. mode' \in PanicMsg /\ UNCHANGED <<store, BlockIndex, Childs, announced>>
    BY <1>3 DEF WronglyMined, Panic, PanicMsg
  <2>2. QED
    BY <1>1, <2>1, BadPanic
<1>4. CASE HasChild(Parent[b], b)
  <2>1. DeleteBranch(b) /\ announced' = announced \ {c \in Branch(b) : ToGet(c)} /\ mode' = mode
    BY <1>4 DEF WronglyMined
  <2>2. /\ BlockIndex' = BlockIndex \ Branch(b) /\ b \in Branch(b)
        /\ \A m \in Block : \A x \in Block :
              Linked(Childs', m, x) <=> Linked(Childs, m, x) /\ m \notin Branch(b) /\ x # b
        /\ \A x \in Block : x \notin Branch(b) => store'[x] = store[x]
        /\ \A x \in Block : \/ store'[x] = store[x] /\ x # b
                            \/ store[x].st # "disk" /\ store'[x] = BS!Absent
                            \/ store[x].st = "disk" /\ store'[x].st = "disk" /\ store'[x].invalid
    BY <1>4, <2>1, BranchDeleted
  <2>3. ASSUME NEW x \in Branch(b) PROVE x \in Block /\ ~Clean(x) /\ ~BS!Has(x) /\ ~hasData[x]
    <3>1. x \in Block /\ b \in AncOf[x]
      BY BranchSelf
    <3>2. ~Clean(x)
      BY <1>1, <3>1 DEF Clean
    <3>3. QED
      BY <1>i, <3>1, <3>2 DEF CleanInv
  <2>4. BS!Absent.st = "none" /\ BS!Absent.trusted = FALSE
    BY DEF BS!Absent
  <2>5. ASSUME NEW x \in Branch(b) PROVE store'[x].st = "none" /\ (store'[x] = store[x] \/ ~store'[x].trusted)
    BY <2>2, <2>3, <2>4 DEF BS!Has
  <2>6. \A x \in Block : store'[x].st = store[x].st
    BY <2>2, <2>3, <2>5 DEF BS!Has
  <2>7. \A x \in Block : store'[x].trusted => store'[x] = store[x]
    BY <2>2, <2>5
  <2>8. announced' \subseteq announced /\ \A x \in announced : x \notin Branch(b) \/ hasData[x] \/ x \in arrived => x \in announced'
    BY <2>1, <2>3 DEF ToGet
  <2>9. HeadGood'
    BY <1>i, <1>1 DEF HeadGood
  <2>10. CleanInv'
    BY <1>i, <1>1, <2>6 DEF CleanInv, BS!Has
  <2>11. GoodStore'
    <3>1. \A c \in Block : BS!Has(c)' <=> BS!Has(c)
      BY <2>6 DEF BS!Has
    <3>2. ASSUME NEW c \in Block \ {Root}, GoodParent(c), Parent[c] # Root
          PROVE  /\ ~store'[Parent[c]].invalid
                 /\ BS!Has(c)' => BS!Has(Parent[c])'
                 /\ store'[c].st = "disk" => store'[Parent[c]].st = "disk"
                 /\ hasData[Parent[c]] => BS!Has(Parent[c])'
      <4>1. /\ ~store[Parent[c]].invalid
            /\ BS!Has(c) => BS!Has(Parent[c])
            /\ store[c].st = "disk" => store[Parent[c]].st = "disk"
            /\ hasData[Parent[c]] => BS!Has(Parent[c])
        BY <1>i, <1>1, <3>2 DEF GoodStore
      <4>2. Parent[c] \in Block /\ Parent[c] \notin Branch(b)
        BY <2>3, <3>2, ChainAssumption DEF GoodParent
      <4>3. store'[Parent[c]] = store[Parent[c]]
        BY <2>2, <4>2
      <4>4. QED
        BY <2>6, <3>1, <4>1, <4>2, <4>3
    <3>3. \A a \in AncOf[last] \ {Root} : BS!Has(a)'
      <4>1. \A a \in AncOf[last] \ {Root} : a \in Block /\ BS!Has(a)
        BY <1>i, <1>t, <1>1, AncSelf DEF GoodStore, TypeOK
      <4>2. QED
        BY <3>1, <4>1
    <3>4. \A c \in Block : BS!Has(c)' => c # Root
      BY <1>i, <3>1 DEF GoodStore
    <3>5. QED
      BY <1>1, <3>2, <3>3, <3>4 DEF GoodStore
  <2>12. KnownInv'
    <3>1. BlockIndex' \subseteq announced'
      BY <1>i, <1>1, <2>2, <2>8 DEF KnownInv
    <3>2. arrived \subseteq announced'
      BY <1>i, <1>1, <2>8 DEF KnownInv
    <3>3. \A c \in Block : hasData[c] => c \in announced'
      BY <1>i, <1>1, <2>8 DEF KnownInv
    <3>4. QED
      BY <1>1, <2>1, <3>1, <3>2, <3>3 DEF KnownInv
  <2>13. \A x \in Block : Out(x) => Out(x)'
    BY <1>1, <2>2, <2>8 DEF Out
  <2>14. KeptInv'
    <3>1. ASSUME NEW x \in Block, NEW y \in Block, Linked(Childs', x, y), FirstBad(x) PROVE x \in announced'
      BY <1>i, <1>1, <2>2, <2>8, <3>1 DEF KeptInv
    <3>2. ASSUME NEW y \in announced' \ {Root}, FirstBad(Parent[y]), Clean(y)
          PROVE  Linked(Childs', Parent[y], y) \/ Out(Parent[y])'
      <4>1. y \in announced \ {Root} /\ y \in Block \ {Root} /\ Parent[y] \in Block
        BY <1>t, <2>8, ChainAssumption DEF TypeOK
      <4>2. Linked(Childs, Parent[y], y) \/ Out(Parent[y])
        BY <1>i, <1>1, <3>2, <4>1 DEF KeptInv
      <4>3. Parent[y] \in AncOf[y]
        BY <4>1, AncSelf, AncParent, Rooted
      <4>4. Clean(Parent[y])
        BY <3>2, <4>1, <4>3, CleanBelow
      <4>5. Parent[y] \notin Branch(b) /\ y # b
        BY <2>2, <2>3, <3>2, <4>4
      <4>6. QED
        BY <2>2, <2>13, <4>1, <4>2, <4>5
    <3>3. QED
      BY <3>1, <3>2 DEF KeptInv
  <2>15. Doomed' <=> Doomed
    BY <1>1 DEF Doomed
  <2>16. TrustInv'
    <3> SUFFICES ASSUME NEW x \in Block, FirstBad(x), store'[x].trusted
                 PROVE  /\ mode' \notin {"down", "starting"}
                        /\ store'[x].st = "disk" /\ store'[x].invalid
                        /\ Out(x)'
                        /\ mode' = "up" /\ x \in arrived' => Doomed'
                        /\ \A y \in announced' \ {Root} : Parent[y] = x => ~Clean(y)
      BY DEF TrustInv
    <3>1. store'[x] = store[x]
      BY <2>7
    <3>2. /\ mode \notin {"down", "starting"}
          /\ store[x].st = "disk" /\ store[x].invalid
          /\ Out(x)
          /\ mode = "up" /\ x \in arrived => Doomed
          /\ \A y \in announced \ {Root} : Parent[y] = x => ~Clean(y)
      BY <1>i, <3>1 DEF TrustInv
    <3>3. QED
      BY <1>1, <2>1, <2>8, <2>13, <2>15, <3>1, <3>2
  <2>17. GoalInv'
    <3>1. op.pc # "idle" => AncOf[op.dst] \subseteq Block
      BY AncSelf DEF TypeInv, OpTypes
    <3>2. ASSUME op.pc \in {"move", "undo", "parse"}, NEW x \in AncOf[op.dst], FirstBad(x) PROVE ~store'[x].trusted
      <4>1. x \in Block /\ ~store[x].trusted
        BY <1>i, <3>1, <3>2 DEF GoalInv
      <4>2. QED
        BY <2>7, <4>1
    <3>3. QED
      BY <1>1, <3>2 DEF GoalInv
  <2>18. QueueInv'
    BY <1>i, <1>1, <1>2, <2>1 DEF QueueInv
  <2>19. QED
    BY <2>9, <2>10, <2>11, <2>12, <2>14, <2>16, <2>17, <2>18 DEF BadInv
<1>5. QED
  BY <1>3, <1>4

\* A block is committed: what the store and the nodes have then.
IsCommitted(s2, s, b) ==
    /\ \A x \in Block : x # b => s2[x] = s[x]
    /\ s2[b].st # "none" /\ (s2[b].st = "disk" => s[b].st = "disk") /\ (s[b].st = "disk" => s2[b].st = "disk")
    /\ s2[b].invalid => s[b].invalid

LEMMA BadCommit ==
    ASSUME TypeInv, BadInv, NEW b \in Block \ {Root}, Acceptable(b),
           hasData' = [hasData EXCEPT ![b] = TRUE], arrived' = arrived \ {b},
           IsCommitted(store', store, b), FirstBad(b) => ~store'[b].trusted,
           BlockIndex' \subseteq BlockIndex, UNCHANGED <<announced, saved>>,
           mode' \in {"up"} \cup PanicMsg,
           last' = last \/ (last' = b /\ last = Parent[b]), HeadGood',
           KeptInv', GoalInv', QueueInv'
    PROVE  BadInv'
<1>i. HeadGood /\ CleanInv /\ GoodStore /\ KnownInv /\ KeptInv /\ TrustInv /\ GoalInv /\ QueueInv
  BY BadParts
<1>a. /\ mode = "up" /\ op.pc = "idle" /\ b \in arrived /\ b \in announced /\ Clean(b) /\ ~Doomed
      /\ \A x \in AncOf[b] : FirstBad(x) => ~store[x].trusted
  BY AcceptableGood
<1>t. TypeOK /\ last \in Block /\ hasData \in [Block -> BOOLEAN]
  BY DEF TypeInv, TypeOK
<1>s. /\ \A x \in Block : x # b => store'[x] = store[x]
      /\ store'[b].st # "none"
      /\ \A x \in Block : store'[x].st = "disk" <=> store[x].st = "disk"
      /\ \A x \in Block : store'[x].invalid => store[x].invalid
      /\ \A x \in Block : BS!Has(x)' <=> BS!Has(x) \/ x = b
  BY DEF IsCommitted, BS!Has
<1>d. \A x \in Block : hasData'[x] <=> hasData[x] \/ x = b
  BY <1>t
<1>m. mode' \notin {"down", "starting"}
  BY DEF PanicMsg
<1>1. CleanInv'
  <2>1. arrived' \cap Malformed = {}
    BY <1>i DEF CleanInv
  <2>2. \A x \in Block : BS!Has(x)' \/ hasData'[x] => Clean(x)
    BY <1>i, <1>a, <1>s, <1>d DEF CleanInv
  <2>3. QED
    BY <2>1, <2>2 DEF CleanInv
<1>2. GoodStore'
  <2>1. ASSUME NEW c \in Block \ {Root}, GoodParent(c), Parent[c] # Root
        PROVE  /\ ~store'[Parent[c]].invalid
               /\ BS!Has(c)' => BS!Has(Parent[c])'
               /\ store'[c].st = "disk" => store'[Parent[c]].st = "disk"
               /\ hasData'[Parent[c]] => BS!Has(Parent[c])'
    <3>0. Parent[c] \in Block
      BY ChainAssumption
    <3>1. /\ ~store[Parent[c]].invalid
          /\ BS!Has(c) => BS!Has(Parent[c])
          /\ store[c].st = "disk" => store[Parent[c]].st = "disk"
          /\ hasData[Parent[c]] => BS!Has(Parent[c])
      BY <1>i, <1>a, <2>1 DEF GoodStore
    <3>2. c = b => BS!Has(Parent[c])
      <4> HAVE c = b
      <4>1. Parent[b] \in AncOf[b] \ {b}
        <5>1. Parent[b] \in AncOf[b] /\ b \notin AncOf[Parent[b]]
          BY AncSelf, AncParent, AncAcyclic, Rooted
        <5>2. QED
          BY <3>0, <5>1, AncSelf
      <4>2. Parent[b] \in AncOf[last] \/ hasData[Parent[b]]
        BY <4>1 DEF Acceptable, HasAllParents, OnActiveBranch
      <4>3. Parent[b] \in AncOf[last] => BS!Has(Parent[b])
        BY <1>i, <1>a, <2>1 DEF GoodStore
      <4>4. QED
        BY <3>1, <4>2, <4>3
    <3>3. QED
      BY <1>s, <1>d, <3>0, <3>1, <3>2
  <2>2. \A a \in AncOf[last'] \ {Root} : BS!Has(a)'
    <3>1. \A a \in AncOf[last] \ {Root} : a \in Block /\ BS!Has(a)
      BY <1>i, <1>t, <1>a, AncSelf DEF GoodStore
    <3>2. last' # last => AncOf[last'] = {b} \cup AncOf[last]
      BY AncStep, Rooted
    <3>3. QED
      BY <1>s, <3>1, <3>2
  <2>3. \A c \in Block : BS!Has(c)' => c # Root
    BY <1>i, <1>s DEF GoodStore
  <2>4. QED
    BY <2>1, <2>2, <2>3 DEF GoodStore
<1>3. KnownInv'
  BY <1>i, <1>a, <1>d, <1>m DEF KnownInv
<1>4. TrustInv'
  <2> SUFFICES ASSUME NEW x \in Block, FirstBad(x), store'[x].trusted
               PROVE  /\ mode' \notin {"down", "starting"}
                      /\ store'[x].st = "disk" /\ store'[x].invalid
                      /\ Out(x)'
                      /\ mode' = "up" /\ x \in arrived' => Doomed'
                      /\ \A y \in announced' \ {Root} : Parent[y] = x => ~Clean(y)
    BY DEF TrustInv
  <2>1. x # b /\ store'[x] = store[x]
    BY <1>s
  <2>2. /\ store[x].st = "disk" /\ store[x].invalid
        /\ Out(x)
        /\ x \notin arrived
        /\ \A y \in announced \ {Root} : Parent[y] = x => ~Clean(y)
    BY <1>i, <1>a, <2>1 DEF TrustInv
  <2>3. Out(x)'
    BY <1>d, <2>2 DEF Out
  <2>4. QED
    BY <1>m, <2>1, <2>2, <2>3
<1>5. QED
  BY <1>1, <1>2, <1>3, <1>4 DEF BadInv

\* A block that has the height of the one it is built on is that block.
LEMMA SameHeight ==
    ASSUME NEW c \in Block, NEW h \in AncOf[c], Height(c) <= Height(h)
    PROVE  c = h
<1>1. Height(h) \in Nat /\ Height(c) \in Nat /\ (h # c => Height(h) < Height(c))
  BY HeightLess, Rooted
<1>2. QED
  BY <1>1

LEMMA BadOnTop ==
    ASSUME TypeInv, BadInv, NEW b \in Block \ {Root}, CommitOnTop(b)
    PROVE  BadInv'
<1>i. HeadGood /\ KeptInv /\ QueueInv
  BY BadParts
<1>a. /\ mode = "up" /\ op.pc = "idle" /\ b \in arrived /\ b \in announced /\ Clean(b) /\ ~Doomed
      /\ \A x \in AncOf[b] : FirstBad(x) => ~store[x].trusted
  BY AcceptableGood DEF CommitOnTop
<1>t. OpTypes /\ last \in Block /\ hasData \in [Block -> BOOLEAN] /\ None \notin Block
  BY ChainAssumption DEF TypeInv, TypeOK
<1>1. /\ Acceptable(b) /\ last = Parent[b] /\ Verifies(b)
      /\ hasData' = [hasData EXCEPT ![b] = TRUE] /\ last' = b /\ arrived' = arrived \ {b}
      /\ parseTill' = IF parseTill.end = b THEN NoParse ELSE parseTill
      /\ UNCHANGED <<mode, BlockIndex, Childs, op, announced, saved>>
  BY DEF CommitOnTop, ReachedTill
<1>2. IsCommitted(store', store, b)
  <2>1. PICK s \in [Block -> BS!Entry] : s = store
    BY DEF TypeInv, TypeOK
  <2>2. PICK s1 \in [Block -> BS!Entry] : s1 = BS!Added(s, b, FALSE)
    BY AddedIs
  <2>3. PICK s2 \in [Block -> BS!Entry] : s2 = BS!Added(s1, b, TRUE)
    BY AddedIs
  <2>4. IsAdded(s1, s, b, FALSE)
    BY <2>2, AddedIs
  <2>5. IsAdded(s2, s1, b, TRUE)
    BY <2>3, AddedIs
  <2>6. IsCommitted(s2, s, b)
    BY <2>4, <2>5 DEF IsAdded, IsCommitted
  <2>7. store' = s2
    BY <2>1, <2>2, <2>3 DEF CommitOnTop
  <2>8. QED
    BY <2>1, <2>6, <2>7
<1>3. b \notin Bad /\ AncOf[b] \cap Bad = {}
  <2>1. AncOf[b] = {b} \cup AncOf[last]
    BY <1>1, AncStep, Rooted
  <2>2. b \notin Bad
    <3> SUFFICES ASSUME b \in Bad PROVE FALSE
      OBVIOUS
    <3>1. FirstBad(b)
      BY <1>i, <1>1, FirstAbove DEF HeadGood
    <3>2. QED
      BY <1>a, <1>1, <2>1, <3>1 DEF Verifies
  <2>3. QED
    BY <1>i, <2>1, <2>2 DEF HeadGood
<1>4. HeadGood'
  BY <1>i, <1>a, <1>1, <1>3 DEF HeadGood
<1>5. ~FirstBad(b)
  BY <1>3 DEF FirstBad
<1>d. \A x \in Block : hasData'[x] <=> hasData[x] \/ x = b
  BY <1>t, <1>1
<1>6. KeptInv'
  <2>1. \A x \in Block : Out(x) => Out(x)'
    BY <1>1, <1>d DEF Out
  <2>2. announced \subseteq Block
    BY DEF TypeInv, TypeOK
  <2>3. \A y \in announced \ {Root} : Parent[y] \in Block
    BY <2>2, ChainAssumption
  <2>4. QED
    BY <1>i, <1>1, <2>1, <2>3 DEF KeptInv
<1>7. GoalInv'
  BY <1>a, <1>1 DEF GoalInv
<1>8. QueueInv'
  <2>b. arrived \subseteq Block /\ announced \subseteq Block
    BY DEF TypeInv, TypeOK
  <2>1. CASE parseTill = NoParse
    <3>1. parseTill' = NoParse
      BY <1>1, <2>1
    <3>2. \A x \in arrived' \cap Bad : ~hasData'[x]
      BY <1>i, <1>a, <1>1, <1>d, <2>b, <2>1 DEF QueueInv
    <3>3. QED
      BY <1>a, <1>1, <3>1, <3>2 DEF QueueInv
  <2>2. CASE parseTill # NoParse
    <3>0. parseTill.cur \in Block /\ parseTill.end \in Block
      BY <1>t, <2>2 DEF OpTypes
    <3>1. QueuedPath
      BY <1>i, <1>a, <2>2 DEF QueueInv
    <3>2. b \in AncOf[parseTill.cur] /\ arrived \subseteq AncOf[parseTill.cur]
      BY <1>a, <3>1 DEF QueuedPath
    <3>3. CASE parseTill.end = b
      <4>1. parseTill' = NoParse
        BY <1>1, <3>3
      <4>2. parseTill.cur = b
        <5>1. PICK c \in Block : c = parseTill.cur
          BY <3>0
        <5>2. b \in AncOf[c] /\ Height(c) <= Height(b)
          BY <3>1, <3>2, <3>3, <5>1 DEF QueuedPath
        <5>3. QED
          BY <5>1, <5>2, SameHeight
      <4>3. arrived' \cap Bad = {}
        BY <1>1, <1>3, <3>2, <4>2
      <4>4. QED
        BY <1>a, <1>1, <4>1, <4>3 DEF QueueInv
    <3>4. CASE parseTill.end # b
      <4>1. parseTill' = parseTill
        BY <1>1, <3>4
      <4>2. AncOf[last] \subseteq AncOf[b]
        BY <1>1, AncStep, Rooted
      <4>3. QueuedPath'
        <5>1. b \in AncOf[parseTill.cur] /\ arrived' \subseteq AncOf[parseTill.cur]
          BY <1>1, <3>2
        <5>2. \A a \in AncOf[parseTill.cur] \ AncOf[b] : Linked(Childs, Parent[a], a)
          BY <3>1, <4>2 DEF QueuedPath
        <5>3. QED
          BY <1>a, <1>1, <3>1, <4>1, <5>1, <5>2 DEF QueuedPath
      <4>4. \A x \in announced \ {Root} : hasData'[x]
        BY <1>i, <1>a, <1>d, <2>b, <2>2 DEF QueueInv
      <4>5. \A a \in AncOf[parseTill.end] \ {Root} : a \in announced
        BY <1>i, <1>a, <2>2 DEF QueueInv
      <4>6. QED
        BY <1>a, <1>1, <2>2, <4>1, <4>3, <4>4, <4>5 DEF QueueInv
    <3>5. QED
      BY <3>3, <3>4
  <2>3. QED
    BY <2>1, <2>2
<1>9. mode' \in {"up"} \cup PanicMsg
  BY <1>a, <1>1
<1>10. QED
  BY <1>1, <1>2, <1>4, <1>5, <1>6, <1>7, <1>8, <1>9, BadCommit

\* A block added to the store without the trusted flag.
LEMMA AddedPlain ==
    ASSUME TypeInv, BadInv, NEW b \in Block \ {Root}, Acceptable(b), store' = BS!Added(store, b, FALSE)
    PROVE  /\ IsCommitted(store', store, b) /\ (FirstBad(b) => ~store'[b].trusted)
           /\ \A x \in Block : store'[x].trusted => store[x].trusted
<1>1. PICK s \in [Block -> BS!Entry] : s = store
  BY DEF TypeInv, TypeOK
<1>2. PICK s1 \in [Block -> BS!Entry] : s1 = BS!Added(s, b, FALSE)
  BY AddedIs
<1>3. IsAdded(s1, s, b, FALSE) /\ store' = s1
  BY <1>1, <1>2, AddedIs
<1>4. IsCommitted(s1, s, b)
  BY <1>3 DEF IsAdded, IsCommitted
<1>5. \A x \in Block : s1[x].trusted => s[x].trusted
  BY <1>3 DEF IsAdded
<1>6. FirstBad(b) => ~store[b].trusted
  BY AcceptableGood, AncSelf
<1>7. QED
  BY <1>1, <1>3, <1>4, <1>5, <1>6

LEMMA BadFails ==
    ASSUME TypeInv, BadInv, NEW b \in Block \ {Root}, CommitFails(b)
    PROVE  BadInv'
<1>i. HeadGood /\ KeptInv /\ QueueInv
  BY BadParts
<1>a. /\ mode = "up" /\ op.pc = "idle" /\ b \in arrived /\ b \in announced
  BY AcceptableGood DEF CommitFails
<1>t. hasData \in [Block -> BOOLEAN] /\ Childs \in [Block -> Seq(Block)] /\ GoodEdges(Childs)
      /\ announced \subseteq Block /\ arrived \subseteq Block
  BY DEF TypeInv, TypeOK, TreeTypes
<1>1. /\ Acceptable(b) /\ last = Parent[b]
      /\ hasData' = [hasData EXCEPT ![b] = TRUE] /\ arrived' = arrived \ {b}
      /\ store' = BS!Added(store, b, FALSE)
      /\ UNCHANGED <<last, op, announced, parseTill, saved>>
  BY DEF CommitFails
<1>2. IsCommitted(store', store, b) /\ (FirstBad(b) => ~store'[b].trusted)
  BY <1>1, AddedPlain
<1>3. HeadGood'
  BY <1>i, <1>1 DEF HeadGood
<1>4. GoalInv'
  BY <1>a, <1>1 DEF GoalInv
<1>d. \A x \in Block : hasData'[x] <=> hasData[x] \/ x = b
  BY <1>t, <1>1
<1>5. /\ mode' \in {"up"} \cup PanicMsg /\ BlockIndex' \subseteq BlockIndex
      /\ mode' = "up" => parseTill = NoParse
      /\ \A m \in Block : \A x \in Block : Linked(Childs', m, x) => Linked(Childs, m, x)
      /\ \A m \in Block : \A x \in Block : Linked(Childs, m, x) => Linked(Childs', m, x) \/ (m = last /\ x = b)
  <2>1. CASE HasChild(Parent[b], b)
    <3>1. Childs' = WithoutChild(Parent[b], b) /\ BlockIndex' = BlockIndex \ {b} /\ Misbehave
      BY <2>1 DEF CommitFails
    <3>2. Parent[b] \in Block
      BY ChainAssumption
    <3>3. PICK ch : ch = WithoutChild(Parent[b], b)
      OBVIOUS
    <3>4. IsWithoutChild(ch, Childs, Parent[b], b)
      BY <1>t, <2>1, <3>2, <3>3, WithoutChildTree
    <3>5. \A m \in Block : \A x \in Block : Linked(ch, m, x) <=> Linked(Childs, m, x) /\ ~(m = last /\ x = b)
      BY <1>1, <3>4 DEF IsWithoutChild
    <3>6. mode' \in {"up"} \cup PanicMsg /\ (mode' = "up" => parseTill = NoParse)
      BY <1>a, <3>1 DEF Misbehave, Panic, PanicMsg
    <3>7. Childs' = ch /\ BlockIndex' \subseteq BlockIndex
      BY <3>1, <3>3
    <3>8. QED
      BY <3>5, <3>6, <3>7
  <2>2. CASE ~HasChild(Parent[b], b)
    <3>1. mode' = "Child not found" /\ UNCHANGED <<Childs, BlockIndex>>
      BY <2>2 DEF CommitFails, Panic
    <3>2. QED
      BY <3>1 DEF PanicMsg
  <2>3. QED
    BY <2>1, <2>2
<1>6. KeptInv'
  <2>1. \A x \in Block : Out(x) => Out(x)'
    BY <1>1, <1>5, <1>d DEF Out
  <2>2. ASSUME NEW x \in Block, NEW y \in Block, Linked(Childs', x, y), FirstBad(x) PROVE x \in announced
    BY <1>i, <1>a, <1>5, <2>2 DEF KeptInv
  <2>3. ASSUME NEW y \in announced \ {Root}, FirstBad(Parent[y]), Clean(y)
        PROVE  Linked(Childs', Parent[y], y) \/ Out(Parent[y])'
    <3>1. y \in Block /\ Parent[y] \in Block
      BY <1>t, ChainAssumption
    <3>2. Linked(Childs, Parent[y], y) \/ Out(Parent[y])
      BY <1>i, <1>a, <2>3 DEF KeptInv
    <3>3. Parent[y] # last
      BY <1>i, <2>3 DEF HeadGood, FirstBad
    <3>4. QED
      BY <1>5, <2>1, <3>1, <3>2, <3>3
  <2>4. QED
    BY <1>1, <2>2, <2>3 DEF KeptInv
<1>7. QueueInv'
  <2>1. mode' # "starting"
    BY <1>5 DEF PanicMsg
  <2>2. ASSUME mode' = "up" PROVE parseTill' = NoParse /\ \A x \in arrived' \cap Bad : ~hasData'[x]
    <3>1. parseTill = NoParse
      BY <1>5, <2>2
    <3>2. \A x \in arrived \cap Bad : ~hasData[x]
      BY <1>i, <1>a, <3>1 DEF QueueInv
    <3>3. QED
      BY <1>t, <1>1, <1>d, <3>1, <3>2
  <2>3. QED
    BY <2>1, <2>2 DEF QueueInv
<1>8. QED
  BY <1>1, <1>2, <1>3, <1>4, <1>5, <1>6, <1>7, BadCommit

LEMMA BadOffTop ==
    ASSUME TypeInv, BadInv, NEW b \in Block \ {Root}, CommitOffTop(b)
    PROVE  BadInv'
<1>i. HeadGood /\ KeptInv /\ QueueInv
  BY BadParts
<1>a. /\ mode = "up" /\ op.pc = "idle" /\ b \in arrived /\ b \in announced /\ ~Doomed
      /\ \A x \in AncOf[b] : FirstBad(x) => ~store[x].trusted
  BY AcceptableGood DEF CommitOffTop
<1>t. OpTypes /\ last \in Block /\ hasData \in [Block -> BOOLEAN] /\ announced \subseteq Block /\ arrived \subseteq Block
  BY DEF TypeInv, TypeOK
<1>1. /\ Acceptable(b)
      /\ hasData' = [hasData EXCEPT ![b] = TRUE] /\ arrived' = arrived \ {b}
      /\ store' = BS!Added(store, b, FALSE)
      /\ op' = IF MorePOW(b, last) THEN [pc |-> "move", dst |-> b, blk |-> b] ELSE op
      /\ UNCHANGED <<mode, BlockIndex, Childs, last, announced, parseTill, saved>>
  BY DEF CommitOffTop
<1>2. /\ IsCommitted(store', store, b) /\ (FirstBad(b) => ~store'[b].trusted)
      /\ \A x \in Block : store'[x].trusted => store[x].trusted
  BY <1>1, AddedPlain
<1>3. HeadGood'
  BY <1>i, <1>1 DEF HeadGood
<1>4. GoalInv'
  <2>1. op'.pc # "idle" => op'.dst = b
    BY <1>a, <1>1
  <2>2. \A x \in AncOf[b] : FirstBad(x) => ~store'[x].trusted
    BY <1>a, <1>2, AncSelf
  <2>3. QED
    BY <2>1, <2>2 DEF GoalInv
<1>d. \A x \in Block : hasData'[x] <=> hasData[x] \/ x = b
  BY <1>t, <1>1
<1>5. KeptInv'
  <2>1. \A x \in Block : Out(x) => Out(x)'
    BY <1>1, <1>d DEF Out
  <2>2. \A y \in announced \ {Root} : Parent[y] \in Block
    BY <1>t, ChainAssumption
  <2>3. QED
    BY <1>i, <1>1, <2>1, <2>2 DEF KeptInv
<1>6. QueueInv'
  <2>1. CASE parseTill = NoParse
    <3>1. \A x \in arrived' \cap Bad : ~hasData'[x]
      BY <1>i, <1>t, <1>a, <1>1, <1>d, <2>1 DEF QueueInv
    <3>2. QED
      BY <1>a, <1>1, <2>1, <3>1 DEF QueueInv
  <2>2. CASE parseTill # NoParse
    <3>0. parseTill.cur \in Block
      BY <1>t, <2>2 DEF OpTypes
    <3>1. QueuedPath
      BY <1>i, <1>a, <2>2 DEF QueueInv
    <3>2. b \in AncOf[parseTill.cur] /\ last \in AncOf[parseTill.cur]
      BY <1>a, <3>1 DEF QueuedPath
    <3>3. MorePOW(b, last) => last \in AncOf[b]
      <4>1. last \in AncOf[b] \/ b \in AncOf[last]
        BY <3>0, <3>2, AncLinear, Rooted
      <4>2. WorkOf[b] \in Nat /\ WorkOf[last] \in Nat
        BY <1>t, WorkPositive
      <4>3. b \in AncOf[last] => WorkOf[b] <= WorkOf[last]
        BY <1>t, WorkAncestor
      <4>4. QED
        BY <4>1, <4>2, <4>3 DEF MorePOW
    <3>4. op'.pc # "idle" => op'.pc # "retry" /\ op'.dst = op'.blk /\ op'.blk = b /\ last \in AncOf[b]
      BY <1>a, <1>1, <3>3
    <3>5. QueuedPath'
      BY <1>1, <3>1, <3>2, <3>4 DEF QueuedPath
    <3>6. \A x \in announced \ {Root} : hasData'[x]
      BY <1>i, <1>a, <1>t, <1>d, <2>2 DEF QueueInv
    <3>7. \A a \in AncOf[parseTill.end] \ {Root} : a \in announced
      BY <1>i, <1>a, <2>2 DEF QueueInv
    <3>8. QED
      BY <1>a, <1>1, <2>2, <3>5, <3>6, <3>7 DEF QueueInv
  <2>3. QED
    BY <2>1, <2>2
<1>7. mode' \in {"up"} \cup PanicMsg
  BY <1>a, <1>1
<1>8. QED
  BY <1>1, <1>2, <1>3, <1>4, <1>5, <1>6, <1>7, BadCommit

\* Back from MoveToBlock or ParseTillBlock.
LEMMA BadReturn ==
    ASSUME TypeInv, BadInv, mode = "up", op.pc # "idle", Return,
           UNCHANGED <<store, treeVars, announced, arrived, saved>>
    PROVE  BadInv'
<1>i. HeadGood /\ CleanInv /\ KnownInv /\ TrustInv /\ QueueInv
  BY BadParts
<1>t. OpTypes /\ TypeOK /\ last \in Block /\ op.blk \in Block /\ arrived \subseteq Block /\ None \notin Block
  BY ChainAssumption DEF TypeInv, TypeOK, OpTypes
<1>u. UNCHANGED <<BlockIndex, Childs, hasData, last>>
  BY DEF treeVars
<1>1. op' = IdleOp /\ op'.pc = "idle"
  BY DEF Return, IdleOp
<1>2. mode' \in {"up"} \cup PanicMsg
  BY <1>t, ReturnTypes
<1>3. ASSUME mode' = "up", parseTill # NoParse
      PROVE  last = op.blk /\ parseTill' = (IF parseTill.end = last THEN NoParse ELSE parseTill)
  BY <1>3 DEF Return, Misbehave, Panic, ReachedTill
<1>4. mode' = "up" => ~Doomed
  BY <1>i, <1>3 DEF Doomed, HeadGood
<1>5. GoalInv'
  BY <1>1 DEF GoalInv
<1>6. arrived' \subseteq announced /\ arrived' \cap Malformed = {}
  BY <1>i DEF CleanInv, KnownInv
<1>7. \A x \in arrived' : mode' = "up" /\ FirstBad(x) /\ store[x].trusted => Doomed'
  BY <1>i, <1>t, <1>4 DEF TrustInv
<1>8. QueueInv'
  <2> SUFFICES ASSUME mode' = "up" PROVE QueueInv'
    BY <1>2 DEF QueueInv, PanicMsg
  <2>1. CASE parseTill = NoParse
    <3>1. parseTill' = NoParse
      BY <2>1 DEF Return, ReachedTill
    <3>2. QED
      BY <1>i, <1>u, <2>1, <3>1 DEF QueueInv
  <2>2. CASE parseTill # NoParse
    <3>0. parseTill.cur \in Block /\ parseTill.end \in Block
      BY <1>t, <2>2 DEF OpTypes
    <3>1. QueuedPath
      BY <1>i, <1>4, <2>2 DEF QueueInv
    <3>2. last = op.blk /\ parseTill' = (IF parseTill.end = last THEN NoParse ELSE parseTill)
      BY <1>3, <2>2
    <3>3. CASE parseTill.end = last
      <4>1. parseTill.cur = last
        <5>1. PICK c \in Block : c = parseTill.cur
          BY <3>0
        <5>2. last \in AncOf[c] /\ Height(c) <= Height(last)
          BY <3>1, <3>3, <5>1 DEF QueuedPath
        <5>3. QED
          BY <5>1, <5>2, SameHeight
      <4>2. arrived \cap Bad = {}
        BY <1>i, <3>1, <4>1 DEF QueuedPath, HeadGood
      <4>3. parseTill' = NoParse
        BY <3>2, <3>3
      <4>4. QED
        BY <4>2, <4>3 DEF QueueInv
    <3>4. CASE parseTill.end # last
      <4>1. parseTill' = parseTill
        BY <3>2, <3>4
      <4>2. QueuedPath'
        BY <1>u, <1>1, <3>1, <4>1 DEF QueuedPath
      <4>3. QED
        BY <1>i, <1>u, <2>2, <4>1, <4>2 DEF QueueInv
    <3>5. QED
      BY <3>3, <3>4
  <2>3. QED
    BY <2>1, <2>2
<1>9. QED
  BY <1>u, <1>2, <1>5, <1>6, <1>7, <1>8, BadSteady

\* The main thread goes on with its reorganisation.
LEMMA BadGoesOn ==
    ASSUME TypeInv, BadInv, mode = "up", op.pc # "idle",
           NEW p \in {"undo", "parse", "retry"}, op' = [op EXCEPT !.pc = p],
           p # "retry" => op.pc \in {"move", "undo"},
           p = "retry" => parseTill = NoParse \/ Doomed,
           UNCHANGED <<mode, store, treeVars, announced, arrived, parseTill, saved>>
    PROVE  BadInv'
<1>i. CleanInv /\ KnownInv /\ TrustInv /\ GoalInv /\ QueueInv
  BY BadParts
<1>u. UNCHANGED <<BlockIndex, Childs, hasData, last>>
  BY DEF treeVars
<1>1. op'.pc = p /\ op'.dst = op.dst /\ op'.blk = op.blk /\ arrived \subseteq Block
  BY DEF TypeInv, TypeOK
<1>2. Doomed => Doomed'
  BY <1>1 DEF Doomed
<1>3. GoalInv'
  BY <1>i, <1>1 DEF GoalInv
<1>4. arrived' \subseteq announced /\ arrived' \cap Malformed = {}
  BY <1>i DEF CleanInv, KnownInv
<1>5. \A x \in arrived' : FirstBad(x) /\ store[x].trusted => Doomed'
  BY <1>i, <1>1, <1>2 DEF TrustInv
<1>6. QueuedPath /\ p # "retry" => QueuedPath'
  BY <1>u, <1>1 DEF QueuedPath
<1>7. QueueInv'
  <2>1. CASE parseTill = NoParse
    BY <1>i, <1>u, <2>1 DEF QueueInv
  <2>2. CASE parseTill # NoParse
    <3>1. Doomed' \/ QueuedPath'
      BY <1>i, <1>2, <1>6, <2>2 DEF QueueInv
    <3>2. QED
      BY <1>i, <1>u, <2>2, <3>1 DEF QueueInv
  <2>3. QED
    BY <2>1, <2>2
<1>8. QED
  BY <1>u, <1>3, <1>4, <1>5, <1>7, BadSteady

LEMMA BadMove ==
    ASSUME TypeInv, BadInv, MoveToBlock
    PROVE  BadInv'
<1>1. mode = "up" /\ op.pc = "move" /\ UNCHANGED <<store, treeVars, announced, arrived, saved>>
  BY DEF MoveToBlock
<1>2. CASE CannotMove(op.dst)
  BY <1>1, <1>2, BadReturn DEF MoveToBlock
<1>3. CASE ~CannotMove(op.dst)
  <2>1. op' = [op EXCEPT !.pc = "undo"] /\ UNCHANGED <<mode, parseTill>>
    BY <1>3 DEF MoveToBlock
  <2>2. PICK p \in {"undo", "parse", "retry"} : p = "undo"
    OBVIOUS
  <2>3. QED
    BY <1>1, <2>1, <2>2, BadGoesOn
<1>4. QED
  BY <1>2, <1>3

LEMMA BadUndone ==
    ASSUME TypeInv, BadInv, UndoDone
    PROVE  BadInv'
<1>1. /\ mode = "up" /\ op.pc = "undo" /\ op' = [op EXCEPT !.pc = "parse"]
      /\ UNCHANGED <<mode, store, treeVars, announced, arrived, parseTill, saved>>
  BY DEF UndoDone, netVars
<1>2. PICK p \in {"undo", "parse", "retry"} : p = "parse"
  OBVIOUS
<1>3. QED
  BY <1>1, <1>2, BadGoesOn

\* No block is undone to parse what was found on disk.
LEMMA BadUndo ==
    ASSUME TypeInv, BadInv, UndoLastBlock
    PROVE  BadInv'
<1>i. HeadGood /\ CleanInv /\ GoodStore /\ KnownInv /\ TrustInv /\ GoalInv /\ QueueInv
  BY BadParts
<1>t. last \in Block /\ op.dst \in Block /\ arrived \subseteq Block
  BY DEF TypeInv, TypeOK, OpTypes, UndoLastBlock
<1>1. /\ mode = "up" /\ op.pc = "undo" /\ last # Common(op.dst, last)
      /\ UNCHANGED <<store, BlockIndex, Childs, hasData, op, announced, arrived, parseTill, saved>>
  BY DEF UndoLastBlock, netVars
<1>2. CASE ~BS!Has(last)
  <2>1. mode' \in PanicMsg /\ last' = last
    BY <1>2 DEF UndoLastBlock, Panic, PanicMsg
  <2>2. QED
    BY <1>1, <2>1, BadPanic
<1>3. CASE BS!Has(last)
  <2>1. last' = Parent[last] /\ mode' = mode
    BY <1>3 DEF UndoLastBlock
  <2>2. last # Root /\ Parent[last] \in Block
    BY <1>t, <1>1, UndoNotRoot
  <2>3. AncOf[last] = {last} \cup AncOf[Parent[last]]
    BY <1>t, <2>2, AncStep, Rooted
  <2>4. HeadGood'
    BY <1>i, <1>1, <2>1, <2>3 DEF HeadGood, Clean
  <2>5. \A a \in AncOf[last'] \ {Root} : BS!Has(a)
    BY <1>i, <1>1, <2>1, <2>3 DEF GoodStore
  <2>6. Doomed' <=> Doomed
    BY <1>1 DEF Doomed
  <2>7. ~QueuedPath
    <3> SUFFICES ASSUME QueuedPath PROVE FALSE
      OBVIOUS
    <3>1. last \in AncOf[op.dst]
      BY <1>1 DEF QueuedPath
    <3>2. last \in AncOf[last]
      BY <1>t, AncSelf
    <3>3. Common(op.dst, last) = last
      BY <1>t, <3>1, <3>2, CommonIs, Rooted
    <3>4. QED
      BY <1>1, <3>3
  <2>8. QueueInv'
    BY <1>i, <1>1, <2>1, <2>6, <2>7 DEF QueueInv
  <2>9. GoalInv'
    BY <1>i, <1>1 DEF GoalInv
  <2>10. arrived' \subseteq announced /\ arrived' \cap Malformed = {}
    BY <1>i, <1>1 DEF CleanInv, KnownInv
  <2>11. \A x \in arrived' : FirstBad(x) /\ store[x].trusted => Doomed'
    BY <1>i, <1>t, <1>1, <2>6 DEF TrustInv
  <2>12. QED
    BY <1>1, <2>1, <2>4, <2>5, <2>8, <2>9, <2>10, <2>11, BadFrame
<1>4. QED
  BY <1>2, <1>3

\* The next block to parse when a path of the tree leads to the destination.
LEMMA QueuedNext ==
    ASSUME TypeInv, QueuedPath, parseTill # NoParse, Parsing
    PROVE  /\ NextToParse \in AncOf[op.blk] /\ NextToParse \in AncOf[parseTill.cur]
           /\ AncOf[last] \subseteq AncOf[NextToParse] /\ NextToParse \in BlockIndex
<1>t. /\ op.dst \in Block /\ op.blk \in Block /\ parseTill.cur \in Block /\ last \in Block
      /\ Childs \in [Block -> Seq(Block)] /\ TreeTypes /\ op.dst = op.blk
  BY DEF TypeInv, OpTypes, TypeOK, Parsing, QueuedPath
<1>1. last \in AncOf[op.dst] /\ last # op.dst /\ op.dst \in AncOf[parseTill.cur]
  BY DEF QueuedPath, Parsing
<1>2. PICK n : n = ToWards(last, op.dst)
  OBVIOUS
<1>3. n \in AncOf[op.dst] /\ n \in Block \ {Root} /\ Parent[n] = last
  BY <1>t, <1>1, <1>2, ToWardsIn, Rooted
<1>4. n \in AncOf[parseTill.cur]
  BY <1>t, <1>1, <1>3, AncTransitive, Rooted
<1>5. n \notin AncOf[last]
  BY <1>3, AncAcyclic, Rooted
<1>6. Linked(Childs, last, n)
  BY <1>3, <1>4, <1>5 DEF QueuedPath
<1>7. NextToParse = n
  BY <1>t, <1>1, <1>2, <1>6, PathLinked DEF NextToParse
<1>8. AncOf[last] \subseteq AncOf[n]
  BY <1>3, AncStep, Rooted
<1>9. n \in BlockIndex
  BY <1>t, <1>3, <1>6 DEF TreeTypes
<1>10. QED
  BY <1>t, <1>3, <1>4, <1>7, <1>8, <1>9

LEMMA ParseNext ==
    ASSUME TypeInv, Parsing, NextToParse # None
    PROVE  NextToParse \in Block \ {Root} /\ Parent[NextToParse] = last /\ op.dst \in Block /\ op.blk \in Block
<1>1. op.dst \in Block /\ op.blk \in Block
  BY DEF Parsing, OpTypes, TypeInv
<1>2. QED
  BY <1>1, PathIn DEF NextToParse, TypeInv, TypeOK, TreeTypes

\* A block that is applied is not bad.
LEMMA BadApply ==
    ASSUME TypeInv, BadInv, ParseApply
    PROVE  BadInv'
<1>i. HeadGood /\ CleanInv /\ GoodStore /\ KnownInv /\ KeptInv /\ TrustInv /\ GoalInv /\ QueueInv
  BY BadParts
<1>1. PICK n : n = NextToParse
  OBVIOUS
<1>2. /\ Parsing /\ n # None /\ hasData[n] /\ BS!Has(n) /\ Verifies(n) /\ store' = BS!Trusted(store, n) /\ last' = n
      /\ UNCHANGED <<mode, BlockIndex, Childs, hasData, op, announced, arrived, parseTill, saved>>
      /\ mode = "up" /\ op.pc = "parse"
  BY <1>1 DEF ParseApply, Parsing, netVars
<1>3. n \in Block \ {Root} /\ Parent[n] = last /\ op.dst \in Block /\ op.blk \in Block
  BY <1>1, <1>2, ParseNext
<1>4. AncOf[n] = {n} \cup AncOf[last]
  BY <1>3, AncStep, Rooted
<1>5. n \notin Bad
  <2> SUFFICES ASSUME n \in Bad PROVE FALSE
    OBVIOUS
  <2>1. FirstBad(n) /\ store[n].trusted
    BY <1>i, <1>2, <1>3, FirstAbove DEF HeadGood, Verifies
  <2>2. n \notin BlockIndex
    BY <1>i, <1>3, <2>1 DEF TrustInv, Out
  <2>3. ~Linked(Childs, last, n)
    BY <1>3, <2>2 DEF TypeInv, TypeOK, TreeTypes
  <2>4. last \in AncOf[op.dst] /\ last # op.dst /\ n = ToWards(last, op.dst)
    <3>1. Childs \in [Block -> Seq(Block)] /\ last \in Block
      BY DEF TypeInv, TypeOK
    <3>2. QED
      BY <1>1, <1>2, <1>3, <2>3, <3>1, PathWay DEF NextToParse
  <2>5. n \in AncOf[op.dst]
    BY <1>3, <2>4, ToWardsIn, Rooted
  <2>6. QED
    BY <1>i, <1>2, <2>1, <2>5 DEF GoalInv
<1>6. HeadGood'
  <2>1. Clean(n)
    BY <1>i, <1>2, <1>3 DEF CleanInv
  <2>2. QED
    BY <1>i, <1>2, <1>4, <1>5, <2>1 DEF HeadGood
<1>s. \A x \in Block : /\ x # n => store'[x] = store[x]
                       /\ store'[x].st = store[x].st /\ store'[x].invalid = store[x].invalid
  <2>1. PICK s \in [Block -> BS!Entry] : s = store
    BY DEF TypeInv, TypeOK
  <2>2. PICK r : r = BS!Trusted(s, n)
    OBVIOUS
  <2>3. /\ \A x \in Block : x # n => r[x] = s[x]
        /\ r[n].st = s[n].st /\ r[n].invalid = s[n].invalid
    BY <1>3, <2>2, TrustedIs
  <2>4. store' = r
    BY <1>2, <2>1, <2>2
  <2>5. QED
    BY <2>1, <2>3, <2>4
<1>h. \A x \in Block : BS!Has(x)' <=> BS!Has(x)
  BY <1>s DEF BS!Has
<1>7. CleanInv'
  BY <1>i, <1>2, <1>h DEF CleanInv
<1>8. GoodStore'
  <2>1. \A a \in AncOf[n] \ {Root} : a \in Block /\ BS!Has(a)
    BY <1>i, <1>2, <1>3, <1>4, AncSelf DEF GoodStore
  <2>2. ASSUME NEW c \in Block \ {Root}, GoodParent(c), Parent[c] # Root
        PROVE  /\ ~store'[Parent[c]].invalid
               /\ BS!Has(c)' => BS!Has(Parent[c])'
               /\ store'[c].st = "disk" => store'[Parent[c]].st = "disk"
               /\ hasData[Parent[c]] => BS!Has(Parent[c])'
    <3>1. /\ ~store[Parent[c]].invalid
          /\ BS!Has(c) => BS!Has(Parent[c])
          /\ store[c].st = "disk" => store[Parent[c]].st = "disk"
          /\ hasData[Parent[c]] => BS!Has(Parent[c])
      BY <1>i, <1>2, <2>2 DEF GoodStore
    <3>2. Parent[c] \in Block
      BY ChainAssumption
    <3>3. QED
      BY <1>s, <1>h, <3>1, <3>2
  <2>3. \A c \in Block : BS!Has(c)' => c # Root
    BY <1>i, <1>h DEF GoodStore
  <2>4. QED
    BY <1>2, <1>h, <2>1, <2>2, <2>3 DEF GoodStore
<1>9. KnownInv'
  BY <1>i, <1>2 DEF KnownInv
<1>10. KeptInv'
  BY <1>i, <1>2 DEF KeptInv, Out
<1>11. Doomed' <=> Doomed
  BY <1>2 DEF Doomed
<1>12. \A x \in Block : FirstBad(x) => store'[x] = store[x]
  BY <1>5, <1>s DEF FirstBad
<1>13. TrustInv'
  <2>1. \A x \in Block : Out(x)' <=> Out(x)
    BY <1>2 DEF Out
  <2>2. QED
    BY <1>i, <1>2, <1>11, <1>12, <2>1 DEF TrustInv
<1>14. GoalInv'
  <2>1. AncOf[op.dst] \subseteq Block
    BY <1>3, AncSelf
  <2>2. QED
    BY <1>i, <1>2, <1>12, <2>1 DEF GoalInv
<1>15. QueueInv'
  <2>1. ASSUME parseTill # NoParse, QueuedPath PROVE QueuedPath'
    <3>1. n \in AncOf[op.blk] /\ n \in AncOf[parseTill.cur] /\ AncOf[last] \subseteq AncOf[n]
      BY <1>1, <1>2, <2>1, QueuedNext
    <3>2. \A a \in AncOf[parseTill.cur] \ AncOf[n] : Linked(Childs, Parent[a], a)
      BY <2>1, <3>1 DEF QueuedPath
    <3>3. QED
      BY <1>2, <2>1, <3>1, <3>2 DEF QueuedPath
  <2>2. QED
    BY <1>i, <1>2, <1>11, <2>1 DEF QueueInv
<1>16. QED
  BY <1>6, <1>7, <1>8, <1>9, <1>10, <1>13, <1>14, <1>15 DEF BadInv

LEMMA BadNoData ==
    ASSUME TypeInv, BadInv, ParseNoData
    PROVE  BadInv'
<1>i. KnownInv /\ QueueInv
  BY BadParts
<1>1. /\ Parsing /\ mode = "up" /\ op.pc = "parse" /\ NextToParse # None /\ ~hasData[NextToParse]
      /\ op' = [op EXCEPT !.pc = "retry"]
      /\ UNCHANGED <<mode, store, treeVars, announced, arrived, parseTill, saved>>
  BY DEF ParseNoData, Parsing, netVars
<1>2. parseTill = NoParse \/ Doomed
  <2> SUFFICES ASSUME parseTill # NoParse, ~Doomed PROVE FALSE
    OBVIOUS
  <2>1. QueuedPath
    BY <1>i, <1>1 DEF QueueInv
  <2>2. NextToParse \in BlockIndex /\ NextToParse # Root
    BY <1>1, <2>1, QueuedNext, ParseNext
  <2>3. QED
    BY <1>i, <1>1, <2>2 DEF KnownInv, QueueInv
<1>3. PICK p \in {"undo", "parse", "retry"} : p = "retry"
  OBVIOUS
<1>4. QED
  BY <1>1, <1>2, <1>3, BadGoesOn

LEMMA BadRetry ==
    ASSUME TypeInv, BadInv, ParseRetry
    PROVE  BadInv'
<1>i. CleanInv /\ KnownInv /\ TrustInv /\ QueueInv
  BY BadParts
<1>t. TreeTypes /\ arrived \subseteq Block
  BY DEF TypeInv, TypeOK
<1>1. PICK f : f = FindFarthestNode
  OBVIOUS
<1>2. /\ mode = "up" /\ op.pc = "retry" /\ op' = [op EXCEPT !.pc = "move", !.dst = f]
      /\ UNCHANGED <<mode, store, BlockIndex, Childs, hasData, last, announced, arrived, parseTill, saved>>
  BY <1>1 DEF ParseRetry, treeVars, netVars
<1>3. op'.pc = "move" /\ op'.dst = f /\ op'.blk = op.blk
  BY <1>2 DEF TypeInv, TypeOK
<1>4. f \in Block /\ Reachable(f)
  BY <1>t, <1>1, FarthestIn DEF TreeTypes
<1>5. GoalInv'
  <2>1. ASSUME NEW x \in AncOf[f], FirstBad(x) PROVE ~store[x].trusted
    <3>1. x # Root /\ x \in Block
      BY <1>4, <2>1, RootGood, AncSelf DEF FirstBad
    <3>2. x \in BlockIndex
      BY <1>t, <1>4, <3>1, ReachableIn
    <3>3. QED
      BY <1>i, <2>1, <3>1, <3>2 DEF TrustInv, Out
  <2>2. QED
    BY <1>2, <1>3, <2>1 DEF GoalInv
<1>6. Doomed => Doomed'
  BY <1>2, <1>3 DEF Doomed
<1>7. ~QueuedPath
  BY <1>2 DEF QueuedPath
<1>8. QueueInv'
  BY <1>i, <1>2, <1>6, <1>7 DEF QueueInv
<1>9. arrived' \subseteq announced /\ arrived' \cap Malformed = {}
  BY <1>i, <1>2 DEF CleanInv, KnownInv
<1>10. \A x \in arrived' : FirstBad(x) /\ store[x].trusted => Doomed'
  BY <1>i, <1>t, <1>2, <1>6 DEF TrustInv
<1>11. QED
  BY <1>2, <1>5, <1>8, <1>9, <1>10, BadSteady

\* A branch that turns out bad leaves the tree.
LEMMA BadParseFails ==
    ASSUME TypeInv, BadInv, ParseFails
    PROVE  BadInv'
<1>i. HeadGood /\ CleanInv /\ GoodStore /\ KnownInv /\ KeptInv /\ TrustInv /\ GoalInv /\ QueueInv
  BY BadParts
<1>t. TypeOK /\ TreeTypes /\ last \in Block /\ announced \subseteq Block /\ arrived \subseteq Block
  BY DEF TypeInv, TypeOK
<1>1. PICK n : n = NextToParse
  OBVIOUS
<1>2. /\ Parsing /\ n # None /\ hasData[n] /\ BS!Has(n) /\ ~Verifies(n) /\ mode = "up" /\ op.pc = "parse"
      /\ UNCHANGED <<hasData, last, announced, arrived, parseTill, saved>>
  BY <1>1 DEF ParseFails, Parsing, netVars
<1>3. n \in Block \ {Root} /\ Parent[n] = last /\ op.dst \in Block /\ op.blk \in Block
  BY <1>1, <1>2, ParseNext
<1>4. n \in Bad /\ FirstBad(n)
  <2>1. n \in Bad
    BY <1>2 DEF Verifies
  <2>2. QED
    BY <1>i, <1>3, <2>1, FirstAbove DEF HeadGood
<1>5. CASE DeletePanics(n) \/ ~HasChild(Parent[n], n)
  <2>1. mode' \in PanicMsg /\ UNCHANGED <<store, BlockIndex, Childs, op>>
    BY <1>1, <1>5 DEF ParseFails, Panic, PanicMsg
  <2>2. QED
    BY <1>2, <2>1, BadPanic
<1>6. CASE ~DeletePanics(n) /\ HasChild(Parent[n], n)
  <2>1. DeleteBranch(n) /\ op' = [op EXCEPT !.pc = "retry"] /\ mode' = mode
    BY <1>1, <1>6 DEF ParseFails
  <2>2. /\ BlockIndex' = BlockIndex \ Branch(n) /\ n \in Branch(n)
        /\ \A m \in Block : \A x \in Block :
              Linked(Childs', m, x) <=> Linked(Childs, m, x) /\ m \notin Branch(n) /\ x # n
        /\ \A x \in Block : x \notin Branch(n) => store'[x] = store[x]
        /\ \A x \in Block : \/ store'[x] = store[x] /\ x # n
                            \/ store[x].st # "disk" /\ store'[x] = BS!Absent
                            \/ store[x].st = "disk" /\ store'[x].st = "disk" /\ store'[x].invalid
    BY <1>3, <1>6, <2>1, BranchDeleted
  <2>a. BS!Absent.st = "none" /\ BS!Absent.trusted = FALSE
    BY DEF BS!Absent
  <2>3. op'.pc = "retry" /\ op'.blk = op.blk
    BY <1>t, <2>1 DEF TypeOK
  <2>4. ASSUME NEW x \in Branch(n) PROVE x \in Block /\ n \in AncOf[x] /\ (FirstBad(x) => x = n)
    <3>1. x \in Block /\ n \in AncOf[x]
      BY <1>3, BranchSelf
    <3>2. QED
      BY <1>4, <3>1, FirstOnly
  <2>5. \A x \in Block : (BS!Has(x)' => BS!Has(x)) /\ (store'[x].st = "disk" => store[x].st = "disk")
    BY <2>2, <2>a DEF BS!Has
  <2>6. \A x \in Block : AncOf[x] \cap Bad = {} => store'[x] = store[x]
    BY <1>4, <2>2, <2>4
  <2>7. n \in BlockIndex /\ n \in announced
    <3>1. Linked(Childs, last, n)
      BY <1>3, <1>6, ChildLinked
    <3>2. QED
      BY <1>i, <1>t, <1>2, <1>3, <3>1 DEF TreeTypes, KnownInv
  <2>8. parseTill # NoParse => Doomed'
    <3> HAVE parseTill # NoParse
    <3>1. QueuedPath => n \in AncOf[op.blk]
      BY <1>1, <1>2, QueuedNext
    <3>2. AncOf[op.blk] \cap Bad # {}
      BY <1>i, <1>2, <1>4, <3>1 DEF QueueInv, Doomed
    <3>3. QED
      BY <1>2, <2>3, <3>2 DEF Doomed
  <2>9. HeadGood'
    BY <1>i, <1>2 DEF HeadGood
  <2>10. CleanInv'
    BY <1>i, <1>2, <2>5 DEF CleanInv
  <2>11. GoodStore'
    <3>1. ASSUME NEW c \in Block \ {Root}, GoodParent(c), Parent[c] # Root
          PROVE  /\ ~store'[Parent[c]].invalid
                 /\ BS!Has(c)' => BS!Has(Parent[c])'
                 /\ store'[c].st = "disk" => store'[Parent[c]].st = "disk"
                 /\ hasData[Parent[c]] => BS!Has(Parent[c])'
      <4>1. /\ ~store[Parent[c]].invalid
            /\ BS!Has(c) => BS!Has(Parent[c])
            /\ store[c].st = "disk" => store[Parent[c]].st = "disk"
            /\ hasData[Parent[c]] => BS!Has(Parent[c])
        BY <1>i, <1>2, <3>1 DEF GoodStore
      <4>2. store'[Parent[c]] = store[Parent[c]]
        BY <2>6, <3>1, ChainAssumption DEF GoodParent
      <4>3. BS!Has(Parent[c])' <=> BS!Has(Parent[c])
        BY <4>2 DEF BS!Has
      <4>4. QED
        BY <2>5, <4>1, <4>2, <4>3
    <3>2. ASSUME NEW a \in AncOf[last] \ {Root} PROVE BS!Has(a)'
      <4>1. a \in Block /\ BS!Has(a) /\ AncOf[a] \subseteq AncOf[last]
        BY <1>i, <1>t, <1>2, AncSelf, AncTransitive, Rooted DEF GoodStore
      <4>2. store'[a] = store[a]
        BY <1>i, <2>6, <4>1 DEF HeadGood
      <4>3. QED
        BY <4>1, <4>2 DEF BS!Has
    <3>3. \A c \in Block : BS!Has(c)' => c # Root
      BY <1>i, <2>5 DEF GoodStore
    <3>4. QED
      BY <1>2, <3>1, <3>2, <3>3 DEF GoodStore
  <2>12. KnownInv'
    BY <1>i, <1>2, <2>1, <2>2 DEF KnownInv
  <2>13. \A x \in Block : Out(x) => Out(x)'
    BY <1>2, <2>2 DEF Out
  <2>14. Out(n)'
    BY <1>2, <2>2, <2>7 DEF Out
  <2>15. KeptInv'
    <3>1. ASSUME NEW x \in Block, NEW y \in Block, Linked(Childs', x, y), FirstBad(x) PROVE x \in announced
      BY <1>i, <1>2, <2>2, <3>1 DEF KeptInv
    <3>2. ASSUME NEW y \in announced \ {Root}, FirstBad(Parent[y]), Clean(y)
          PROVE  Linked(Childs', Parent[y], y) \/ Out(Parent[y])'
      <4>1. y \in Block \ {Root} /\ Parent[y] \in Block
        BY <1>t, ChainAssumption
      <4>2. Linked(Childs, Parent[y], y) \/ Out(Parent[y])
        BY <1>i, <1>2, <3>2 DEF KeptInv
      <4>3. y # n
        BY <1>i, <1>3, <3>2 DEF HeadGood, FirstBad
      <4>4. Parent[y] \in Branch(n) => Parent[y] = n
        BY <2>4, <3>2
      <4>5. QED
        BY <2>2, <2>13, <2>14, <4>1, <4>2, <4>3, <4>4
    <3>3. QED
      BY <1>2, <3>1, <3>2 DEF KeptInv
  <2>16. ASSUME store'[n].trusted
         PROVE  /\ store'[n].st = "disk" /\ store'[n].invalid
                /\ \A y \in announced \ {Root} : Parent[y] = n => ~Clean(y)
    <3>1. store[n].st = "disk" /\ store'[n].st = "disk" /\ store'[n].invalid
      BY <1>3, <2>2, <2>a, <2>16
    <3>2. DOMAIN Childs[n] = {}
      <4>1. PICK k \in Seq(Block) : k = Childs[n]
        BY <1>t, <1>3 DEF TypeOK
      <4>2. InvalidCalls(n, n) = Len(k) + 1
        BY <4>1 DEF InvalidCalls
      <4>3. ~(InvalidCalls(n, n) > 1)
        BY <1>6, <2>2, <3>1 DEF DeletePanics
      <4>4. Len(k) = 0
        BY <4>1, <4>2, <4>3
      <4>5. DOMAIN k = {}
        BY <4>1, <4>4
      <4>6. QED
        BY <4>1, <4>5
    <3>3. ASSUME NEW y \in announced \ {Root}, Parent[y] = n, Clean(y) PROVE FALSE
      <4>1. Linked(Childs, n, y) \/ Out(n)
        BY <1>i, <1>2, <1>4, <3>3 DEF KeptInv
      <4>2. QED
        BY <2>7, <3>2, <4>1 DEF Linked, Out
    <3>4. QED
      BY <3>1, <3>3
  <2>17. n \in arrived => Doomed'
    <3>1. CASE parseTill = NoParse
      BY <1>i, <1>2, <1>4, <3>1 DEF QueueInv
    <3>2. CASE parseTill # NoParse
      BY <2>8, <3>2
    <3>3. QED
      BY <3>1, <3>2
  <2>18. Doomed => Doomed'
    BY <2>8 DEF Doomed
  <2>19. TrustInv'
    <3> SUFFICES ASSUME NEW x \in Block, FirstBad(x), store'[x].trusted
                 PROVE  /\ mode' \notin {"down", "starting"}
                        /\ store'[x].st = "disk" /\ store'[x].invalid
                        /\ Out(x)'
                        /\ mode' = "up" /\ x \in arrived' => Doomed'
                        /\ \A y \in announced' \ {Root} : Parent[y] = x => ~Clean(y)
      BY DEF TrustInv
    <3>1. CASE x = n
      BY <1>2, <2>1, <2>14, <2>16, <2>17, <3>1
    <3>2. CASE x # n
      <4>1. store'[x] = store[x]
        BY <2>2, <2>4, <3>2
      <4>2. /\ store[x].st = "disk" /\ store[x].invalid
            /\ Out(x)
            /\ x \in arrived => Doomed
            /\ \A y \in announced \ {Root} : Parent[y] = x => ~Clean(y)
        BY <1>i, <1>2, <4>1 DEF TrustInv
      <4>3. QED
        BY <1>2, <2>1, <2>13, <2>18, <4>1, <4>2
    <3>3. QED
      BY <3>1, <3>2
  <2>20. GoalInv'
    BY <2>3 DEF GoalInv
  <2>21. QueueInv'
    BY <1>i, <1>2, <2>1, <2>8 DEF QueueInv
  <2>22. QED
    BY <2>9, <2>10, <2>11, <2>12, <2>15, <2>19, <2>20, <2>21 DEF BadInv
<1>7. QED
  BY <1>5, <1>6

LEMMA BadWrite ==
    ASSUME TypeInv, BadInv, NEW b \in Block, WriteBlock(b)
    PROVE  BadInv'
<1>i. HeadGood /\ CleanInv /\ GoodStore /\ KnownInv /\ KeptInv /\ TrustInv /\ GoalInv /\ QueueInv
  BY BadParts
<1>1. /\ mode = "up" /\ op.pc = "idle" /\ store[b].st = "queued"
      /\ \A a \in AncOf[b] \ {b} : store[a].st # "queued"
      /\ store' = BS!Written(store, b)
      /\ UNCHANGED <<mode, BlockIndex, Childs, hasData, last, op, announced, arrived, parseTill, saved>>
  BY DEF WriteBlock, MainFree, treeVars, netVars
<1>s. /\ \A x \in Block : x # b => store'[x] = store[x]
      /\ store'[b].st = "disk" /\ store'[b].invalid = store[b].invalid /\ store'[b].trusted = store[b].trusted
  <2>1. PICK s \in [Block -> BS!Entry] : s = store
    BY DEF TypeInv, TypeOK
  <2>2. PICK r : r = BS!Written(s, b)
    OBVIOUS
  <2>3. /\ \A x \in Block : x # b => r[x] = s[x]
        /\ r[b].st = "disk" /\ r[b].invalid = s[b].invalid /\ r[b].trusted = s[b].trusted
    BY <2>2, WrittenIs
  <2>4. QED
    BY <1>1, <2>1, <2>2, <2>3
<1>h. \A x \in Block : BS!Has(x)' <=> BS!Has(x)
  BY <1>1, <1>s DEF BS!Has
<1>2. HeadGood'
  BY <1>i, <1>1 DEF HeadGood
<1>3. CleanInv'
  BY <1>i, <1>1, <1>h DEF CleanInv
<1>4. GoodStore'
  <2>1. ASSUME NEW c \in Block \ {Root}, GoodParent(c), Parent[c] # Root
        PROVE  /\ ~store'[Parent[c]].invalid
               /\ BS!Has(c)' => BS!Has(Parent[c])'
               /\ store'[c].st = "disk" => store'[Parent[c]].st = "disk"
               /\ hasData[Parent[c]] => BS!Has(Parent[c])'
    <3>1. /\ ~store[Parent[c]].invalid
          /\ BS!Has(c) => BS!Has(Parent[c])
          /\ store[c].st = "disk" => store[Parent[c]].st = "disk"
          /\ hasData[Parent[c]] => BS!Has(Parent[c])
      BY <1>i, <1>1, <2>1 DEF GoodStore
    <3>2. Parent[c] \in Block /\ Parent[c] \in AncOf[c] /\ Parent[c] # c
      <4>1. Parent[c] \in Block /\ Parent[c] \in AncOf[c] /\ c \notin AncOf[Parent[c]]
        BY AncSelf, AncParent, AncAcyclic, Rooted, ChainAssumption
      <4>2. QED
        BY <4>1, AncSelf
    <3>3. c = b => store[Parent[c]].st = "disk"
      <4> HAVE c = b
      <4>1. store[Parent[c]].st # "queued" /\ store[Parent[c]].st # "none"
        BY <1>1, <3>1, <3>2 DEF BS!Has
      <4>2. store[Parent[c]] \in BS!Entry
        BY <3>2 DEF TypeInv, TypeOK
      <4>3. QED
        BY <4>1, <4>2 DEF BS!Entry
    <3>4. QED
      BY <1>s, <1>h, <3>1, <3>2, <3>3
  <2>2. \A a \in AncOf[last] \ {Root} : BS!Has(a)'
    <3>1. \A a \in AncOf[last] \ {Root} : a \in Block /\ BS!Has(a)
      BY <1>i, <1>1, AncSelf DEF GoodStore, TypeInv, TypeOK
    <3>2. QED
      BY <1>h, <3>1
  <2>3. \A c \in Block : BS!Has(c)' => c # Root
    BY <1>i, <1>h DEF GoodStore
  <2>4. QED
    BY <1>1, <2>1, <2>2, <2>3 DEF GoodStore
<1>5. KnownInv'
  BY <1>i, <1>1 DEF KnownInv
<1>6. KeptInv'
  BY <1>i, <1>1 DEF KeptInv, Out
<1>7. \A x \in Block : store'[x].trusted => store[x].trusted
  BY <1>s
<1>8. TrustInv'
  <2>1. \A x \in Block : FirstBad(x) /\ store'[x].trusted => x # b /\ store'[x] = store[x]
    BY <1>i, <1>1, <1>s, <1>7 DEF TrustInv
  <2>2. \A x \in Block : Out(x)' <=> Out(x)
    BY <1>1 DEF Out
  <2>3. Doomed' <=> Doomed
    BY <1>1 DEF Doomed
  <2>4. QED
    BY <1>i, <1>1, <2>1, <2>2, <2>3 DEF TrustInv
<1>9. GoalInv'
  BY <1>1 DEF GoalInv
<1>10. QueueInv'
  <2>1. (Doomed' <=> Doomed) /\ (QueuedPath => QueuedPath')
    BY <1>1 DEF Doomed, QueuedPath
  <2>2. QED
    BY <1>i, <1>1, <2>1 DEF QueueInv
<1>11. QED
  BY <1>2, <1>3, <1>4, <1>5, <1>6, <1>8, <1>9, <1>10 DEF BadInv

LEMMA BadSave ==
    ASSUME TypeInv, BadInv, SaveUtxo
    PROVE  BadInv'
<1>i. HeadGood /\ CleanInv /\ GoodStore /\ KnownInv /\ TrustInv /\ GoalInv /\ QueueInv
  BY BadParts
<1>1. /\ mode = "up" /\ op.pc = "idle" /\ saved' = last
      /\ UNCHANGED <<mode, store, BlockIndex, Childs, hasData, last, op, announced, arrived, parseTill>>
  BY DEF SaveUtxo, MainFree, treeVars, netVars
<1>2. HeadGood'
  BY <1>i, <1>1 DEF HeadGood
<1>3. \A a \in AncOf[last'] \ {Root} : BS!Has(a)
  BY <1>i, <1>1 DEF GoodStore
<1>4. arrived' \subseteq announced /\ arrived' \cap Malformed = {} /\ arrived \subseteq Block
  BY <1>i, <1>1 DEF CleanInv, KnownInv, TypeInv, TypeOK
<1>5. (Doomed' <=> Doomed) /\ (QueuedPath => QueuedPath')
  BY <1>1 DEF Doomed, QueuedPath
<1>6. \A x \in arrived' : FirstBad(x) /\ store[x].trusted => Doomed'
  BY <1>i, <1>1, <1>4, <1>5 DEF TrustInv
<1>7. GoalInv'
  BY <1>1 DEF GoalInv
<1>8. QueueInv'
  BY <1>i, <1>1, <1>5 DEF QueueInv
<1>9. QED
  BY <1>1, <1>2, <1>3, <1>4, <1>6, <1>7, <1>8, BadFrame

\* A crash: records that carry the invalid flag are not read again.
LEMMA BadCrash ==
    ASSUME TypeInv, BadInv, Crash
    PROVE  BadInv'
<1>i. HeadGood /\ CleanInv /\ GoodStore /\ TrustInv
  BY BadParts
<1>1. /\ mode = "up" /\ mode' = "down" /\ op' = IdleOp /\ arrived' = {} /\ parseTill' = NoParse
      /\ store' = BS!Reloaded(store) /\ UNCHANGED <<BlockIndex, Childs, hasData, last, saved>>
  BY DEF Crash, treeVars
<1>s. \A b \in Block : store'[b] = IF store[b].st = "disk" /\ ~store[b].invalid THEN store[b] ELSE BS!Absent
  <2>1. PICK s \in [Block -> BS!Entry] : s = store
    BY DEF TypeInv, TypeOK
  <2>2. QED
    BY <1>1, <2>1, ReloadedIs
<1>a. BS!Absent.st = "none" /\ BS!Absent.trusted = FALSE /\ BS!Absent.invalid = FALSE
  BY DEF BS!Absent
<1>h. \A b \in Block : BS!Has(b)' <=> store[b].st = "disk" /\ ~store[b].invalid
  BY <1>s, <1>a DEF BS!Has
<1>2. HeadGood'
  BY <1>i, <1>1 DEF HeadGood
<1>3. CleanInv'
  <2>1. \A b \in Block : BS!Has(b)' => BS!Has(b)
    BY <1>h DEF BS!Has
  <2>2. QED
    BY <1>i, <1>1, <2>1 DEF CleanInv
<1>4. GoodStore'
  <2>1. ASSUME NEW c \in Block \ {Root}, GoodParent(c), Parent[c] # Root
        PROVE  /\ ~store'[Parent[c]].invalid
               /\ BS!Has(c)' => BS!Has(Parent[c])'
               /\ store'[c].st = "disk" => store'[Parent[c]].st = "disk"
    <3>1. ~store[Parent[c]].invalid /\ (store[c].st = "disk" => store[Parent[c]].st = "disk")
      BY <1>i, <2>1 DEF GoodStore
    <3>2. Parent[c] \in Block
      BY ChainAssumption
    <3>3. ~store'[Parent[c]].invalid
      BY <1>s, <1>a, <3>1, <3>2
    <3>4. store'[c].st = "disk" => store'[Parent[c]].st = "disk"
      BY <1>s, <1>a, <3>1, <3>2
    <3>5. QED
      BY <1>h, <3>1, <3>2, <3>3, <3>4
  <2>2. \A c \in Block : BS!Has(c)' => c # Root
    BY <1>i, <1>h DEF GoodStore, BS!Has
  <2>3. QED
    BY <1>1, <2>1, <2>2 DEF GoodStore
<1>5. KnownInv' /\ KeptInv' /\ QueueInv' /\ GoalInv'
  <2>1. op'.pc = "idle"
    BY <1>1 DEF IdleOp
  <2>2. KnownInv'
    BY <1>1 DEF KnownInv
  <2>3. KeptInv'
    BY <1>1 DEF KeptInv
  <2>4. QueueInv'
    BY <1>1 DEF QueueInv
  <2>5. GoalInv'
    BY <2>1 DEF GoalInv
  <2>6. QED
    BY <2>2, <2>3, <2>4, <2>5
<1>6. \A x \in Block : FirstBad(x) => ~store'[x].trusted
  BY <1>i, <1>s, <1>a DEF TrustInv
<1>7. TrustInv'
  BY <1>6 DEF TrustInv
<1>8. QED
  BY <1>2, <1>3, <1>4, <1>5, <1>7 DEF BadInv

\* Everything below a stored block is stored, if it is good.
LEMMA StoredBelow ==
    ASSUME GoodStore, NEW x \in Block, BS!Has(x), x # Root, AncOf[Parent[x]] \cap Bad = {}, Clean(x)
    PROVE  \A a \in AncOf[x] : a \in Block /\ (a = Root \/ BS!Has(a))
<1> DEFINE S == {a \in AncOf[x] : a = Root \/ BS!Has(a)}
<1>1. AncOf[x] \in SUBSET Block /\ x \in AncOf[x] /\ AncOf[x] = {x} \cup AncOf[Parent[x]]
  BY AncSelf, AncStep, Rooted
<1>2. S \in SUBSET Block /\ x \in S
  BY <1>1
<1>3. ASSUME NEW a \in S \ {Root} PROVE Parent[a] \in S
  <2>1. a \in AncOf[x] /\ a \in Block \ {Root} /\ BS!Has(a)
    BY <1>1, <1>3
  <2>2. Parent[a] \in AncOf[x] /\ Parent[a] \in Block
    BY <1>1, <2>1, AncParent, Rooted
  <2>3. Parent[a] \in AncOf[Parent[x]]
    <3>1. CASE a = x
      BY <2>2, <3>1, AncSelf
    <3>2. CASE a # x
      <4>1. a \in AncOf[Parent[x]] /\ Parent[x] \in Block
        BY <1>1, <2>1, <3>2, ChainAssumption
      <4>2. QED
        BY <2>1, <4>1, AncParent, Rooted
    <3>3. QED
      BY <3>1, <3>2
  <2>4. AncOf[Parent[a]] \subseteq AncOf[Parent[x]]
    BY <2>3, AncTransitive, Rooted, ChainAssumption
  <2>5. Clean(Parent[a])
    BY <2>2, CleanBelow
  <2>6. GoodParent(a)
    BY <2>1, <2>4, <2>5 DEF GoodParent
  <2>7. Parent[a] # Root => BS!Has(Parent[a])
    BY <2>1, <2>6 DEF GoodStore
  <2>8. QED
    BY <2>2, <2>7
<1>4. AncOf[x] \subseteq S
  <2> HIDE DEF S
  <2>1. PICK T \in SUBSET Block : T = S
    BY <1>2
  <2>2. QED
    BY <1>2, <1>3, <2>1, AncLeast
<1>5. QED
  BY <1>1, <1>4

\* The tree is loaded: no first bad block of a branch is trusted.
LEMMA BadLoad ==
    ASSUME TypeInv, BadInv, LoadBlockIndex
    PROVE  BadInv'
<1>i. HeadGood /\ CleanInv /\ GoodStore /\ KnownInv /\ TrustInv
  BY BadParts
<1>t. saved \in Block
  BY DEF TypeInv, TypeOK
<1>1. PICK disk : disk = {Root} \cup {b \in Block : BS!Has(b)}
  OBVIOUS
<1>2. PICK tree :
            /\ IsLoaded(tree, disk) /\ disk \in SUBSET Block /\ Root \in disk
            /\ BlockIndex' = tree.index /\ Childs' = tree.childs /\ announced' = tree.index
            /\ hasData' = [b \in Block |-> b \in tree.index /\ BS!Has(b)]
            /\ IF saved \in tree.index THEN mode' = "starting" /\ last' = saved
               ELSE Panic("Last Block Hash not found") /\ UNCHANGED last
  BY <1>1, LoadIs
<1>3. /\ mode = "down" /\ UNCHANGED <<store, op, arrived, parseTill, saved>>
      /\ op = IdleOp /\ arrived = {} /\ parseTill = NoParse
  BY <1>i DEF LoadBlockIndex, KnownInv
<1>4. \/ mode' = "starting" /\ last' = saved /\ saved \in tree.index
      \/ mode' = "Last Block Hash not found" /\ last' = last
  <2>1. CASE saved \in tree.index
    BY <1>2, <2>1
  <2>2. CASE saved \notin tree.index
    BY <1>2, <2>2 DEF Panic
  <2>3. QED
    BY <2>1, <2>2
<1>5. mode' # "up" /\ mode' # "down" /\ op'.pc = "idle"
  BY <1>3, <1>4 DEF IdleOp
<1>6. \A b \in Block : hasData'[b] <=> b \in tree.index /\ BS!Has(b)
  BY <1>2
<1>7. tree.index \subseteq disk /\ tree.index \subseteq Block /\ \A b \in tree.index : b = Root \/ BS!Has(b)
  <2>1. tree.index \in SUBSET disk
    BY <1>2 DEF IsLoaded
  <2>2. QED
    BY <1>1, <1>2, <2>1
<1>h. \A b \in Block : BS!Has(b)' <=> BS!Has(b)
  BY <1>3 DEF BS!Has
<1>8. HeadGood'
  BY <1>i, <1>3, <1>4 DEF HeadGood
<1>9. CleanInv'
  BY <1>i, <1>3, <1>6, <1>h DEF CleanInv
<1>10. GoodStore'
  <2>1. ASSUME NEW c \in Block \ {Root}, GoodParent(c), Parent[c] # Root
        PROVE  /\ ~store[Parent[c]].invalid
               /\ BS!Has(c) => BS!Has(Parent[c])
               /\ store[c].st = "disk" => store[Parent[c]].st = "disk"
               /\ hasData'[Parent[c]] => BS!Has(Parent[c])
    <3>1. Parent[c] \in Block
      BY ChainAssumption
    <3>2. QED
      BY <1>i, <1>6, <2>1, <3>1 DEF GoodStore
  <2>2. mode' = "starting" => \A a \in AncOf[last'] \ {Root} : BS!Has(a)
    <3> HAVE mode' = "starting"
    <3>1. last' = saved /\ (saved = Root \/ BS!Has(saved))
      BY <1>4, <1>7
    <3>2. CASE saved = Root
      BY <3>1, <3>2, AncRoot, Rooted
    <3>3. CASE saved # Root
      <4>1. AncOf[Parent[saved]] \subseteq AncOf[saved]
        BY <1>t, <3>3, AncStep, Rooted
      <4>2. AncOf[Parent[saved]] \cap Bad = {} /\ Clean(saved)
        BY <1>i, <4>1 DEF HeadGood
      <4>3. \A a \in AncOf[saved] : a \in Block /\ (a = Root \/ BS!Has(a))
        BY <1>i, <1>t, <3>1, <3>3, <4>2, StoredBelow
      <4>4. QED
        BY <3>1, <4>3
    <3>4. QED
      BY <3>2, <3>3
  <2>3. \A c \in Block : BS!Has(c) => c # Root
    BY <1>i DEF GoodStore
  <2>4. QED
    BY <1>3, <1>5, <2>1, <2>2, <2>3 DEF GoodStore, BS!Has
<1>11. KnownInv'
  BY <1>2, <1>3, <1>5, <1>6 DEF KnownInv
<1>12. KeptInv'
  <2>1. ASSUME NEW x \in Block, NEW y \in Block, Linked(tree.childs, x, y), FirstBad(x) PROVE x \in tree.index
    <3>1. DOMAIN tree.childs[x] # {}
      BY <2>1 DEF Linked
    <3>2. x \in disk
      BY <1>2, <3>1 DEF IsLoaded
    <3>3. x # Root
      BY <2>1, RootGood DEF FirstBad
    <3>4. BS!Has(x)
      BY <1>1, <3>2, <3>3
    <3>5. Clean(x)
      BY <1>i, <3>4 DEF CleanInv
    <3>6. AncOf[Parent[x]] \cap Bad = {}
      <4>1. AncOf[x] = {x} \cup AncOf[Parent[x]] /\ x \notin AncOf[Parent[x]]
        BY <3>3, AncStep, AncAcyclic, Rooted
      <4>2. QED
        BY <2>1, <4>1 DEF FirstBad
    <3>7. \A a \in AncOf[x] : a \in Block /\ (a = Root \/ BS!Has(a))
      BY <1>i, <3>3, <3>4, <3>5, <3>6, StoredBelow
    <3>8. AncOf[x] \in SUBSET disk
      BY <1>1, <3>7
    <3>9. \A a \in AncOf[x] \ {Root} : Parent[a] \in AncOf[x]
      BY AncParent, Rooted
    <3>10. AncOf[x] \subseteq tree.index
      BY <1>2, <3>8, <3>9 DEF IsLoaded
    <3>11. QED
      BY <3>10, AncSelf
  <2>2. \A y \in tree.index \ {Root} : Linked(tree.childs, Parent[y], y)
    BY <1>2 DEF IsLoaded
  <2>3. QED
    BY <1>2, <2>1, <2>2 DEF KeptInv
<1>13. TrustInv'
  <2>1. \A x \in Block : FirstBad(x) => ~store[x].trusted
    BY <1>i, <1>3 DEF TrustInv
  <2>2. QED
    BY <1>3, <2>1 DEF TrustInv
<1>14. GoalInv'
  BY <1>5 DEF GoalInv
<1>15. QueueInv'
  <2>1. \A b \in announced' \ {Root} : hasData'[b]
    BY <1>2, <1>6, <1>7
  <2>2. QED
    BY <1>5, <2>1 DEF QueueInv
<1>16. QED
  BY <1>8, <1>9, <1>10, <1>11, <1>12, <1>13, <1>14, <1>15 DEF BadInv

\* The start-up: the farthest node is what is to be reached.
LEMMA BadHostInit ==
    ASSUME TypeInv, BadInv, HostInit
    PROVE  BadInv'
<1>i. HeadGood /\ CleanInv /\ GoodStore /\ KnownInv /\ KeptInv /\ TrustInv /\ QueueInv
  BY BadParts
<1>t. TreeTypes /\ last \in Block /\ None \notin Block
  BY ChainAssumption DEF TypeInv, TypeOK
<1>1. PICK f : f = FindFarthestNode
  OBVIOUS
<1>2. f \in Block /\ Reachable(f)
  BY <1>t, <1>1, FarthestIn DEF TreeTypes
<1>3. /\ mode = "starting" /\ mode' = "up"
      /\ parseTill' = IF Height(f) > Height(last) THEN [cur |-> last, end |-> f] ELSE NoParse
      /\ UNCHANGED <<store, BlockIndex, Childs, hasData, last, op, announced, arrived, saved>>
  BY <1>1 DEF HostInit, treeVars, netVars
<1>4. op = IdleOp /\ op.pc = "idle" /\ arrived = {}
  BY <1>i, <1>3 DEF KnownInv, IdleOp
<1>5. HeadGood'
  BY <1>i, <1>3 DEF HeadGood
<1>6. CleanInv'
  BY <1>i, <1>3 DEF CleanInv, BS!Has
<1>7. GoodStore'
  BY <1>i, <1>3 DEF GoodStore, BS!Has
<1>8. KnownInv'
  BY <1>i, <1>3 DEF KnownInv
<1>9. KeptInv'
  BY <1>i, <1>3 DEF KeptInv, Out
<1>10. TrustInv'
  <2>1. \A x \in Block : FirstBad(x) => ~store[x].trusted
    BY <1>i, <1>3 DEF TrustInv
  <2>2. QED
    BY <1>3, <2>1 DEF TrustInv
<1>11. GoalInv'
  BY <1>3, <1>4 DEF GoalInv
<1>12. QueueInv'
  <2>1. \A b \in announced \ {Root} : hasData[b]
    BY <1>i, <1>3 DEF QueueInv
  <2>2. CASE Height(f) > Height(last)
    <3>1. parseTill' # NoParse /\ parseTill'.cur = last /\ parseTill'.end = f
      BY <1>t, <1>2, <1>3, <2>2 DEF NoParse
    <3>2. \A a \in AncOf[f] \ {Root} : Linked(Childs, Parent[a], a) /\ a \in BlockIndex
      BY <1>t, <1>2, ReachableIn
    <3>3. \A a \in AncOf[f] \ {Root} : a \in announced
      BY <1>i, <1>3, <3>2 DEF KnownInv
    <3>4. last \in AncOf[last]
      BY <1>t, AncSelf
    <3>5. Height(last) <= Height(f)
      BY <1>t, <1>2, <2>2, HeightRange, Rooted
    <3>6. QueuedPath'
      BY <1>3, <1>4, <3>1, <3>2, <3>4, <3>5 DEF QueuedPath
    <3>7. QED
      BY <1>3, <2>1, <3>1, <3>3, <3>6 DEF QueueInv
  <2>3. CASE ~(Height(f) > Height(last))
    <3>1. parseTill' = NoParse
      BY <1>3, <2>3
    <3>2. QED
      BY <1>3, <1>4, <3>1 DEF QueueInv
  <2>4. QED
    BY <2>2, <2>3
<1>13. QED
  BY <1>5, <1>6, <1>7, <1>8, <1>9, <1>10, <1>11, <1>12 DEF BadInv

\* The next block found on disk is queued.
LEMMA BadDoTheBlocks ==
    ASSUME TypeInv, BadInv, DoTheBlocks
    PROVE  BadInv'
<1>i. CleanInv /\ KnownInv /\ TrustInv /\ GoalInv /\ QueueInv
  BY BadParts
<1>1. PICK n : n = FindPathTo(parseTill.cur, parseTill.end)
  OBVIOUS
<1>2. /\ mode = "up" /\ parseTill # NoParse
      /\ UNCHANGED <<store, BlockIndex, Childs, hasData, last, op, announced, saved>>
  BY DEF DoTheBlocks, treeVars
<1>t. /\ parseTill.cur \in Block /\ parseTill.end \in Block /\ TreeTypes
      /\ Childs \in [Block -> Seq(Block)] /\ GoodEdges(Childs) /\ arrived \subseteq Block
  BY <1>2 DEF TypeInv, TypeOK, OpTypes, TreeTypes
<1>3. CASE n = None \/ (hasData[n] /\ ~BS!Has(n))
  <2>1. mode' \in PanicMsg /\ arrived' = arrived
    BY <1>1, <1>3 DEF DoTheBlocks, Panic, PanicMsg
  <2>2. QED
    BY <1>2, <2>1, BadPanic
<1>4. CASE ~(n = None \/ (hasData[n] /\ ~BS!Has(n)))
  <2>2. PICK c \in Block : c = parseTill.cur
    BY <1>t
  <2>3. PICK e \in Block : e = parseTill.end
    BY <1>t
  <2>4. n = FindPathTo(c, e)
    BY <1>1, <2>2, <2>3
  <2>5. n \in Block \ {Root} /\ Parent[n] = c
    BY <1>t, <1>4, <2>4, PathIn
  <2>6. Height(c) < Height(e) /\ (Linked(Childs, c, n) \/ (c \in AncOf[e] /\ c # e /\ n = ToWards(c, e)))
    BY <1>t, <1>4, <2>4, PathWay
  <2>7. Linked(Childs, c, n) \/ n \in AncOf[e]
    BY <2>6, ToWardsIn, Rooted
  <2>9. n \in announced
    <3>1. Linked(Childs, c, n) => n \in BlockIndex
      BY <1>t, <2>5 DEF TreeTypes
    <3>2. n \in AncOf[e] => n \in announced
      BY <1>i, <1>2, <2>3, <2>5 DEF QueueInv
    <3>3. QED
      BY <1>i, <1>2, <2>7, <3>1, <3>2 DEF KnownInv
  <2>h. hasData[n]
    BY <1>i, <1>2, <2>5, <2>9 DEF QueueInv
  <2>1. arrived' = arrived \cup {n} /\ parseTill' = [parseTill EXCEPT !.cur = n] /\ mode' = mode
    BY <1>1, <1>4, <2>h DEF DoTheBlocks
  <2>8. parseTill'.cur = n /\ parseTill'.end = e /\ parseTill' # NoParse
    BY <1>2, <2>1, <2>3, <2>5, ChainAssumption DEF TypeInv, TypeOK, NoParse
  <2>10. n \notin Malformed
    <3>2. Clean(n) /\ n \in AncOf[n]
      BY <1>i, <2>5, <2>h, AncSelf DEF CleanInv
    <3>3. QED
      BY <3>2 DEF Clean
  <2>11. Doomed => Doomed'
    BY <1>2, <2>8 DEF Doomed
  <2>12. ASSUME QueuedPath PROVE Linked(Childs, c, n) /\ QueuedPath'
    <3>1. Linked(Childs, c, n)
      BY <2>3, <2>5, <2>7, <2>12 DEF QueuedPath
    <3>2. AncOf[n] = {n} \cup AncOf[c]
      BY <2>5, AncStep, Rooted
    <3>3. Height(n) <= Height(e)
      <4>1. Height(n) = Height(c) + 1
        BY <2>5, HeightStep, Rooted
      <4>2. Height(c) \in Nat /\ Height(e) \in Nat
        BY HeightRange, Rooted
      <4>3. QED
        BY <2>6, <4>1, <4>2
    <3>4. last \in AncOf[n] /\ arrived' \subseteq AncOf[n]
      BY <2>1, <2>2, <2>12, <3>2 DEF QueuedPath
    <3>5. \A a \in AncOf[n] \ AncOf[last] : Linked(Childs, Parent[a], a)
      BY <2>2, <2>5, <2>12, <3>1, <3>2 DEF QueuedPath
    <3>6. \A a \in AncOf[e] \ {Root} : Linked(Childs, Parent[a], a)
      BY <2>3, <2>12 DEF QueuedPath
    <3>7. op.pc # "idle" => /\ op.pc # "retry" /\ op.dst = op.blk
                            /\ op.blk \in AncOf[n] /\ last \in AncOf[op.blk]
      BY <2>2, <2>12, <3>2 DEF QueuedPath
    <3>8. QED
      BY <1>2, <2>8, <3>1, <3>3, <3>4, <3>5, <3>6, <3>7 DEF QueuedPath
  <2>13. Doomed' \/ (Linked(Childs, c, n) /\ QueuedPath')
    BY <1>i, <1>2, <2>11, <2>12 DEF QueueInv
  <2>14. QueueInv'
    <3>1. \A a \in AncOf[e] \ {Root} : a \in announced
      BY <1>i, <1>2, <2>3 DEF QueueInv
    <3>2. \A b \in announced \ {Root} : hasData[b]
      BY <1>i, <1>2 DEF QueueInv
    <3>3. QED
      BY <1>2, <2>1, <2>8, <2>13, <3>1, <3>2 DEF QueueInv
  <2>15. arrived' \subseteq announced /\ arrived' \cap Malformed = {}
    BY <1>i, <1>2, <2>1, <2>9, <2>10 DEF CleanInv, KnownInv
  <2>16. ASSUME NEW x \in arrived', FirstBad(x), store[x].trusted PROVE Doomed'
    <3>1. CASE x = n
      <4>1. n \notin BlockIndex
        BY <1>i, <2>5, <2>16, <3>1 DEF TrustInv, Out
      <4>2. ~Linked(Childs, c, n)
        BY <1>t, <2>5, <4>1 DEF TreeTypes
      <4>3. QED
        BY <2>13, <4>2
    <3>2. CASE x \in arrived
      BY <1>i, <1>t, <1>2, <2>11, <2>16, <3>2 DEF TrustInv
    <3>3. QED
      BY <2>1, <3>1, <3>2
  <2>17. GoalInv'
    BY <1>i, <1>2 DEF GoalInv
  <2>18. QED
    BY <1>2, <2>1, <2>14, <2>15, <2>16, <2>17, BadSteady
<1>5. QED
  BY <1>3, <1>4

LEMMA BadInit == Init => BadInv
<1> SUFFICES ASSUME Init PROVE BadInv
  OBVIOUS
<1>1. TreeTypes /\ Root \in Start /\ Start \in SUBSET Block
      /\ \A b \in Start \ {Root} : Parent[b] \in Start /\ Linked(Childs, Parent[b], b)
  BY FirstChilds
<1>2. Start = AncOf[Tip] /\ Tip \in Block /\ Start \cap Bad = {} /\ Start \cap Malformed = {}
  BY ChainAssumption
<1>3. /\ mode = "up" /\ BlockIndex = Start /\ last = Tip /\ saved = Tip /\ op = IdleOp /\ op.pc = "idle"
      /\ announced = Start /\ arrived = {} /\ parseTill = NoParse
  BY DEF Init, IdleOp
<1>4. \A b \in Block : /\ b \in Start \ {Root} => store[b].st = "disk" /\ ~store[b].invalid
                       /\ b \notin Start \ {Root} => store[b].st = "none" /\ ~store[b].invalid /\ ~store[b].trusted
                       /\ hasData[b] <=> b \in Start \ {Root}
  BY DEF Init, BS!Absent
<1>5. \A b \in Block : BS!Has(b) <=> b \in Start \ {Root}
  BY <1>4 DEF BS!Has
<1>6. HeadGood
  BY <1>2, <1>3 DEF HeadGood, Clean
<1>7. CleanInv
  <2>1. \A b \in Start : AncOf[b] \subseteq Start
    BY <1>2, AncTransitive, Rooted
  <2>2. QED
    BY <1>2, <1>3, <1>4, <1>5, <2>1 DEF CleanInv, Clean
<1>8. GoodStore
  <2>1. ASSUME NEW c \in Block \ {Root}, GoodParent(c), Parent[c] # Root
        PROVE  /\ ~store[Parent[c]].invalid
               /\ BS!Has(c) => BS!Has(Parent[c])
               /\ store[c].st = "disk" => store[Parent[c]].st = "disk"
               /\ hasData[Parent[c]] => BS!Has(Parent[c])
    <3>1. Parent[c] \in Block
      BY ChainAssumption
    <3>2. c \in Start => Parent[c] \in Start
      BY <1>1
    <3>3. QED
      BY <1>4, <1>5, <2>1, <3>1, <3>2
  <2>2. \A a \in AncOf[last] \ {Root} : BS!Has(a)
    BY <1>1, <1>2, <1>3, <1>5
  <2>3. \A b \in Block : BS!Has(b) => b # Root
    BY <1>5
  <2>4. QED
    BY <2>1, <2>2, <2>3 DEF GoodStore
<1>9. KnownInv
  BY <1>3, <1>4 DEF KnownInv
<1>10. \A x \in Start : ~FirstBad(x)
  BY <1>2 DEF FirstBad
<1>11. KeptInv
  <2>1. \A x \in Block : \A y \in Block : Linked(Childs, x, y) => x \in Start
    <3> TAKE x \in Block
    <3> TAKE y \in Block
    <3> HAVE Linked(Childs, x, y)
    <3>1. y \in Start \ {Root} /\ Parent[y] = x
      BY <1>1, <1>3 DEF TreeTypes, Linked, GoodEdges
    <3>2. QED
      BY <1>1, <3>1
  <2>2. \A y \in announced \ {Root} : ~FirstBad(Parent[y])
    BY <1>1, <1>3, <1>10
  <2>3. QED
    BY <1>3, <2>1, <2>2 DEF KeptInv
<1>12. TrustInv
  BY <1>4, <1>10 DEF TrustInv
<1>13. GoalInv /\ QueueInv
  BY <1>3 DEF GoalInv, QueueInv
<1>14. QED
  BY <1>6, <1>7, <1>8, <1>9, <1>11, <1>12, <1>13 DEF BadInv

LEMMA BadStutter ==
    ASSUME BadInv, UNCHANGED vars
    PROVE  BadInv'
<1>i. HeadGood /\ CleanInv /\ GoodStore /\ KnownInv /\ KeptInv /\ TrustInv /\ GoalInv /\ QueueInv
  BY BadParts
<1>1. UNCHANGED <<mode, store, BlockIndex, Childs, hasData, last, op, announced, arrived, parseTill, saved>>
  BY DEF vars, treeVars, netVars
<1>2. HeadGood'
  BY <1>i, <1>1 DEF HeadGood
<1>3. CleanInv'
  BY <1>i, <1>1 DEF CleanInv, BS!Has
<1>4. GoodStore'
  BY <1>i, <1>1 DEF GoodStore, BS!Has
<1>5. KnownInv'
  BY <1>i, <1>1 DEF KnownInv
<1>6. KeptInv'
  BY <1>i, <1>1 DEF KeptInv, Out
<1>7. (Doomed' <=> Doomed) /\ (QueuedPath => QueuedPath')
  BY <1>1 DEF Doomed, QueuedPath
<1>8. TrustInv'
  BY <1>i, <1>1, <1>7 DEF TrustInv, Out
<1>9. GoalInv'
  BY <1>i, <1>1 DEF GoalInv
<1>10. QueueInv'
  BY <1>i, <1>1, <1>7 DEF QueueInv
<1>11. QED
  BY <1>2, <1>3, <1>4, <1>5, <1>6, <1>8, <1>9, <1>10 DEF BadInv

LEMMA BadNext == TypeInv /\ BadInv /\ [Next]_vars => BadInv'
<1> SUFFICES ASSUME TypeInv, BadInv, [Next]_vars PROVE BadInv'
  OBVIOUS
<1>1. CASE UNCHANGED vars
  BY <1>1, BadStutter
<1>2. ASSUME NEW b \in Block \ {Root}, HandleHeaders(b) PROVE BadInv'
  BY <1>2, BadHeader DEF HandleHeaders
<1>3. ASSUME NEW b \in Block \ {Root}, NewBlockReceived(b) PROVE BadInv'
  BY <1>3, BadHeader DEF NewBlockReceived, PostCheckBlock
<1>4. ASSUME NEW b \in Block \ {Root}, BlockReceived(b) \/ WronglyMined(b) \/ DiscardArrived(b) PROVE BadInv'
  BY <1>4, BadReceived, BadWronglyMined, BadDiscard
<1>5. ASSUME NEW b \in Block \ {Root}, CommitOnTop(b) \/ CommitFails(b) \/ CommitOffTop(b) PROVE BadInv'
  BY <1>5, BadOnTop, BadFails, BadOffTop
<1>6. CASE MoveToBlock \/ UndoLastBlock \/ UndoDone
  BY <1>6, BadMove, BadUndo, BadUndone
<1>7. CASE ParseApply \/ ParseNoData \/ ParseFails \/ ParseRetry
  BY <1>7, BadApply, BadNoData, BadParseFails, BadRetry
<1>8. CASE ParsePanic
  <2>1. /\ mode = "up" /\ mode' \in PanicMsg
        /\ UNCHANGED <<store, BlockIndex, Childs, hasData, announced, last, saved, arrived, op>>
    BY <1>8 DEF ParsePanic, Parsing, Panic, PanicMsg, treeVars, netVars
  <2>2. QED
    BY <2>1, BadPanic
<1>9. CASE ParseDone
  BY <1>9, BadReturn DEF ParseDone
<1>10. ASSUME NEW b \in Block, WriteBlock(b) PROVE BadInv'
  BY <1>10, BadWrite
<1>11. CASE SaveUtxo \/ Crash \/ LoadBlockIndex \/ HostInit \/ DoTheBlocks
  BY <1>11, BadSave, BadCrash, BadLoad, BadHostInit, BadDoTheBlocks
<1>12. QED
  BY <1>1, <1>2, <1>3, <1>4, <1>5, <1>6, <1>7, <1>8, <1>9, <1>10, <1>11 DEF Next, MainNext

\* No block whose scripts fail is ever applied, whatever blocks exist, in
\* whatever order headers and blocks come, and however often the node crashes:
\* a block that LocalAcceptBlock or ParseTillBlock found bad and that carries
\* the trusted flag in memory cannot come back to CommitBlock, to MoveToBlock
\* or, after a restart, to do_the_blocks.
THEOREM NoBadApplied == Spec => []NoBadBlockActive
<1>1. BadInv => NoBadBlockActive
  BY DEF BadInv, HeadGood, NoBadBlockActive
<1>2. QED
  BY <1>1, TypeInit, TypeNext, BadInit, BadNext, PTL DEF Spec
=============================================================================
