-------------------------- MODULE BlockTreeProofs ---------------------------
(***************************************************************************)
(* Facts about the tree of blocks: AncOf is closed, reflexive, transitive, *)
(* and heights are bounded.                                                *)
(***************************************************************************)
EXTENDS BlockTree, FiniteSetTheorems, NatFacts

\* What the modules that use the tree assume of it.
IsTree ==
    /\ IsFiniteSet(Block) /\ Root \in Block
    /\ Parent \in [Block \ {Root} -> Block]

\* A block is its own ancestor, and all ancestors are blocks.
LEMMA AncSelf ==
    ASSUME NEW b \in Block
    PROVE  b \in AncOf[b] /\ AncOf[b] \in SUBSET Block
BY DEF AncOf

\* The ancestors are closed under Parent.
LEMMA AncParent ==
    ASSUME IsTree, NEW b \in Block, NEW a \in AncOf[b], a # Root
    PROVE  Parent[a] \in AncOf[b]
<1>1. a \in Block /\ Parent[a] \in Block
  BY AncSelf DEF IsTree
<1>2. ASSUME NEW S \in SUBSET Block, b \in S, \A x \in S \ {Root} : Parent[x] \in S
      PROVE  Parent[a] \in S
  <2>1. a \in S
    BY <1>2 DEF AncOf
  <2>2. QED
    BY <1>2, <2>1
<1>3. QED
  BY <1>1, <1>2 DEF AncOf

\* The ancestors are the least closed set.
LEMMA AncLeast ==
    ASSUME NEW b \in Block, NEW S \in SUBSET Block, b \in S,
           \A x \in S \ {Root} : Parent[x] \in S
    PROVE  AncOf[b] \subseteq S
BY DEF AncOf

\* The ancestors of an ancestor are ancestors.
LEMMA AncTransitive ==
    ASSUME IsTree, NEW b \in Block, NEW a \in AncOf[b]
    PROVE  AncOf[a] \subseteq AncOf[b]
<1>1. AncOf[b] \in SUBSET Block /\ a \in Block
  BY AncSelf
<1>2. \A x \in AncOf[b] \ {Root} : Parent[x] \in AncOf[b]
  BY AncParent
<1>3. QED
  BY <1>1, <1>2, AncLeast

\* The genesis block has no other ancestor.
LEMMA AncRoot ==
    ASSUME IsTree
    PROVE  AncOf[Root] = {Root}
<1>1. {Root} \in SUBSET Block /\ Root \in {Root}
  BY DEF IsTree
<1>2. AncOf[Root] \subseteq {Root}
  BY <1>1, AncLeast DEF IsTree
<1>3. QED
  BY <1>2, AncSelf DEF IsTree

\* The ancestors of a block are itself and those of its parent.
LEMMA AncStep ==
    ASSUME IsTree, NEW b \in Block \ {Root}
    PROVE  AncOf[b] = {b} \cup AncOf[Parent[b]]
<1>1. Parent[b] \in Block
  BY DEF IsTree
<1>2. AncOf[Parent[b]] \subseteq AncOf[b] /\ b \in AncOf[b]
  BY AncSelf, AncParent, AncTransitive
<1>3. AncOf[b] \subseteq {b} \cup AncOf[Parent[b]]
  <2> DEFINE S == {b} \cup AncOf[Parent[b]]
  <2>1. S \in SUBSET Block /\ b \in S
    BY <1>1, AncSelf
  <2>2. \A x \in S \ {Root} : Parent[x] \in S
    BY <1>1, AncSelf, AncParent
  <2> HIDE DEF S
  <2>3. AncOf[b] \subseteq S
    BY <2>1, <2>2, AncLeast
  <2>4. QED
    BY <2>3 DEF S
<1>4. QED
  BY <1>2, <1>3

\* Heights are naturals below the number of blocks; only the genesis block is
\* at height zero.
LEMMA HeightRange ==
    ASSUME IsTree, NEW b \in Block
    PROVE  /\ Cardinality(Block) \in Nat
           /\ Height(b) \in 0..Cardinality(Block)
           /\ b # Root /\ Root \in AncOf[b] => Height(b) >= 1
<1>1. IsFiniteSet(AncOf[b]) /\ Cardinality(AncOf[b]) <= Cardinality(Block)
  BY AncSelf, FS_Subset DEF IsTree
<1>2. Cardinality(Block) \in Nat /\ Cardinality(AncOf[b]) \in Nat
  BY <1>1, FS_CardinalityType DEF IsTree
<1>3. Cardinality({b}) = 1 /\ IsFiniteSet({b})
  BY FS_Singleton
<1>4. Cardinality(AncOf[b]) >= 1
  BY <1>1, <1>2, <1>3, AncSelf, FS_Subset
<1>5. ASSUME b # Root, Root \in AncOf[b]
      PROVE  Cardinality(AncOf[b]) >= 2
  <2>1. IsFiniteSet({b} \cup {Root}) /\ Cardinality({b} \cup {Root}) = 2
    BY <1>3, <1>5, FS_AddElement
  <2>2. {b} \cup {Root} \in SUBSET AncOf[b]
    BY <1>5, AncSelf
  <2>3. QED
    BY <1>1, <1>2, <2>1, <2>2, FS_Subset
<1>6. QED
  BY <1>1, <1>2, <1>4, <1>5 DEF Height

\* Of a non-empty set of blocks, Highest picks one.
LEMMA HighestIn ==
    ASSUME IsTree, NEW S \in SUBSET Block, S # {}
    PROVE  Highest(S) \in S /\ \A y \in S : Height(y) <= Height(Highest(S))
<1> DEFINE T == {Height(b) : b \in S}
<1>1. \A b \in S : Height(b) \in 0..Cardinality(Block)
  BY HeightRange
<1>2. Cardinality(Block) \in Nat
  BY HeightRange
<1>3. T \in SUBSET Nat /\ T # {} /\ \A y \in T : y <= Cardinality(Block)
  BY <1>1, <1>2
<1>4. \E x \in T : \A y \in T : y <= x
  <2> HIDE DEF T
  <2>1. QED
    BY <1>2, <1>3, GreatestNat
<1>5. \E x \in S : \A y \in S : Height(y) <= Height(x)
  BY <1>4, Zenon
<1>6. QED
  BY <1>5, Zenon DEF Highest

-----------------------------------------------------------------------------
(* Trees in which every block goes back to the genesis block *)

IsRooted == IsTree /\ \A b \in Block : Root \in AncOf[b]

\* No block is an ancestor of its parent.
LEMMA AncAcyclic ==
    ASSUME IsRooted, NEW b \in Block \ {Root}
    PROVE  b \notin AncOf[Parent[b]]
<1> SUFFICES ASSUME b \in AncOf[Parent[b]] PROVE FALSE
  OBVIOUS
<1>t. IsTree /\ Root \in AncOf[b] /\ Root \in Block
  BY DEF IsRooted, IsTree
<1> DEFINE C == {x \in AncOf[b] : b \in AncOf[x]}
<1>1. C \in SUBSET Block /\ b \in C
  BY AncSelf
<1>2. ASSUME NEW x \in C \ {Root} PROVE Parent[x] \in C
  <2>1. x \in Block \ {Root} /\ x \in AncOf[b] /\ b \in AncOf[x]
    BY <1>1
  <2>2. Parent[x] \in AncOf[b]
    BY <1>t, <2>1, AncParent
  <2>3. AncOf[x] = {x} \cup AncOf[Parent[x]]
    BY <1>t, <2>1, AncStep
  <2>4. b \in AncOf[Parent[x]]
    BY <2>1, <2>3
  <2>5. QED
    BY <2>2, <2>4
<1> HIDE DEF C
<1>3. AncOf[b] \subseteq C
  BY <1>1, <1>2, AncLeast
<1>4. b \in AncOf[Root]
  BY <1>t, <1>3 DEF C
<1>5. QED
  BY <1>t, <1>4, AncRoot

\* Two blocks that are ancestors of each other are the same.
LEMMA AncAntisymmetric ==
    ASSUME IsRooted, NEW a \in Block, NEW b \in Block, a \in AncOf[b], b \in AncOf[a]
    PROVE  a = b
<1> SUFFICES ASSUME a # b PROVE FALSE
  OBVIOUS
<1>t. IsTree
  BY DEF IsRooted
<1>1. CASE a = Root
  BY <1>t, <1>1, AncRoot
<1>2. CASE a # Root
  <2>1. AncOf[a] = {a} \cup AncOf[Parent[a]] /\ Parent[a] \in Block
    BY <1>t, <1>2, AncStep DEF IsTree
  <2>2. b \in AncOf[Parent[a]]
    BY <2>1
  <2>3. AncOf[b] \subseteq AncOf[Parent[a]]
    BY <1>t, <2>1, <2>2, AncTransitive
  <2>4. QED
    BY <1>2, <2>3, AncAcyclic
<1>3. QED
  BY <1>1, <1>2

\* The ancestors of a block are a line.
LEMMA AncLinear ==
    ASSUME IsTree, NEW b \in Block, NEW a \in AncOf[b], NEW c \in AncOf[b]
    PROVE  a \in AncOf[c] \/ c \in AncOf[a]
<1> DEFINE S == {x \in AncOf[b] : a \in AncOf[x] \/ x \in AncOf[a]}
<1>0. a \in Block /\ AncOf[b] \in SUBSET Block
  BY AncSelf
<1>1. S \in SUBSET Block /\ b \in S
  BY <1>0, AncSelf
<1>2. ASSUME NEW x \in S \ {Root} PROVE Parent[x] \in S
  <2>1. x \in Block \ {Root} /\ x \in AncOf[b]
    BY <1>1
  <2>2. Parent[x] \in AncOf[b]
    BY <2>1, AncParent
  <2>3. AncOf[x] = {x} \cup AncOf[Parent[x]]
    BY <2>1, AncStep
  <2>4. a \in AncOf[Parent[x]] \/ x \in AncOf[a]
    BY <1>0, <2>3, AncSelf
  <2>5. a \in AncOf[Parent[x]] \/ Parent[x] \in AncOf[a]
    BY <1>0, <2>1, <2>4, AncParent
  <2>6. QED
    BY <2>2, <2>5
<1> HIDE DEF S
<1>3. AncOf[b] \subseteq S
  BY <1>1, <1>2, AncLeast
<1>4. QED
  BY <1>3 DEF S

\* A block is one higher than its parent.
LEMMA HeightStep ==
    ASSUME IsRooted, NEW b \in Block \ {Root}
    PROVE  Parent[b] \in Block /\ Height(b) = Height(Parent[b]) + 1
<1>t. IsTree
  BY DEF IsRooted
<1>1. Parent[b] \in Block
  BY <1>t DEF IsTree
<1>2. AncOf[b] = AncOf[Parent[b]] \cup {b} /\ b \notin AncOf[Parent[b]]
  BY <1>t, AncStep, AncAcyclic
<1>3. IsFiniteSet(AncOf[Parent[b]])
  BY <1>t, <1>1, AncSelf, FS_Subset DEF IsTree
<1>4. Cardinality(AncOf[b]) = Cardinality(AncOf[Parent[b]]) + 1 /\ Cardinality(AncOf[Parent[b]]) \in Nat
  BY <1>2, <1>3, FS_AddElement, FS_CardinalityType
<1>5. QED
  BY <1>1, <1>4 DEF Height

\* An ancestor is lower.
LEMMA HeightLess ==
    ASSUME IsRooted, NEW b \in Block, NEW a \in AncOf[b]
    PROVE  /\ a \in Block /\ Height(a) \in Nat /\ Height(b) \in Nat
           /\ Height(a) <= Height(b) /\ (a # b => Height(a) < Height(b))
<1>t. IsTree
  BY DEF IsRooted
<1>1. a \in Block /\ AncOf[b] \in SUBSET Block
  BY AncSelf
<1>2. IsFiniteSet(AncOf[b]) /\ AncOf[a] \subseteq AncOf[b]
  BY <1>t, <1>1, AncTransitive, FS_Subset DEF IsTree
<1>3. a # b => b \notin AncOf[a] /\ b \in AncOf[b]
  BY <1>1, AncAntisymmetric, AncSelf
<1>4. Height(a) \in Nat /\ Height(b) \in Nat /\ Cardinality(AncOf[a]) \in Nat /\ Cardinality(AncOf[b]) \in Nat
  <2>1. Height(a) \in Nat /\ Height(b) \in Nat
    BY <1>t, <1>1, HeightRange
  <2>2. IsFiniteSet(AncOf[a])
    BY <1>2, FS_Subset
  <2>3. QED
    BY <1>2, <2>1, <2>2, FS_CardinalityType
<1>5. /\ Cardinality(AncOf[a]) <= Cardinality(AncOf[b])
      /\ (AncOf[a] # AncOf[b] => Cardinality(AncOf[a]) < Cardinality(AncOf[b]))
  BY <1>2, <1>4, FS_Subset
<1>6. a # b => AncOf[a] # AncOf[b]
  BY <1>3
<1>7. QED
  BY <1>1, <1>4, <1>5, <1>6 DEF Height

\* Only the genesis block is at height zero.
LEMMA HeightRoot ==
    ASSUME IsRooted
    PROVE  Height(Root) = 0
<1>1. AncOf[Root] = {Root}
  BY AncRoot DEF IsRooted
<1>2. Cardinality(AncOf[Root]) = 1
  BY <1>1, FS_Singleton
<1>3. QED
  BY <1>2 DEF Height

\* The way from an ancestor to a block starts with one of its children.
LEMMA ToWardsIn ==
    ASSUME IsRooted, NEW b \in Block, NEW a \in AncOf[b], a # b
    PROVE  /\ ToWards(a, b) \in AncOf[b] /\ ToWards(a, b) \in Block
           /\ ToWards(a, b) # Root /\ Parent[ToWards(a, b)] = a
<1>t. IsTree
  BY DEF IsRooted
<1>1. AncOf[b] \in SUBSET Block /\ b \in AncOf[b]
  BY AncSelf
<1>2. \E x \in AncOf[b] : x # Root /\ Parent[x] = a
  <2> SUFFICES ASSUME \A x \in AncOf[b] \ {Root} : Parent[x] # a PROVE FALSE
    OBVIOUS
  <2> DEFINE S == AncOf[b] \ {a}
  <2>1. S \in SUBSET Block /\ b \in S
    BY <1>1
  <2>2. \A x \in S \ {Root} : Parent[x] \in S
    BY <1>t, AncParent
  <2>3. AncOf[b] \subseteq S
    <3> HIDE DEF S
    <3>1. QED
      BY <2>1, <2>2, AncLeast
  <2>4. QED
    BY <2>3
<1>3. ToWards(a, b) \in AncOf[b] /\ ToWards(a, b) # Root /\ Parent[ToWards(a, b)] = a
  BY <1>2 DEF ToWards
<1>4. QED
  BY <1>1, <1>3

\* ... and with no other one.
LEMMA ToWardsUnique ==
    ASSUME IsRooted, NEW b \in Block, NEW x \in AncOf[b], x # Root,
           NEW y \in AncOf[b], y # Root, Parent[x] = Parent[y]
    PROVE  x = y
<1> SUFFICES ASSUME x # y PROVE FALSE
  OBVIOUS
<1>t. IsTree /\ x \in Block \ {Root} /\ y \in Block \ {Root}
  BY AncSelf DEF IsRooted
<1>1. x \in AncOf[y] \/ y \in AncOf[x]
  BY <1>t, AncLinear
<1>2. AncOf[x] = {x} \cup AncOf[Parent[x]] /\ AncOf[y] = {y} \cup AncOf[Parent[y]]
  BY <1>t, AncStep
<1>3. x \in AncOf[Parent[x]] \/ y \in AncOf[Parent[y]]
  BY <1>1, <1>2
<1>4. QED
  BY <1>t, <1>3, AncAcyclic

\* A child of an ancestor that is an ancestor is the one on the way.
LEMMA ToWardsIs ==
    ASSUME IsRooted, NEW b \in Block, NEW x \in AncOf[b], x # Root
    PROVE  ToWards(Parent[x], b) = x
<1>1. \E y \in AncOf[b] : y # Root /\ Parent[y] = Parent[x]
  OBVIOUS
<1>2. ToWards(Parent[x], b) \in AncOf[b] /\ ToWards(Parent[x], b) # Root
      /\ Parent[ToWards(Parent[x], b)] = Parent[x]
  BY <1>1 DEF ToWards
<1>3. QED
  BY <1>2, ToWardsUnique

\* The common ancestor is one, and all the others are below it.
LEMMA CommonIn ==
    ASSUME IsRooted, NEW x \in Block, NEW y \in Block
    PROVE  /\ Common(x, y) \in AncOf[x] /\ Common(x, y) \in AncOf[y] /\ Common(x, y) \in Block
           /\ \A z \in AncOf[x] \cap AncOf[y] : z \in AncOf[Common(x, y)]
<1>t. IsTree /\ Root \in AncOf[x] \cap AncOf[y]
  BY DEF IsRooted
<1> DEFINE S == AncOf[x] \cap AncOf[y]
<1>1. S \in SUBSET Block /\ S # {}
  BY <1>t, AncSelf
<1>2. Highest(S) \in S /\ \A z \in S : Height(z) <= Height(Highest(S))
  <2> HIDE DEF S
  <2>1. QED
    BY <1>t, <1>1, HighestIn
<1>3. PICK c \in S : c = Highest(S) /\ \A z \in S : Height(z) <= Height(c)
  BY <1>2
<1>4. ASSUME NEW z \in S PROVE z \in AncOf[c]
  <2>1. z \in AncOf[c] \/ c \in AncOf[z]
    BY <1>t, AncLinear
  <2>2. ASSUME c \in AncOf[z], z # c PROVE FALSE
    <3>1. Height(c) < Height(z) /\ Height(c) \in Nat /\ Height(z) \in Nat
      BY <1>1, <2>2, HeightLess
    <3>2. Height(z) <= Height(c)
      BY <1>3
    <3>3. QED
      BY <3>1, <3>2
  <2>3. QED
    BY <1>1, <2>1, <2>2, AncSelf
<1>5. QED
  BY <1>1, <1>3, <1>4 DEF Common

\* A common ancestor that all the others are below of is the one.
LEMMA CommonIs ==
    ASSUME IsRooted, NEW x \in Block, NEW y \in Block, NEW c \in AncOf[x] \cap AncOf[y],
           \A z \in AncOf[x] \cap AncOf[y] : z \in AncOf[c]
    PROVE  Common(x, y) = c
<1>1. PICK d : d = Common(x, y)
  OBVIOUS
<1>2. d \in AncOf[x] \cap AncOf[y] /\ d \in Block /\ c \in AncOf[d] /\ c \in Block
  BY <1>1, CommonIn, AncSelf
<1>3. d \in AncOf[c]
  BY <1>2
<1>4. QED
  BY <1>1, <1>2, <1>3, AncAntisymmetric
=============================================================================
