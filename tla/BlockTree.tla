----------------------------- MODULE BlockTree -----------------------------
(***************************************************************************)
(* The tree of all blocks that exist.  Parents and heights never change;   *)
(* which of the blocks the node knows of is state of other modules.        *)
(***************************************************************************)
EXTENDS Integers, FiniteSets

CONSTANTS
    Block,          \* all blocks that exist, Root included
    Root,           \* the genesis block, BlockTreeRoot
    Parent          \* Block \ {Root} -> Block

\* b and its ancestors: the least set with b in it that is closed under Parent.
AncOf ==
    [b \in Block |->
        {a \in Block : \A S \in SUBSET Block :
            b \in S /\ (\A x \in S \ {Root} : Parent[x] \in S) => a \in S}]

Height(b) == Cardinality(AncOf[b]) - 1

Highest(S) == CHOOSE x \in S : \A y \in S : Height(y) <= Height(x)

Common(x, y) == Highest(AncOf[x] \cap AncOf[y])

\* The ancestor of b that is a child of a.
ToWards(a, b) == CHOOSE x \in AncOf[b] : x # Root /\ Parent[x] = a
============================================================================
