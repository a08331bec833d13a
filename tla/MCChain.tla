------------------------------ MODULE MCChain ------------------------------
(* Small instances of Chain for TLC.  g is the genesis block, s the block   *)
(* on top of it that all instances have applied.                            *)
EXTENDS Chain, TLC

CONSTANTS g, s, a1, a2, a3, b1, b2, b3, c2, c3

\* Two branches above s: two blocks of b weigh more than two of a, and less
\* than three.
HeavyBlock  == {g, s, a1, a2, a3, b1, b2, b3}
HeavyParent == (s :> g) @@ (a1 :> s) @@ (a2 :> a1) @@ (a3 :> a2) @@ (b1 :> s) @@ (b2 :> b1)
               @@ (b3 :> b2)
HeavyWork   == [b \in HeavyBlock |-> IF b \in {b1, b2, b3} THEN 5 ELSE 4]

\* Branches of lengths 2 and 3, all blocks of the same weight.
ForkBlock  == {g, s, a1, a2, b1, b2, b3}
ForkParent == (s :> g) @@ (a1 :> s) @@ (a2 :> a1) @@ (b1 :> s) @@ (b2 :> b1) @@ (b3 :> b2)
ForkWork   == [b \in ForkBlock |-> 1]

\* A branch that forks again above b1.
SideBlock  == {g, s, a1, a2, b1, b2, c2, c3}
SideParent == (s :> g) @@ (a1 :> s) @@ (a2 :> a1) @@ (b1 :> s) @@ (b2 :> b1) @@ (c2 :> b1)
              @@ (c3 :> c2)
SideWork   == [b \in SideBlock |-> 1]

SmallStart == {g, s}
============================================================================
