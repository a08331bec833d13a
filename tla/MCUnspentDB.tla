---------------------------- MODULE MCUnspentDB ----------------------------
(* Small instances of UnspentDB for TLC: trees of two branches. *)
EXTENDS UnspentDB, TLC

CONSTANTS g, a1, a2, a3, b1, b2

\* g <- a1 <- a2  and  g <- b1
ForkBlock  == {g, a1, a2, b1}
ForkParent == (a1 :> g) @@ (a2 :> a1) @@ (b1 :> g)
ForkHeight == (g :> 0) @@ (a1 :> 1) @@ (a2 :> 2) @@ (b1 :> 1)

\* g <- a1 <- a2 <- a3  and  a1 <- b2
TallBlock  == {g, a1, a2, a3, b2}
TallParent == (a1 :> g) @@ (a2 :> a1) @@ (a3 :> a2) @@ (b2 :> a1)
TallHeight == (g :> 0) @@ (a1 :> 1) @@ (a2 :> 2) @@ (a3 :> 3) @@ (b2 :> 2)
============================================================================
