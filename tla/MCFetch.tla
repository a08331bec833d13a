------------------------------ MODULE MCFetch ------------------------------
(* Small instances of Fetch for TLC: g is the genesis block, p and d are    *)
(* peers and f is a friend.  In FetchSync p is honest and d does as it      *)
(* likes; in FetchCompact f is honest and p does as it likes.               *)
EXTENDS Fetch, TLC

CONSTANTS g, a1, a2, b1, b2, p, d, f

\* d is on a branch of its own, as long as that of the honest peer.
ForkBlock  == {g, a1, a2, b1, b2}
ForkParent == (a1 :> g) @@ (a2 :> a1) @@ (b1 :> g) @@ (b2 :> b1)
ForkTip    == (p :> a2) @@ (d :> b2)

\* One block, and both peers have it.
OneBlock   == {g, a1}
OneParent  == (a1 :> g)
OneTip     == (p :> a1) @@ (d :> a1)

\* The honest peer has the longest chain.
TallBlock  == {g, a1, a2, b1}
TallParent == (a1 :> g) @@ (a2 :> a1) @@ (b1 :> g)
TallTip    == (p :> a2) @@ (d :> b1)

\* A friend has one block more.
LineBlock  == {g, a1, a2}
LineParent == (a1 :> g) @@ (a2 :> a1)
LineTip    == (p :> a1) @@ (f :> a2)

Unversed  == [c \in Conn |-> IF c = p THEN Height(TipOf[c]) ELSE 0]
AsTheyAre == [c \in Conn |-> Height(TipOf[c])]
============================================================================
