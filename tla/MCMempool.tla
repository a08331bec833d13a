----------------------------- MODULE MCMempool -----------------------------
(* Small instances of Mempool for TLC.                                      *)
EXTENDS Mempool, TLC

CONSTANTS txP, txC, txR, txQ, txW, txX, txB, coin1, outP0, outP1, outP2, outP9, outC0

\* txC spends an output of txP, txQ spends one of each; txR spends the coin
\* of txP and pays better than all of them.
FamilyOut   == {coin1, outP0, outP1, outP2, outC0}
FamilyOutTx == (coin1 :> Mined) @@ (outP0 :> txP) @@ (outP1 :> txP) @@ (outP2 :> txP) @@ (outC0 :> txC)
FamilyIns   == (txP :> <<coin1>>) @@ (txC :> <<outP0>>) @@ (txR :> <<coin1>>) @@ (txQ :> <<outP1, outC0>>)
FamilyFee   == (txP :> 10) @@ (txC :> 40) @@ (txR :> 60) @@ (txQ :> 15)
FamilySize  == (txP :> 10) @@ (txC :> 20) @@ (txR :> 15) @@ (txQ :> 10)

\* txC and txW spend outputs of txP; txX spends one that txP does not have,
\* the signature of txW is wrong and txB is too big.
FaultyOut   == {coin1, outP0, outP1, outP2, outP9, outC0}
FaultyOutTx == (coin1 :> Mined) @@ (outP0 :> txP) @@ (outP1 :> txP)
               @@ (outP2 :> txP) @@ (outP9 :> txP) @@ (outC0 :> txC)
FaultyIns   == (txP :> <<coin1>>) @@ (txC :> <<outP0>>) @@ (txW :> <<outP1>>) @@ (txX :> <<outP9>>)
               @@ (txB :> <<outP9>>)
FaultyFee   == [t \in Tx |-> 10]
FaultySize  == [t \in Tx |-> 10]
============================================================================
