------------------------------- MODULE MCTxPool -------------------------------
(***************************************************************************)
(* A chain with a fork at its third block.  Transactions 11 and 12 spend   *)
(* the same output of the first coinbase; 13 spends both outputs of 11, in *)
(* the same block; 14 spends 13 and the other output of the coinbase; 15   *)
(* also spends an output of 11, and its scripts fail; 16 spends the second *)
(* coinbase.  The third coinbase is in both branches; the first one comes  *)
(* again in the fifth block, when both of its outputs have been spent.     *)
(***************************************************************************)
EXTENDS TxPool, TLC

CONSTANTS g, a1, a2, a3, a4, a5, b3

MCBlock  == {g, a1, a2, a3, a4, a5, b3}
MCParent == (a1 :> g) @@ (a2 :> a1) @@ (a3 :> a2) @@ (b3 :> a2) @@ (a4 :> a3) @@ (a5 :> a4)
MCHeight == (g :> 0) @@ (a1 :> 1) @@ (a2 :> 2) @@ (a3 :> 3) @@ (b3 :> 3) @@ (a4 :> 4) @@ (a5 :> 5)
MCBody   == (a1 :> <<1>>) @@ (a2 :> <<2>>) @@ (a3 :> <<3, 11, 13>>) @@ (b3 :> <<3, 12>>)
            @@ (a4 :> <<4, 14, 16>>) @@ (a5 :> <<1>>)

MCTx  == {1, 2, 3, 4, 11, 12, 13, 14, 15, 16}
MCIns == [t \in MCTx |->
            CASE t \in {11, 12} -> <<<<1, 0>>>>
              [] t = 13 -> <<<<11, 0>>, <<11, 1>>>>
              [] t = 14 -> <<<<13, 0>>, <<1, 1>>>>
              [] t = 15 -> <<<<11, 1>>>>
              [] t = 16 -> <<<<2, 0>>>>
              [] OTHER -> <<>>]
MCOuts == [t \in MCTx |-> IF t \in {1, 11} THEN 2 ELSE 1]
MCSize == [t \in MCTx |-> t]
===============================================================================
