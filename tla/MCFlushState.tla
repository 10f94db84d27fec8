----------------------------- MODULE MCFlushState -----------------------------
(***************************************************************************)
(* A chain of three blocks on the genesis block, for FlushState.  Blocks   *)
(* arrive in any order and are connected, disconnected and pruned.         *)
(***************************************************************************)
EXTENDS FlushState

CONSTANTS g, a1, a2, a3

ChainBlock  == {g, a1, a2, a3}
ChainHeight == [b \in ChainBlock |->
                   CASE b = g -> 0 [] b = a1 -> 1 [] b = a2 -> 2 [] b = a3 -> 3]
ChainParent == [b \in ChainBlock \ {g} |->
                   CHOOSE p \in ChainBlock : ChainHeight[p] = ChainHeight[b] - 1]
ChainAnc    == [b \in ChainBlock |->
                   {a \in ChainBlock : ChainHeight[a] <= ChainHeight[b]}]
===============================================================================
