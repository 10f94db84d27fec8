------------------------------ MODULE CoinsStore ------------------------------
(***************************************************************************)
(* What the stack of coin views promises (coins.h): three versions of the  *)
(* set of unspent outputs, each with the block it belongs to.  durable is  *)
(* on disk, current is what pcoinsTip answers, pending is the work of a    *)
(* ConnectBlock or DisconnectBlock, invisible until it is flushed.  There  *)
(* are no caches here: each version is a plain function.                   *)
(***************************************************************************)
CONSTANTS Tx,         \* transaction ids
          Coin,       \* unspent CCoins
          Pruned,     \* a CCoins without unspent outputs, or none at all
          BlockHash,
          NoHash      \* the null hash

VARIABLES durable, current, pending, stage

storeVars == <<durable, current, pending, stage>>

Value   == Coin \cup {Pruned}
Version == [coins : [Tx -> Value], best : BlockHash \cup {NoHash}]

StoreInit ==
    /\ durable = [coins |-> [x \in Tx |-> Pruned], best |-> NoHash]
    /\ current = durable /\ pending = durable
    /\ stage = "none"

Begin == /\ stage = "none" /\ stage' = "open"
         /\ pending' = current
         /\ UNCHANGED <<durable, current>>

Update(x, v) == /\ stage = "open"
                /\ pending' = [pending EXCEPT !.coins = [@ EXCEPT ![x] = v]]
                /\ UNCHANGED <<durable, current, stage>>

Seal(h) == /\ stage = "open" /\ stage' = "sealed"
           /\ pending' = [pending EXCEPT !.best = h]
           /\ UNCHANGED <<durable, current>>

Commit == /\ stage = "sealed" /\ stage' = "none"
          /\ current' = pending
          /\ UNCHANGED <<durable, pending>>

Abandon == /\ stage = "open" /\ stage' = "none"
           /\ pending' = current
           /\ UNCHANGED <<durable, current>>

Persist == /\ stage = "none"
           /\ durable' = current
           /\ UNCHANGED <<current, pending, stage>>

Restart == /\ stage' = "none"
           /\ current' = durable /\ pending' = durable
           /\ UNCHANGED durable

StoreNext == \/ Begin \/ Commit \/ Abandon \/ Persist \/ Restart
             \/ \E x \in Tx, v \in Value : Update(x, v)
             \/ \E h \in BlockHash : Seal(h)

StoreSpec == StoreInit /\ [][StoreNext]_storeVars
===============================================================================
