---------------------------- MODULE MCCoinsCache ----------------------------
(* TLC instances of CoinsCache. *)
EXTENDS CoinsCache, TLC

CONSTANTS x, y, c1, c2, h1, h2, h3

(* h1 creates x; h2 spends it and creates y; h3 creates x anew. *)
UtxoOf == (NoHash :> [t \in Tx |-> Pruned])
          @@ (h1 :> (x :> c1 @@ y :> Pruned))
          @@ (h2 :> (x :> Pruned @@ y :> c1))
          @@ (h3 :> (x :> c2 @@ y :> c1))

SizeOf == (Pruned :> 0) @@ (c1 :> 1) @@ (c2 :> 3)
=============================================================================
