---------------------------- MODULE MCChainState ----------------------------
(***************************************************************************)
(* TLC instances of ChainState.  A tree is given by the function from      *)
(* blocks to parents; ancestors, heights and work follow from it.          *)
(***************************************************************************)
EXTENDS ChainState, TLC

CONSTANTS g, a1, a2, a3, b1, b2

Ancestors(tree) ==
    LET up[b \in Block] == IF b = Genesis THEN {b} ELSE up[tree[b]] \cup {b}
    IN  up
Heights(tree) == [b \in Block |-> Cardinality(Ancestors(tree)[b]) - 1]

(* Two branches from genesis; b2 has more work than a2, b1 as much as a1. *)
ForkParent == (a1 :> g) @@ (a2 :> a1) @@ (b1 :> g) @@ (b2 :> b1)
ForkAnc    == Ancestors(ForkParent)
ForkHeight == Heights(ForkParent)

(* A branch at a1. *)
LateForkParent == (a1 :> g) @@ (a2 :> a1) @@ (b2 :> a1)
LateForkAnc    == Ancestors(LateForkParent)
LateForkHeight == Heights(LateForkParent)

(* A longer branch, next to a shorter one. *)
LongParent == (a1 :> g) @@ (a2 :> a1) @@ (a3 :> a2) @@ (b1 :> g) @@ (b2 :> b1)
LongAnc    == Ancestors(LongParent)
LongHeight == Heights(LongParent)

WorkOf == [b \in Block |-> CASE b = g -> 1
                             [] b \in {a1, b1} -> 2
                             [] b = a2 -> 3
                             [] b \in {a3, b2} -> 4]
\* the equal-work pairs b1, a1 and b2, a3 are ordered against the names
AddrOf == [b \in Block |-> CASE b = g -> 1 [] b = b1 -> 2 [] b = a1 -> 3
                             [] b = b2 -> 4 [] b = a2 -> 5 [] b = a3 -> 6]

Symm == Permutations(Thread)
=============================================================================
