-------------------------------- MODULE TxPool --------------------------------
(***************************************************************************)
(* Unconfirmed transactions: the memory pool of txmempool.cpp, the orphan  *)
(* transactions of main.cpp, and what AcceptToMemoryPool, ConnectTip and   *)
(* DisconnectTip do with both while the coins change underneath.           *)
(*                                                                         *)
(* All of it happens under cs_main; an action is a whole "tx" message, a   *)
(* block connected or disconnected, or a peer that goes away.  Fees,       *)
(* priorities, standardness and the rate limit for free transactions are   *)
(* one choice: a transaction of Disliked may be refused at any time.       *)
(***************************************************************************)
EXTENDS BlockUndo

CONSTANTS
    Peer,
    Disliked,    \* transactions that policy may refuse
    MaxOrphans,  \* -maxorphantx
    Size         \* GetTxSize of each transaction

NoTx   == -1
NoPeer == "nobody"

ASSUME PoolAssumption ==
    /\ NoPeer \notin Peer /\ Disliked \subseteq Tx
    /\ MaxOrphans \in Nat /\ Size \in [Tx -> Nat]

VARIABLES
    chain,     \* chainActive above the genesis block
    coins,     \* pcoinsTip
    undo,      \* the undo record of each block that was ever connected
    mempool,   \* mapTx, mapNextTx and totalTxSize
    orphans,   \* mapOrphanTransactions: fromPeer of each orphan
    byPrev     \* mapOrphanTransactionsByPrev

vars == <<chain, coins, undo, mempool, orphans, byPrev>>

OutPoint == UNION {Inputs(t) : t \in Tx}
IsOrphan(t) == orphans[t] # NoPeer
Orphans == {t \in Tx : IsOrphan(t)}
Tip     == IF chain = <<>> THEN Genesis ELSE Last(chain)

TypeOK ==
    /\ chain \in Seq(Block \ {Genesis})
    /\ coins \in [Tx -> CoinsType]
    /\ \A t \in Tx : coins[t].out = {} => coins[t] = NoCoins
    /\ DOMAIN undo \subseteq Block
    /\ mempool \in [tx : SUBSET Tx, next : [OutPoint -> Tx \cup {NoTx}], size : Int]
    /\ orphans \in [Tx -> Peer \cup {NoPeer}] /\ byPrev \in [Tx -> SUBSET Tx]

EmptyPool == [tx |-> {}, next |-> [o \in OutPoint |-> NoTx], size |-> 0]

Init ==
    /\ chain = <<>> /\ coins = [t \in Tx |-> NoCoins] /\ undo = <<>>
    /\ mempool = EmptyPool
    /\ orphans = [t \in Tx |-> NoPeer] /\ byPrev = [t \in Tx |-> {}]

----------------------------------------------------------------------------
(* The pool. *)

AddUnchecked(mp, t) ==
    [tx   |-> mp.tx \cup {t},
     next |-> [o \in OutPoint |-> IF o \in Inputs(t) THEN t ELSE mp.next[o]],
     size |-> mp.size + Size[t]]

\* the transactions of the pool that spend an output of t
Spenders(mp, t) ==
    {mp.next[o] : o \in {p \in OutPoint : p[1] = t /\ p[2] < Outs[t]}} \ {NoTx}

\* the work list of a recursive removal, followed to its end
WithSpenders(mp, S) ==
    LET reach[n \in 0 .. Cardinality(mp.tx)] ==
            IF n = 0 THEN S
            ELSE reach[n - 1] \cup UNION {Spenders(mp, t) : t \in reach[n - 1] \cap mp.tx}
    IN  reach[Cardinality(mp.tx)]

Without(mp, gone) ==
    [tx   |-> mp.tx \ gone,
     next |-> [o \in OutPoint |-> IF \E t \in gone : o \in Inputs(t) THEN NoTx ELSE mp.next[o]],
     size |-> mp.size - MapThenSumSet(LAMBDA t : Size[t], gone)]

RemoveInPoolOnly(mp, t) == Without(mp, WithSpenders(mp, {t}) \cap mp.tx)  \* mutant: no look at the spenders of a t that is gone

\* remove(tx, removed, true); t itself need not be in the pool
RemoveRecursive(mp, t) ==
    LET start == {t} \cup (IF t \in mp.tx THEN {} ELSE Spenders(mp, t))
    IN  Without(mp, WithSpenders(mp, start) \cap mp.tx)

RemoveOne(mp, t) == Without(mp, {t} \cap mp.tx)

RemoveConflicts(mp, t) ==
    LET against == {mp.next[o] : o \in Inputs(t)} \ {NoTx, t}
    IN  FoldSet(LAMBDA c, acc : RemoveRecursive(acc, c), mp, against)

RemoveForBlock(mp, b) ==
    FoldLeft(LAMBDA acc, t : RemoveConflicts(RemoveOne(acc, t), t), mp, Body[b])

KeepCoinbaseSpends(mp, cs, height) == mp  \* mutant: the call is missing

\* removeCoinbaseSpends, at the height of the next block
RemoveCoinbaseSpends(mp, cs, height) ==
    LET bad == {t \in mp.tx : \E p \in Prevs(t) \ mp.tx :
                                 cs[p].out = {} \/ Immature(cs[p], height)}
    IN  FoldSet(LAMBDA t, acc : RemoveRecursive(acc, t), mp, bad)

(***************************************************************************)
(* AcceptToMemoryPool on the coins cs, whose best block has the height     *)
(* before the given one.  missing: fMissingInputs; invalid: a DoS score.   *)
(***************************************************************************)
Verdict(mp, cs, height, t, refused) ==
    IF t \in CoinBase THEN "invalid"
    ELSE IF t \in refused \cup mp.tx \/ cs[t].out # {} \/ \E o \in Inputs(t) : mp.next[o] # NoTx THEN "refused"
    ELSE IF \E p \in Prevs(t) \ mp.tx : cs[p].out = {} THEN "missing"
    ELSE IF \E o \in Inputs(t) : IF o[1] \in mp.tx THEN o[2] >= Outs[o[1]]
                                ELSE ~Available(cs, o) \/ Immature(cs[o[1]], height) THEN "refused"
    ELSE IF t \in Unsound THEN "invalid"
    ELSE "accepted"

NextHeight == Height[Tip] + 1

----------------------------------------------------------------------------
(* Orphans. *)

KeepIndex(index, gone) == [p \in Tx |-> IF p \in gone THEN {} ELSE index[p]]  \* mutant: the entry of the parent goes, not of the orphan

\* EraseOrphanTx, for a set of orphans
Unindexed(index, gone) == [p \in Tx |-> index[p] \ gone]

EraseOrphans(gone) ==
    /\ orphans' = [t \in Tx |-> IF t \in gone THEN NoPeer ELSE orphans[t]]
    /\ byPrev' = Unindexed(byPrev, gone \cap Orphans)

\* AddOrphanTx and LimitOrphanTxSize, which evicts at random
StoreOrphan(t, p) ==
    \E evicted \in SUBSET (Orphans \cup {t}) :
        /\ Cardinality((Orphans \cup {t}) \ evicted) =
              (IF Cardinality(Orphans \cup {t}) < MaxOrphans THEN Cardinality(Orphans \cup {t}) ELSE MaxOrphans)
        /\ LET held == IF IsOrphan(t) THEN orphans ELSE [orphans EXCEPT ![t] = p]
               named == [q \in Tx |-> IF ~IsOrphan(t) /\ q \in Prevs(t)
                                      THEN byPrev[q] \cup {t} ELSE byPrev[q]]
           IN  /\ orphans' = [u \in Tx |-> IF u \in evicted THEN NoPeer ELSE held[u]]
               /\ byPrev' = Unindexed(named, evicted)

TryOrphan(acc, o, refused) ==
    LET v == Verdict(acc.mp, coins, NextHeight, o, refused)
    IN  IF orphans[o] \in acc.bad THEN acc
        ELSE CASE v = "accepted" -> [acc EXCEPT !.mp = AddUnchecked(@, o),
                                                !.work = Append(@, o), !.erase = @ \cup {o}]
               [] v = "missing"  -> acc
               [] v = "refused"  -> [acc EXCEPT !.erase = @ \cup {o}]
               [] v = "invalid"  -> [acc EXCEPT !.erase = @ \cup {o}, !.bad = @ \cup {orphans[o]}]

\* the orphans that name q are tried in the order of their hashes
TryOrphans(acc, q, refused) ==
    MapThenFoldSet(LAMBDA o, a : TryOrphan(a, o, refused), acc,
                   LAMBDA o : o, LAMBDA S : Max(S), byPrev[q])

FirstOnly(acc, i, refused) ==  \* mutant: orphans of accepted orphans are not tried
    IF i > 1 THEN acc ELSE TryOrphans(acc, acc.work[i], refused)

\* one step of the loop over vWorkQueue
ProcessWork(acc, i, refused) ==
    IF i > Len(acc.work) THEN acc ELSE TryOrphans(acc, acc.work[i], refused)

\* the whole loop: every orphan enters vWorkQueue at most once
Resolved(t, refused) ==
    FoldLeft(LAMBDA a, i : ProcessWork(a, i, refused),
             [mp |-> AddUnchecked(mempool, t), work |-> <<t>>, erase |-> {}, bad |-> {}],
             [i \in 1 .. Cardinality(Orphans) + 1 |-> i])

\* the "tx" message
TxMessage(p, t) ==
    /\ \E refused \in SUBSET Disliked :
          LET v == Verdict(mempool, coins, NextHeight, t, refused)
          IN  \/ /\ v = "accepted"
                 /\ mempool' = Resolved(t, refused).mp
                 /\ EraseOrphans(Resolved(t, refused).erase)
              \/ /\ v = "missing"
                 /\ StoreOrphan(t, p)
                 /\ UNCHANGED mempool
    /\ UNCHANGED <<chain, coins, undo>>

\* FinalizeNode
EraseOrphansFor(p) ==
    /\ \E t \in Tx : orphans[t] = p
    /\ EraseOrphans({t \in Tx : orphans[t] = p})
    /\ UNCHANGED <<chain, coins, undo, mempool>>

----------------------------------------------------------------------------
(* The chain. *)

ConnectTip(b) ==
    LET c == ConnectBlock(coins, b)
    IN
    /\ Parent[b] = Tip /\ c.ok
    /\ coins' = c.coins
    /\ undo' = IF b \in DOMAIN undo THEN undo
               ELSE [x \in DOMAIN undo \cup {b} |-> IF x = b THEN c.undo ELSE undo[x]]
    /\ mempool' = RemoveForBlock(mempool, b)
    /\ chain' = Append(chain, b)
    /\ UNCHANGED <<orphans, byPrev>>

\* DisconnectTip: the transactions of the block go back to the pool if they can
Resurrect(mp, cs, b, refused) ==
    FoldLeft(LAMBDA acc, t : IF Verdict(acc, cs, Height[b], t, refused) = "accepted"
                             THEN AddUnchecked(acc, t) ELSE RemoveRecursive(acc, t),
             mp, Body[b])

DisconnectTip ==
    /\ chain # <<>>
    /\ LET b == Tip
           d == DisconnectBlock(coins, b, undo[b])
       IN  /\ d.clean
           /\ coins' = d.coins
           /\ \E refused \in SUBSET Disliked :
                 mempool' = RemoveCoinbaseSpends(Resurrect(mempool, d.coins, b, refused),
                                                 d.coins, Height[b])
    /\ chain' = Front(chain)
    /\ UNCHANGED <<undo, orphans, byPrev>>

Next ==
    \/ \E p \in Peer, t \in Tx : TxMessage(p, t)
    \/ \E p \in Peer : EraseOrphansFor(p)
    \/ \E b \in Block \ {Genesis} : ConnectTip(b)
    \/ DisconnectTip

Spec == Init /\ [][Next]_vars

----------------------------------------------------------------------------
(* Properties. *)

(***************************************************************************)
(* The coins are exactly the outputs of the active chain that it does not  *)
(* spend, with the height and kind of their transaction, whatever blocks   *)
(* were connected and taken back before: undo records lose nothing.        *)
(***************************************************************************)
CoinsExact == coins = Unspent(chain)

(***************************************************************************)
(* The tip can always be disconnected: DisconnectBlock finds the coins and *)
(* the undo record in agreement (fClean), also when a block of another     *)
(* branch has used the same outputs or transactions since.                 *)
(***************************************************************************)
TipUndoes == chain # <<>> => DisconnectBlock(coins, Tip, undo[Tip]).clean

(***************************************************************************)
(* Undo records are exact: they have always given back the coins as they   *)
(* were, and do so for the tip. Connecting and disconnecting in any order  *)
(* leaves no trace.                                                        *)
(***************************************************************************)
UndoExact == CoinsExact /\ TipUndoes

(***************************************************************************)
(* The assertions of CTxMemPool::check on mapNextTx and totalTxSize: the   *)
(* outputs named are the inputs of the transactions in the pool, each of   *)
(* one of them, and the size is theirs.                                    *)
(***************************************************************************)
PoolIndexed ==
    /\ \A o \in OutPoint : mempool.next[o] # NoTx =>
          mempool.next[o] \in mempool.tx /\ o \in Inputs(mempool.next[o])
    /\ \A t \in mempool.tx : \A o \in Inputs(t) : mempool.next[o] = t
    /\ mempool.size = MapThenSumSet(LAMBDA t : Size[t], mempool.tx)

(***************************************************************************)
(* Every transaction of the pool could be mined on the tip, after those it *)
(* depends on: its inputs are outputs of the pool or unspent coins, and a  *)
(* coinbase among them is mature, also after a reorganisation.             *)
(***************************************************************************)
PoolMinable ==
    \A t \in mempool.tx : \A o \in Inputs(t) :
        IF o[1] \in mempool.tx THEN o[2] < Outs[o[1]]
        ELSE Available(coins, o) /\ ~Immature(coins[o[1]], NextHeight)

(***************************************************************************)
(* "guaranteed to never conflict with the underlying cache"                *)
(* (CCoinsViewMemPool::GetCoins): no transaction of the pool is one whose  *)
(* outputs are among the coins, so the two never answer differently.       *)
(***************************************************************************)
PoolApartFromCoins == \A t \in mempool.tx : coins[t] = NoCoins

(***************************************************************************)
(* What CTxMemPool::check asserts, against coins that change under the     *)
(* pool: its indexes are exact, it could be mined, and it repeats nothing  *)
(* that the chain has.                                                     *)
(***************************************************************************)
PoolChecked == TypeOK /\ PoolIndexed /\ PoolMinable /\ PoolApartFromCoins

(***************************************************************************)
(* The assertion in removeCoinbaseSpends (with -checkmempool): when the    *)
(* tip is disconnected and its transactions have been resurrected or not,  *)
(* no transaction of the pool is left whose input is gone, because the     *)
(* dependants of what was not resurrected went with it.                    *)
(***************************************************************************)
NoLostParents ==
    chain # <<>> =>
        LET d == DisconnectBlock(coins, Tip, undo[Tip])
        IN  \A refused \in SUBSET Disliked :
                LET mp == Resurrect(mempool, d.coins, Tip, refused)
                IN  \A t \in mp.tx : \A o \in Inputs(t) :
                        o[1] \in mp.tx \/ Available(d.coins, o)

(***************************************************************************)
(* mapOrphanTransactionsByPrev names exactly the stored orphans, under     *)
(* each transaction they spend from, and there are at most MaxOrphans.     *)
(***************************************************************************)
OrphansIndexed ==
    /\ byPrev = [p \in Tx |-> {t \in Orphans : p \in Prevs(t)}]
    /\ Cardinality(Orphans) <= MaxOrphans

\* a peer that has given an orphan whose scripts fail
Suspect(p) == \E t \in Orphans \cap Unsound : orphans[t] = p

(***************************************************************************)
(* When a transaction enters the pool by a message, no orphan that waited  *)
(* for it, or for one that came with it, is left behind with all that it   *)
(* needs: it was accepted or thrown away.  Orphans of a peer that is       *)
(* caught in the same loop are passed over.                                *)
(***************************************************************************)
OrphansResolved ==
    [][\A t \in Orphans :
          (/\ UNCHANGED chain
           /\ Prevs(t) \cap (mempool'.tx \ mempool.tx) # {}
           /\ \A p \in Prevs(t) : p \in mempool'.tx \/ coins[p].out # {})
          => orphans'[t] = NoPeer \/ Suspect(orphans[t])]_vars
===============================================================================
