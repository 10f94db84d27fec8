------------------------------ MODULE CoinsCache ------------------------------
(***************************************************************************)
(* The coin views of coins.cpp and txdb.cpp: the database (CCoinsViewDB),  *)
(* the cache pcoinsTip on top of it, and the cache that ConnectTip and     *)
(* DisconnectTip put on top of pcoinsTip for the block at hand.  A cache   *)
(* entry has the flags DIRTY and FRESH, which let a flush skip entries and *)
(* drop them altogether; everything rests on the flags being right.        *)
(*                                                                         *)
(* All of this happens under cs_main.  ModifyCoins is taken together with  *)
(* the life of the CCoinsModifier it returns, whose destructor cleans up.  *)
(* A CCoins is an opaque value; whether it is pruned is what matters.      *)
(* What a block does to the coins is a constant, UtxoAt.  Writes to the    *)
(* database succeed here; FlushState is about those that fail.             *)
(***************************************************************************)
EXTENDS Integers, FiniteSetsExt

CONSTANTS Tx, Coin, Pruned, BlockHash, NoHash,
          UtxoAt,        \* the unspent outputs after each block
          Size           \* memusage::DynamicUsage of a CCoins

Value == Coin \cup {Pruned}

ASSUME CoinsAssumption ==
    /\ Pruned \notin Coin /\ NoHash \notin BlockHash
    /\ UtxoAt \in [BlockHash \cup {NoHash} -> [Tx -> Value]]
    /\ UtxoAt[NoHash] = [x \in Tx |-> Pruned]
    /\ Size \in [Value -> Nat] /\ Size[Pruned] = 0

VARIABLES
    db,          \* the coins on disk; Pruned where there is no record
    dbBest,      \* DB_BEST_BLOCK
    tip,         \* cacheCoins of pcoinsTip, see Cache
    tipBest,     \* its hashBlock
    tipUsage,    \* its cachedCoinsUsage
    view,        \* the cache of the block at hand
    viewBest,
    viewUsage,
    stage        \* none: no such cache; open; sealed: SetBestBlock was called

vars == <<db, dbBest, tip, tipBest, tipUsage, view, viewBest, viewUsage, stage>>

\* the entries, their contents, and which of them are DIRTY and FRESH
Cache == [in : SUBSET Tx, coins : [Tx -> Value], dirty : SUBSET Tx, fresh : SUBSET Tx]

NoEntries == [in |-> {}, coins |-> [x \in Tx |-> Pruned], dirty |-> {}, fresh |-> {}]

TypeOK ==
    /\ db \in [Tx -> Value] /\ tip \in Cache /\ view \in Cache
    /\ {dbBest, tipBest, viewBest} \subseteq BlockHash \cup {NoHash}
    /\ \A c \in {tip, view} : /\ c.dirty \subseteq c.in /\ c.fresh \subseteq c.in
                              /\ \A x \in Tx \ c.in : c.coins[x] = Pruned
    /\ stage \in {"none", "open", "sealed"}
    /\ stage = "none" => view = NoEntries

Init ==
    /\ db = [x \in Tx |-> Pruned] /\ dbBest = NoHash
    /\ tip = NoEntries /\ tipBest = NoHash /\ tipUsage = 0
    /\ view = NoEntries /\ viewBest = NoHash /\ viewUsage = 0
    /\ stage = "none"

----------------------------------------------------------------------------
(* One cache. *)

\* what a cache answers on top of base
Seen(c, base) == [x \in Tx |-> IF x \in c.in THEN c.coins[x] ELSE base[x]]

TipValue  == Seen(tip, db)
ViewValue == Seen(view, TipValue)

\* GetBestBlock: an unset hashBlock is asked from the base
TipBest == IF tipBest = NoHash THEN dbBest ELSE tipBest

Usage(coins, S) == MapThenSumSet(LAMBDA x : Size[coins[x]], S)

FetchAlwaysFresh(c, x, found, v) ==  \* mutant: FRESH although the base has it
    IF x \in c.in \/ ~found THEN c
    ELSE [c EXCEPT !.in = @ \cup {x}, !.coins = [@ EXCEPT ![x] = v], !.fresh = @ \cup {x}]

(***************************************************************************)
(* FetchCoins: the entry for x, copied from the base if it is not there.   *)
(* found says whether the base has one, v what it is.                      *)
(***************************************************************************)
FetchCoins(c, x, found, v) ==
    IF x \in c.in \/ ~found THEN c
    ELSE [c EXCEPT !.in = @ \cup {x},
                   !.coins = [@ EXCEPT ![x] = v],
                   !.fresh = IF v = Pruned THEN @ \cup {x} ELSE @]

NeverFresh(c, x, found, v) == x \in c.in /\ x \in c.fresh  \* mutant: new entries are not FRESH

\* whether the entry that ModifyCoins returns is FRESH
IsFresh(c, x, found, v) == IF x \in c.in THEN x \in c.fresh ELSE ~found \/ v = Pruned

\* ModifyCoins and ~CCoinsModifier, when the caller leaves w in the entry
ModifyCoins(c, x, found, v, w) ==
    IF IsFresh(c, x, found, v) /\ w = Pruned
    THEN [in |-> c.in \ {x}, coins |-> [c.coins EXCEPT ![x] = Pruned],
          dirty |-> c.dirty \ {x}, fresh |-> c.fresh \ {x}]
    ELSE [in |-> c.in \cup {x}, coins |-> [c.coins EXCEPT ![x] = w], dirty |-> c.dirty \cup {x},
          fresh |-> IF IsFresh(c, x, found, v) THEN c.fresh \cup {x} ELSE c.fresh]

(***************************************************************************)
(* CCoinsViewCache::BatchWrite: the dirty entries of child are written     *)
(* into the cache parent.                                                  *)
(***************************************************************************)
Added(parent, child) == {x \in child.dirty \ parent.in : child.coins[x] # Pruned}

Removed(parent, child) == {x \in child.dirty \cap parent.fresh : child.coins[x] = Pruned}
Changed(parent, child) == (child.dirty \cap parent.in) \ Removed(parent, child)

BatchWrite(parent, child) ==
    LET written == Added(parent, child) \cup Changed(parent, child)
        removed == Removed(parent, child)
    IN  [in    |-> (parent.in \cup written) \ removed,
         coins |-> [x \in Tx |-> IF x \in written THEN child.coins[x]
                                 ELSE IF x \in removed THEN Pruned ELSE parent.coins[x]],
         dirty |-> (parent.dirty \cup written) \ removed,
         fresh |-> (parent.fresh \cup Added(parent, child)) \ removed]

BatchUsageKeepsRemoved(parent, child) ==  \* mutant: what is erased stays accounted for
    Usage(child.coins, Added(parent, child) \cup Changed(parent, child))
      - Usage(parent.coins, Changed(parent, child))

\* what BatchWrite adds to the parent's cachedCoinsUsage
BatchUsage(parent, child) ==
    Usage(child.coins, Added(parent, child) \cup Changed(parent, child))
      - Usage(parent.coins, Changed(parent, child) \cup Removed(parent, child))

----------------------------------------------------------------------------
(* The operations. *)

\* GetCoins on pcoinsTip, for x
TipFetched(x)      == FetchCoins(tip, x, db[x] # Pruned, db[x])
TipFetchUsage(x)   == IF x \in tip.in THEN 0 ELSE Size[db[x]]

\* the mempool, the RPC server and others read through pcoinsTip
ReadTip(x) ==
    /\ stage = "none"
    /\ tip' = TipFetched(x)
    /\ tipUsage' = tipUsage + TipFetchUsage(x)
    /\ UNCHANGED <<db, dbBest, tipBest, view, viewBest, viewUsage, stage>>

OpenUnasked ==  \* mutant: GetBestBlock does not ask the base
    /\ stage = "none"
    /\ stage' = "open"
    /\ viewBest' = tipBest
    /\ UNCHANGED <<db, dbBest, tip, tipBest, tipUsage, view, viewUsage>>

\* ConnectTip, DisconnectTip: a new cache; its best block is asked for at once
OpenView ==
    /\ stage = "none"
    /\ stage' = "open"
    /\ tipBest' = TipBest /\ viewBest' = TipBest
    /\ UNCHANGED <<db, dbBest, tip, tipUsage, view, viewUsage>>

\* GetCoins, AccessCoins, HaveCoins through the view
ReadView(x) ==
    /\ stage = "open" /\ x \notin view.in
    /\ tip' = TipFetched(x)
    /\ tipUsage' = tipUsage + TipFetchUsage(x)
    /\ view' = FetchCoins(view, x, x \in tip'.in, tip'.coins[x])
    /\ viewUsage' = viewUsage + Size[tip'.coins[x]]
    /\ UNCHANGED <<db, dbBest, tipBest, viewBest, stage>>

\* UpdateCoins, ApplyTxInUndo, DisconnectBlock change an entry to w
ModifyView(x, w) ==
    LET base == IF x \in view.in THEN tip ELSE TipFetched(x)
    IN
    /\ stage = "open"
    /\ tip' = base
    /\ tipUsage' = tipUsage + (IF x \in view.in THEN 0 ELSE TipFetchUsage(x))
    /\ view' = ModifyCoins(view, x, x \in base.in, base.coins[x], w)
    /\ viewUsage' = viewUsage - Size[view.coins[x]] + Size[view'.coins[x]]
    /\ UNCHANGED <<db, dbBest, tipBest, viewBest, stage>>

\* the end of ConnectBlock or DisconnectBlock: all changes have been made
SetBestBlock(h) ==
    /\ stage = "open" /\ h # viewBest
    /\ ViewValue = UtxoAt[h]
    /\ stage' = "sealed" /\ viewBest' = h
    /\ UNCHANGED <<db, dbBest, tip, tipBest, tipUsage, view, viewUsage>>

\* view.Flush()
FlushView ==
    /\ stage = "sealed"
    /\ stage' = "none"
    /\ tip' = BatchWrite(tip, view) /\ tipBest' = viewBest
    /\ tipUsage' = tipUsage + BatchUsage(tip, view)
    /\ view' = NoEntries /\ viewBest' = NoHash /\ viewUsage' = 0
    /\ UNCHANGED <<db, dbBest>>

\* the block is invalid, or was only to be tested
DropView ==
    /\ stage = "open"
    /\ stage' = "none" /\ view' = NoEntries /\ viewBest' = NoHash /\ viewUsage' = 0
    /\ UNCHANGED <<db, dbBest, tip, tipBest, tipUsage>>

WriteUnspentOnly == [x \in Tx |-> IF x \in tip.dirty /\ tip.coins[x] # Pruned  \* mutant: no Erase
                                  THEN tip.coins[x] ELSE db[x]]

\* CCoinsViewDB::BatchWrite, one atomic LevelDB batch
DbBatchWrite == [x \in Tx |-> IF x \in tip.dirty THEN tip.coins[x] ELSE db[x]]

\* pcoinsTip->Flush() in FlushStateToDisk; Shutdown calls it too
FlushTip ==
    /\ stage = "none"
    /\ db' = DbBatchWrite
    /\ dbBest' = TipBest
    /\ tip' = NoEntries /\ tipUsage' = 0
    /\ UNCHANGED <<tipBest, view, viewBest, viewUsage, stage>>

\* the process ends, by a crash or a shutdown, and comes back
Crash ==
    /\ tip' = NoEntries /\ tipBest' = NoHash /\ tipUsage' = 0
    /\ view' = NoEntries /\ viewBest' = NoHash /\ viewUsage' = 0
    /\ stage' = "none"
    /\ UNCHANGED <<db, dbBest>>

Next ==
    \/ \E x \in Tx : ReadTip(x) \/ ReadView(x)
    \/ \E x \in Tx, w \in Value : ModifyView(x, w)
    \/ \E h \in BlockHash : SetBestBlock(h)
    \/ OpenView \/ FlushView \/ DropView \/ FlushTip \/ Crash

Spec == Init /\ [][Next]_vars

----------------------------------------------------------------------------
(* Properties *)

(***************************************************************************)
(* The comments on the flags, coins.h: an entry that is not DIRTY is the   *)
(* same as in the parent view, and of a FRESH entry "the parent view does  *)
(* not have this entry (or it is pruned)", through fetches, modifications  *)
(* and flushes on both levels.                                             *)
(***************************************************************************)
FlagsSound ==
    /\ \A x \in tip.in \ tip.dirty : tip.coins[x] = db[x]
    /\ \A x \in tip.fresh : db[x] = Pruned
    /\ \A x \in view.in \ view.dirty : view.coins[x] = TipValue[x]
    /\ \A x \in view.fresh : TipValue[x] = Pruned

(***************************************************************************)
(* The assertion in BatchWrite: an unspent entry that the parent cache     *)
(* does not have is FRESH, "if the grandparent did have it, we would have  *)
(* pulled it in".                                                          *)
(***************************************************************************)
BatchWriteAssert == Added(tip, view) \subseteq view.fresh

(***************************************************************************)
(* "the block hash whose state this CCoinsView currently represents": the  *)
(* coins on disk and the coins of pcoinsTip are the ones after their best  *)
(* block, across flushes, abandoned blocks and crashes.                    *)
(***************************************************************************)
CoinsMatchBest ==
    /\ db = UtxoAt[dbBest]
    /\ TipValue = UtxoAt[TipBest]

(***************************************************************************)
(* cachedCoinsUsage, which decides when the cache is flushed and is an     *)
(* unsigned number that is added to and subtracted from in five places, is *)
(* the memory of the entries that are cached.                              *)
(***************************************************************************)
UsageExact ==
    /\ tipUsage = Usage(tip.coins, tip.in)
    /\ viewUsage = Usage(view.coins, view.in)

(***************************************************************************)
(* What ~CCoinsModifier leaves, an entry or none at all, is what the view  *)
(* shows from then on, and no other coin of it changes: an entry that is   *)
(* erased because it is FRESH and spent uncovers nothing unspent below.    *)
(***************************************************************************)
ModifyTakesEffect ==
    [][\A x \in Tx, w \in Value :
          ModifyView(x, w) => ViewValue' = [ViewValue EXCEPT ![x] = w]]_vars

(***************************************************************************)
(* The stack of caches behaves as three plain maps: nothing that a flag    *)
(* lets a flush skip or drop is ever missed.                               *)
(***************************************************************************)
Store == INSTANCE CoinsStore WITH
    durable <- [coins |-> db, best |-> dbBest],
    current <- [coins |-> TipValue, best |-> TipBest],
    pending <- [coins |-> ViewValue, best |-> IF stage = "none" THEN TipBest ELSE viewBest]

ImplementsStore == Store!StoreSpec
===============================================================================
