--------------------------- MODULE CoinsCacheProofs ---------------------------
(***************************************************************************)
(* Proofs about CoinsCache, for every set of transactions, coins and       *)
(* blocks.  The invariant that makes the flags inductive is ViewBacked:    *)
(* while a view is open, whatever it holds and does not call FRESH is also *)
(* in pcoinsTip, because it was fetched through pcoinsTip and pcoinsTip    *)
(* drops nothing until the view is gone.                                   *)
(***************************************************************************)
EXTENDS CoinsCache, FiniteSetTheorems, WellFoundedInduction, TLAPS

WellFormed(c) ==
    /\ c \in Cache
    /\ c.dirty \subseteq c.in /\ c.fresh \subseteq c.in
    /\ \A x \in Tx \ c.in : c.coins[x] = Pruned

\* What a non-fresh entry of the view was copied from is still in pcoinsTip.
ViewBacked == view.in \ view.fresh \subseteq tip.in

\* A sealed view belongs to a real block, the one whose coins it shows.
SealedMatches == stage = "sealed" => /\ viewBest \in BlockHash
                                     /\ ViewValue = UtxoAt[viewBest]

IInv == TypeOK /\ FlagsSound /\ ViewBacked

MatchInv == IInv /\ SealedMatches /\ CoinsMatchBest

----------------------------------------------------------------------------
(* The operators on one cache *)

LEMMA NoEntriesWF == WellFormed(NoEntries)
  BY CoinsAssumption DEF WellFormed, NoEntries, Cache, Value

\* FetchCoins adds a clean copy of what the base has, and changes no answer.
LEMMA FetchFacts ==
  ASSUME NEW c, WellFormed(c), NEW x \in Tx, NEW found \in BOOLEAN, NEW v \in Value
  PROVE  LET d == FetchCoins(c, x, found, v) IN
         /\ WellFormed(d)
         /\ d.in = IF found THEN c.in \cup {x} ELSE c.in
         /\ d.dirty = c.dirty
         /\ d.fresh = IF x \notin c.in /\ found /\ v = Pruned THEN c.fresh \cup {x} ELSE c.fresh
         /\ \A y \in Tx : d.coins[y] = IF y = x /\ x \notin c.in /\ found THEN v ELSE c.coins[y]
  BY DEF FetchCoins, WellFormed, Cache, Value

\* BatchWrite on well-formed caches gives a well-formed cache.
LEMMA BatchWF ==
  ASSUME NEW p, NEW c, WellFormed(p), WellFormed(c)
  PROVE  WellFormed(BatchWrite(p, c))
  BY CoinsAssumption DEF BatchWrite, WellFormed, Cache, Value, Added, Removed, Changed

\* TypeOK in terms of WellFormed.
LEMMA TypeParts ==
  TypeOK <=> /\ db \in [Tx -> Value] /\ WellFormed(tip) /\ WellFormed(view)
             /\ dbBest \in BlockHash \cup {NoHash} /\ tipBest \in BlockHash \cup {NoHash}
             /\ viewBest \in BlockHash \cup {NoHash}
             /\ stage \in {"none", "open", "sealed"}
             /\ (stage = "none" => view = NoEntries)
  BY DEF TypeOK, WellFormed

LEMMA TypePartsNext ==
  TypeOK' <=> /\ db' \in [Tx -> Value] /\ WellFormed(tip') /\ WellFormed(view')
             /\ dbBest' \in BlockHash \cup {NoHash} /\ tipBest' \in BlockHash \cup {NoHash}
             /\ viewBest' \in BlockHash \cup {NoHash}
             /\ stage' \in {"none", "open", "sealed"}
             /\ (stage' = "none" => view' = NoEntries)
  BY DEF TypeOK, WellFormed

\* A fetch through pcoinsTip: no flag changes, no answer changes.
LEMMA TipFetchFacts ==
  ASSUME TypeOK, FlagsSound, NEW x \in Tx
  PROVE  /\ WellFormed(TipFetched(x))
         /\ TipFetched(x).in = IF db[x] # Pruned THEN tip.in \cup {x} ELSE tip.in
         /\ TipFetched(x).dirty = tip.dirty /\ TipFetched(x).fresh = tip.fresh
         /\ \A y \in Tx : TipFetched(x).coins[y] =
                IF y = x /\ x \notin tip.in /\ db[x] # Pruned THEN db[x] ELSE tip.coins[y]
         /\ Seen(TipFetched(x), db) = TipValue
         /\ TipFetched(x).coins[x] = TipValue[x]
<1>1. /\ WellFormed(tip) /\ db[x] \in Value /\ (db[x] # Pruned) \in BOOLEAN
  BY TypeParts
<1> DEFINE d == FetchCoins(tip, x, db[x] # Pruned, db[x])
<1>2. /\ WellFormed(d)
      /\ d.in = IF db[x] # Pruned THEN tip.in \cup {x} ELSE tip.in
      /\ d.dirty = tip.dirty
      /\ d.fresh = tip.fresh
      /\ \A y \in Tx : d.coins[y] =
                IF y = x /\ x \notin tip.in /\ db[x] # Pruned THEN db[x] ELSE tip.coins[y]
  <2>1. \A found \in BOOLEAN, v \in Value :
         LET e == FetchCoins(tip, x, found, v) IN
         /\ WellFormed(e)
         /\ e.in = IF found THEN tip.in \cup {x} ELSE tip.in
         /\ e.dirty = tip.dirty
         /\ e.fresh = IF x \notin tip.in /\ found /\ v = Pruned THEN tip.fresh \cup {x} ELSE tip.fresh
         /\ \A y \in Tx : e.coins[y] = IF y = x /\ x \notin tip.in /\ found THEN v ELSE tip.coins[y]
    BY <1>1, FetchFacts
  <2> QED BY <1>1, <2>1
<1> HIDE DEF d
<1>3. d = TipFetched(x)
  BY DEF d, TipFetched
<1>4. Seen(d, db) = TipValue /\ d.coins[x] = TipValue[x]
  BY <1>1, <1>2, TypeParts DEF Seen, TipValue, WellFormed
<1> QED BY <1>2, <1>3, <1>4

\* What a view is told about x by pcoinsTip is what pcoinsTip answers.
LEMMA ReadViewStep ==
  ASSUME IInv, NEW x \in Tx, ReadView(x)
  PROVE  /\ IInv' /\ TipValue' = TipValue /\ ViewValue' = ViewValue
<1> DEFINE t == TipFetched(x)
           v == FetchCoins(view, x, x \in t.in, t.coins[x])
<1>1. /\ tip' = t /\ view' = v /\ x \notin view.in /\ stage = "open"
      /\ UNCHANGED <<db, dbBest, tipBest, viewBest, stage>>
  BY DEF ReadView
<1>2. /\ WellFormed(t) /\ t.dirty = tip.dirty /\ t.fresh = tip.fresh
      /\ t.in = IF db[x] # Pruned THEN tip.in \cup {x} ELSE tip.in
      /\ Seen(t, db) = TipValue /\ t.coins[x] = TipValue[x]
      /\ \A y \in Tx : t.coins[y] =
                IF y = x /\ x \notin tip.in /\ db[x] # Pruned THEN db[x] ELSE tip.coins[y]
  BY TipFetchFacts DEF IInv
<1> HIDE DEF t
<1>3. t.coins[x] \in Value /\ WellFormed(view)
  BY <1>2, TypeParts DEF IInv, WellFormed, Cache
<1>4. /\ WellFormed(v) /\ v.dirty = view.dirty
      /\ v.in = IF x \in t.in THEN view.in \cup {x} ELSE view.in
      /\ v.fresh = IF x \in t.in /\ t.coins[x] = Pruned THEN view.fresh \cup {x} ELSE view.fresh
      /\ \A y \in Tx : v.coins[y] = IF y = x /\ x \in t.in THEN t.coins[x] ELSE view.coins[y]
  BY <1>1, <1>3 DEF v, FetchCoins, WellFormed, Cache, Value
<1> HIDE DEF v
<1>5. TypeOK'
  BY <1>1, <1>2, <1>4, TypeParts, TypePartsNext DEF IInv
<1>6. TipValue' = TipValue
  BY <1>1, <1>2 DEF TipValue, Seen
<1>7. FlagsSound'
  <2>1. \A y \in t.in \ t.dirty : t.coins[y] = db[y]
    BY <1>2, TypeParts DEF IInv, FlagsSound, WellFormed, Cache
  <2>2. \A y \in t.fresh : db[y] = Pruned
    BY <1>2 DEF IInv, FlagsSound
  <2>3. \A y \in v.in \ v.dirty : v.coins[y] = TipValue[y]
    BY <1>2, <1>4, <1>3 DEF IInv, FlagsSound, WellFormed, Cache
  <2>4. \A y \in v.fresh : TipValue[y] = Pruned
    BY <1>2, <1>4 DEF IInv, FlagsSound
  <2> QED BY <1>1, <1>6, <2>1, <2>2, <2>3, <2>4 DEF FlagsSound
<1>8. ViewBacked'
  BY <1>1, <1>2, <1>4 DEF IInv, ViewBacked
<1>9. ViewValue' = ViewValue
  BY <1>1, <1>2, <1>4, <1>6 DEF ViewValue, Seen
<1> QED BY <1>1, <1>5, <1>6, <1>7, <1>8, <1>9 DEF IInv

\* A modification changes what the view shows for x, and nothing else.
LEMMA ModifyViewStep ==
  ASSUME IInv, NEW x \in Tx, NEW w \in Value, ModifyView(x, w)
  PROVE  /\ IInv' /\ TipValue' = TipValue
         /\ ViewValue' = [ViewValue EXCEPT ![x] = w]
<1> DEFINE t == IF x \in view.in THEN tip ELSE TipFetched(x)
           v == ModifyCoins(view, x, x \in t.in, t.coins[x], w)
           f == IsFresh(view, x, x \in t.in, t.coins[x])
<1>1. /\ tip' = t /\ view' = v /\ stage = "open"
      /\ UNCHANGED <<db, dbBest, tipBest, viewBest, stage>>
  BY DEF ModifyView
<1>2. /\ WellFormed(t) /\ t.dirty = tip.dirty /\ t.fresh = tip.fresh
      /\ tip.in \subseteq t.in
      /\ Seen(t, db) = TipValue
      /\ \A y \in t.in : t.coins[y] = TipValue[y]
      /\ (x \notin t.in => TipValue[x] = Pruned \/ x \in view.in)
  <2>1. CASE x \in view.in
    BY <2>1, TypeParts DEF IInv, TipValue, Seen, WellFormed, Cache
  <2>2. CASE x \notin view.in
    <3>1. t = TipFetched(x)
      BY <2>2
    <3> HIDE DEF t
    <3>2. \A y \in t.in : t.coins[y] = TipValue[y]
      <4>1. Seen(t, db) = TipValue /\ WellFormed(t)
        BY <3>1, TipFetchFacts DEF IInv
      <4> QED BY <4>1 DEF Seen, WellFormed, Cache
    <3>3. x \notin t.in => TipValue[x] = Pruned
      BY <3>1, TipFetchFacts, TypeParts DEF IInv, TipValue, Seen, WellFormed, Cache
    <3> QED BY <3>1, <3>2, <3>3, TipFetchFacts DEF IInv
  <2> QED BY <2>1, <2>2
<1> HIDE DEF t
<1>3. t.coins[x] \in Value /\ WellFormed(view)
  BY <1>2, TypeParts DEF IInv, WellFormed, Cache
<1>4. /\ WellFormed(v)
      /\ v.in = IF f /\ w = Pruned THEN view.in \ {x} ELSE view.in \cup {x}
      /\ v.dirty = IF f /\ w = Pruned THEN view.dirty \ {x} ELSE view.dirty \cup {x}
      /\ v.fresh = IF f /\ w = Pruned THEN view.fresh \ {x}
                   ELSE IF f THEN view.fresh \cup {x} ELSE view.fresh
      /\ \A y \in Tx : v.coins[y] = IF y = x THEN w ELSE view.coins[y]
  <2>1. f => (x \notin view.in \/ x \in view.fresh)
    BY DEF IsFresh
  <2>2. v = IF f /\ w = Pruned
            THEN [in |-> view.in \ {x}, coins |-> [view.coins EXCEPT ![x] = Pruned],
                  dirty |-> view.dirty \ {x}, fresh |-> view.fresh \ {x}]
            ELSE [in |-> view.in \cup {x}, coins |-> [view.coins EXCEPT ![x] = w],
                  dirty |-> view.dirty \cup {x},
                  fresh |-> IF f THEN view.fresh \cup {x} ELSE view.fresh]
    BY DEF ModifyCoins
  <2> HIDE DEF v, f
  <2>3. CASE f /\ w = Pruned
    BY <1>3, <2>2, <2>3 DEF WellFormed, Cache, Value
  <2>4. CASE ~(f /\ w = Pruned)
    BY <1>3, <2>1, <2>2, <2>4 DEF WellFormed, Cache, Value
  <2> QED BY <2>3, <2>4
<1>5. /\ f => TipValue[x] = Pruned
      /\ ~f => x \in t.in /\ x \notin view.fresh
  BY <1>2, <1>3, TypeParts DEF IsFresh, IInv, FlagsSound, ViewBacked, WellFormed, Cache
<1> HIDE DEF v, f
<1>6. TypeOK'
  BY <1>1, <1>2, <1>4, TypeParts, TypePartsNext DEF IInv
<1>7. TipValue' = TipValue
  BY <1>1, <1>2 DEF TipValue, Seen
<1>8. FlagsSound'
  <2>1. \A y \in t.in \ t.dirty : t.coins[y] = db[y]
    BY <1>2, TypeParts DEF IInv, FlagsSound, WellFormed, Cache, TipValue, Seen
  <2>2. \A y \in t.fresh : db[y] = Pruned
    BY <1>2 DEF IInv, FlagsSound
  <2>3. \A y \in v.in \ v.dirty : v.coins[y] = TipValue[y]
    BY <1>4, <1>3 DEF IInv, FlagsSound, WellFormed, Cache
  <2>4. \A y \in v.fresh : TipValue[y] = Pruned
    BY <1>4, <1>5 DEF IInv, FlagsSound
  <2> QED BY <1>1, <1>7, <2>1, <2>2, <2>3, <2>4 DEF FlagsSound
<1>9. ViewBacked'
  BY <1>1, <1>2, <1>4, <1>5 DEF IInv, ViewBacked
<1>10. ViewValue' = [ViewValue EXCEPT ![x] = w]
  BY <1>1, <1>3, <1>4, <1>5, <1>7 DEF ViewValue, Seen
<1> QED BY <1>1, <1>6, <1>7, <1>8, <1>9, <1>10 DEF IInv

\* Reads through pcoinsTip change no answer.
LEMMA ReadTipStep ==
  ASSUME IInv, NEW x \in Tx, ReadTip(x)
  PROVE  IInv' /\ TipValue' = TipValue /\ ViewValue' = ViewValue
<1> DEFINE t == TipFetched(x)
<1>1. /\ tip' = t /\ stage = "none"
      /\ UNCHANGED <<db, dbBest, tipBest, view, viewBest, stage>>
  BY DEF ReadTip
<1>2. /\ WellFormed(t) /\ t.dirty = tip.dirty /\ t.fresh = tip.fresh
      /\ t.in = IF db[x] # Pruned THEN tip.in \cup {x} ELSE tip.in
      /\ Seen(t, db) = TipValue
      /\ \A y \in Tx : t.coins[y] =
                IF y = x /\ x \notin tip.in /\ db[x] # Pruned THEN db[x] ELSE tip.coins[y]
  BY TipFetchFacts DEF IInv
<1> HIDE DEF t
<1>3. TypeOK'
  BY <1>1, <1>2, TypeParts, TypePartsNext DEF IInv
<1>4. TipValue' = TipValue
  BY <1>1, <1>2 DEF TipValue, Seen
<1>5. ViewValue' = ViewValue
  BY <1>1, <1>4 DEF ViewValue, Seen
<1>6. FlagsSound'
  <2>1. \A y \in t.in \ t.dirty : t.coins[y] = db[y]
    BY <1>2, TypeParts DEF IInv, FlagsSound, WellFormed, Cache
  <2>2. \A y \in t.fresh : db[y] = Pruned
    BY <1>2 DEF IInv, FlagsSound
  <2> QED BY <1>1, <1>4, <2>1, <2>2 DEF IInv, FlagsSound
<1>7. ViewBacked'
  BY <1>1, <1>2 DEF IInv, ViewBacked
<1> QED BY <1>1, <1>3, <1>4, <1>5, <1>6, <1>7 DEF IInv

\* The view's entries move into pcoinsTip, which then shows what the view showed.
LEMMA FlushViewStep ==
  ASSUME IInv, FlushView
  PROVE  IInv' /\ TipValue' = ViewValue /\ ViewValue' = ViewValue
<1> DEFINE t == BatchWrite(tip, view)
<1>1. /\ tip' = t /\ view' = NoEntries /\ stage' = "none"
      /\ tipBest' = viewBest /\ viewBest' = NoHash
      /\ UNCHANGED <<db, dbBest>>
  BY DEF FlushView
<1>2. WellFormed(t) /\ WellFormed(tip) /\ WellFormed(view)
  BY BatchWF, TypeParts DEF IInv
<1>3. /\ t.in = (tip.in \cup Added(tip, view) \cup Changed(tip, view)) \ Removed(tip, view)
      /\ t.dirty = (tip.dirty \cup Added(tip, view) \cup Changed(tip, view)) \ Removed(tip, view)
      /\ t.fresh = (tip.fresh \cup Added(tip, view)) \ Removed(tip, view)
      /\ \A x \in Tx : t.coins[x] = IF x \in Added(tip, view) \cup Changed(tip, view) THEN view.coins[x]
                                    ELSE IF x \in Removed(tip, view) THEN Pruned ELSE tip.coins[x]
  BY DEF BatchWrite
<1> HIDE DEF t
<1>4. TypeOK'
  BY <1>1, <1>2, NoEntriesWF, TypeParts, TypePartsNext DEF IInv
<1>5. \A x \in view.dirty \ tip.in : db[x] = Pruned
  BY <1>2 DEF IInv, FlagsSound, ViewBacked, WellFormed, Cache, TipValue, Seen
<1>6. \A x \in Tx : (IF x \in t.in THEN t.coins[x] ELSE db[x]) = ViewValue[x]
  <2> SUFFICES ASSUME NEW x \in Tx
               PROVE  (IF x \in t.in THEN t.coins[x] ELSE db[x]) = ViewValue[x]
    OBVIOUS
  <2>1. CASE x \notin view.dirty
    BY <1>2, <1>3, <2>1 DEF Added, Changed, Removed, ViewValue, TipValue, Seen, IInv, FlagsSound, WellFormed
  <2>2. CASE x \in view.dirty /\ x \notin tip.in
    BY <1>2, <1>3, <1>5, <2>2 DEF Added, Changed, Removed, ViewValue, TipValue, Seen, WellFormed
  <2>3. CASE x \in view.dirty /\ x \in tip.in
    BY <1>2, <1>3, <2>3 DEF Added, Changed, Removed, ViewValue, TipValue, Seen, IInv, FlagsSound, WellFormed
  <2> QED BY <2>1, <2>2, <2>3
<1>7. TipValue' = ViewValue
  BY <1>1, <1>6 DEF TipValue, ViewValue, Seen
<1>8. ViewValue' = ViewValue
  BY <1>1, <1>7 DEF ViewValue, Seen, NoEntries
<1>9. FlagsSound'
  <2>1. \A x \in t.in \ t.dirty : t.coins[x] = db[x]
    BY <1>2, <1>3 DEF IInv, FlagsSound, WellFormed, Cache, Added, Changed, Removed
  <2>2. \A x \in t.fresh : db[x] = Pruned
    BY <1>3, <1>5 DEF IInv, FlagsSound, Added
  <2> QED BY <1>1, <2>1, <2>2 DEF FlagsSound, NoEntries
<1>10. ViewBacked'
  BY <1>1 DEF ViewBacked, NoEntries
<1> QED BY <1>1, <1>4, <1>7, <1>8, <1>9, <1>10 DEF IInv

\* The flush of pcoinsTip puts on disk what pcoinsTip showed.
LEMMA FlushTipStep ==
  ASSUME IInv, FlushTip
  PROVE  /\ IInv' /\ db' = TipValue /\ TipValue' = TipValue /\ ViewValue' = ViewValue
         /\ ViewValue = TipValue
<1>1. /\ db' = DbBatchWrite /\ dbBest' = TipBest /\ tip' = NoEntries
      /\ stage = "none" /\ UNCHANGED <<tipBest, view, viewBest, stage>>
      /\ view = NoEntries
  BY TypeParts DEF FlushTip, IInv
<1>2. db' = TipValue
  BY <1>1, TypeParts DEF DbBatchWrite, TipValue, Seen, IInv, FlagsSound, WellFormed, Cache
<1>3. TipValue \in [Tx -> Value]
  BY TypeParts DEF IInv, TipValue, Seen, WellFormed, Cache
<1>4. /\ TipValue' = TipValue /\ ViewValue' = ViewValue /\ ViewValue = TipValue
  BY <1>1, <1>2, <1>3 DEF TipValue, ViewValue, Seen, NoEntries
<1>5. TypeOK'
  BY <1>1, <1>2, <1>3, NoEntriesWF, TypeParts, TypePartsNext DEF IInv, TipBest
<1>6. FlagsSound' /\ ViewBacked'
  BY <1>1 DEF FlagsSound, ViewBacked, NoEntries
<1> QED BY <1>1, <1>2, <1>4, <1>5, <1>6 DEF IInv

\* A dropped view leaves pcoinsTip as it is.
LEMMA DropViewStep ==
  ASSUME IInv, DropView
  PROVE  IInv' /\ TipValue' = TipValue /\ ViewValue' = TipValue
<1>1. /\ view' = NoEntries /\ viewBest' = NoHash /\ stage' = "none"
      /\ UNCHANGED <<db, dbBest, tip, tipBest>>
  BY DEF DropView
<1>2. TypeOK'
  BY <1>1, NoEntriesWF, TypeParts, TypePartsNext DEF IInv
<1>3. TipValue' = TipValue /\ ViewValue' = TipValue
  BY <1>1 DEF TipValue, ViewValue, Seen, NoEntries
<1>4. FlagsSound' /\ ViewBacked'
  BY <1>1 DEF IInv, FlagsSound, ViewBacked, NoEntries, TipValue, Seen
<1> QED BY <1>1, <1>2, <1>3, <1>4 DEF IInv

\* After a crash every cache is empty.
LEMMA CrashStep ==
  ASSUME IInv, Crash
  PROVE  IInv' /\ TipValue' = db /\ ViewValue' = db
<1>1. /\ view' = NoEntries /\ viewBest' = NoHash /\ stage' = "none"
      /\ tip' = NoEntries /\ tipBest' = NoHash
      /\ UNCHANGED <<db, dbBest>>
  BY DEF Crash
<1>2. TypeOK'
  BY <1>1, NoEntriesWF, TypeParts, TypePartsNext DEF IInv
<1>3. TipValue' = db /\ ViewValue' = db
  BY <1>1, TypeParts DEF IInv, TipValue, ViewValue, Seen, NoEntries
<1>4. FlagsSound' /\ ViewBacked'
  BY <1>1 DEF FlagsSound, ViewBacked, NoEntries
<1> QED BY <1>1, <1>2, <1>3, <1>4 DEF IInv

\* Opening and sealing a view touch no entry.
LEMMA BestStep ==
  ASSUME IInv, OpenView \/ \E h \in BlockHash : SetBestBlock(h)
  PROVE  IInv' /\ TipValue' = TipValue /\ ViewValue' = ViewValue
<1>1. /\ UNCHANGED <<db, dbBest, tip, view>>
      /\ stage' \in {"open", "sealed"}
      /\ {tipBest', viewBest'} \subseteq BlockHash \cup {NoHash}
  BY TypeParts DEF OpenView, SetBestBlock, IInv, TipBest
<1>2. TypeOK'
  BY <1>1, TypeParts, TypePartsNext DEF IInv
<1>3. TipValue' = TipValue /\ ViewValue' = ViewValue
  BY <1>1 DEF TipValue, ViewValue, Seen
<1>4. FlagsSound' /\ ViewBacked'
  BY <1>1, <1>3 DEF IInv, FlagsSound, ViewBacked
<1> QED BY <1>1, <1>2, <1>3, <1>4 DEF IInv

----------------------------------------------------------------------------
(* The invariants *)

LEMMA InitIInv == Init => IInv
<1> SUFFICES ASSUME Init PROVE IInv
  OBVIOUS
<1>1. TypeOK
  BY NoEntriesWF, CoinsAssumption, TypeParts DEF Init, Value
<1> QED BY <1>1 DEF Init, IInv, FlagsSound, ViewBacked, NoEntries

LEMMA NextIInv == IInv /\ [Next]_vars => IInv'
<1> SUFFICES ASSUME IInv, [Next]_vars PROVE IInv'
  OBVIOUS
<1>1. CASE \E x \in Tx : ReadTip(x)
  BY <1>1, ReadTipStep
<1>2. CASE \E x \in Tx : ReadView(x)
  BY <1>2, ReadViewStep
<1>3. CASE \E x \in Tx, w \in Value : ModifyView(x, w)
  BY <1>3, ModifyViewStep
<1>4. CASE OpenView \/ \E h \in BlockHash : SetBestBlock(h)
  BY <1>4, BestStep
<1>5. CASE FlushView
  BY <1>5, FlushViewStep
<1>6. CASE DropView
  BY <1>6, DropViewStep
<1>7. CASE FlushTip
  BY <1>7, FlushTipStep
<1>9. CASE Crash
  BY <1>9, CrashStep
<1>10. CASE UNCHANGED vars
  BY <1>10 DEF vars, IInv, TypeOK, FlagsSound, ViewBacked, TipValue, Seen
<1> QED BY <1>1, <1>2, <1>3, <1>4, <1>5, <1>6, <1>7, <1>9, <1>10 DEF Next

(***************************************************************************)
(* The inductive invariant of the two caches.                              *)
(***************************************************************************)
THEOREM CoinsInvariant == Spec => []IInv
  BY InitIInv, NextIInv, PTL DEF Spec

(***************************************************************************)
(* TypeOK: entries, flags and best blocks keep their types, and flags      *)
(* exist only for entries that are cached.                                 *)
(***************************************************************************)
THEOREM CoinsTypeOK == Spec => []TypeOK
<1>1. IInv => TypeOK
  BY DEF IInv
<1> QED BY <1>1, CoinsInvariant, PTL

(***************************************************************************)
(* FlagsSound: a clean entry equals the parent's, and a FRESH entry is one *)
(* that the parent does not have, for any number of coins and blocks.      *)
(***************************************************************************)
THEOREM CoinsFlagsSound == Spec => []FlagsSound
<1>1. IInv => FlagsSound
  BY DEF IInv
<1> QED BY <1>1, CoinsInvariant, PTL

(***************************************************************************)
(* BatchWriteAssert: the assertion in CCoinsViewCache::BatchWrite can      *)
(* never fail when a view is flushed into pcoinsTip.                       *)
(***************************************************************************)
THEOREM CoinsBatchWriteAssert == Spec => []BatchWriteAssert
<1>1. IInv => BatchWriteAssert
  BY TypeParts DEF IInv, ViewBacked, BatchWriteAssert, Added, WellFormed
<1> QED BY <1>1, CoinsInvariant, PTL

(***************************************************************************)
(* ModifyTakesEffect: what a CCoinsModifier leaves is what the view shows, *)
(* whichever flags the entry had and whatever is cached below.             *)
(***************************************************************************)
THEOREM CoinsModifyTakesEffect == Spec => ModifyTakesEffect
<1>1. IInv /\ [Next]_vars =>
         [\A x \in Tx, w \in Value :
             ModifyView(x, w) => ViewValue' = [ViewValue EXCEPT ![x] = w]]_vars
  BY ModifyViewStep
<1> QED BY <1>1, CoinsInvariant, PTL DEF Spec, ModifyTakesEffect

----------------------------------------------------------------------------
(* What the coins are *)

LEMMA NextMatch ==
  ASSUME MatchInv, [Next]_vars
  PROVE  MatchInv'
<1>1. IInv /\ IInv'
  BY NextIInv DEF MatchInv, IInv
<1>2. db = UtxoAt[dbBest] /\ TipValue = UtxoAt[TipBest]
  BY <1>1 DEF MatchInv, CoinsMatchBest
<1>3. CASE UNCHANGED <<db, dbBest, TipValue, tipBest, ViewValue, viewBest, stage>>
  BY <1>1, <1>2, <1>3 DEF MatchInv, SealedMatches, CoinsMatchBest, TipBest
<1>4. CASE \E x \in Tx : ReadTip(x) \/ ReadView(x)
  <2>1. UNCHANGED <<TipValue, ViewValue>>
    BY <1>1, <1>4, ReadTipStep, ReadViewStep
  <2>2. UNCHANGED <<db, dbBest, tipBest, viewBest, stage>>
    BY <1>4 DEF ReadTip, ReadView
  <2> QED BY <1>3, <2>1, <2>2
<1>5. CASE \E x \in Tx, w \in Value : ModifyView(x, w)
  <2>1. TipValue' = TipValue
    BY <1>1, <1>5, ModifyViewStep
  <2>2. UNCHANGED <<db, dbBest, tipBest>> /\ stage' # "sealed"
    BY <1>5 DEF ModifyView
  <2> QED BY <1>1, <1>2, <2>1, <2>2 DEF MatchInv, SealedMatches, CoinsMatchBest, TipBest
<1>6. CASE OpenView
  <2>1. TipValue' = TipValue
    BY <1>1, <1>6, BestStep
  <2>2. UNCHANGED <<db, dbBest>> /\ stage' # "sealed" /\ tipBest' = TipBest
    BY <1>6 DEF OpenView
  <2> QED BY <1>1, <1>2, <2>1, <2>2 DEF MatchInv, SealedMatches, CoinsMatchBest, TipBest
<1>7. CASE \E h \in BlockHash : SetBestBlock(h)
  <2>1. TipValue' = TipValue /\ ViewValue' = ViewValue
    BY <1>1, <1>7, BestStep
  <2>2. UNCHANGED <<db, dbBest, tipBest>> /\ viewBest' \in BlockHash /\ ViewValue = UtxoAt[viewBest']
    BY <1>7 DEF SetBestBlock
  <2> QED BY <1>1, <1>2, <2>1, <2>2 DEF MatchInv, SealedMatches, CoinsMatchBest, TipBest
<1>8. CASE FlushView
  <2>1. TipValue' = ViewValue
    BY <1>1, <1>8, FlushViewStep
  <2>2. /\ UNCHANGED <<db, dbBest>> /\ stage = "sealed" /\ stage' = "none" /\ tipBest' = viewBest
    BY <1>8 DEF FlushView
  <2>3. viewBest \in BlockHash /\ viewBest # NoHash /\ ViewValue = UtxoAt[viewBest]
    BY <2>2, CoinsAssumption DEF MatchInv, SealedMatches
  <2> QED BY <1>1, <1>2, <2>1, <2>2, <2>3 DEF MatchInv, SealedMatches, CoinsMatchBest, TipBest
<1>9. CASE DropView
  <2>1. TipValue' = TipValue
    BY <1>1, <1>9, DropViewStep
  <2>2. UNCHANGED <<db, dbBest, tipBest>> /\ stage' # "sealed"
    BY <1>9 DEF DropView
  <2> QED BY <1>1, <1>2, <2>1, <2>2 DEF MatchInv, SealedMatches, CoinsMatchBest, TipBest
<1>10. CASE FlushTip
  <2>1. db' = TipValue /\ TipValue' = TipValue
    BY <1>1, <1>10, FlushTipStep
  <2>2. dbBest' = TipBest /\ tipBest' = tipBest /\ stage' # "sealed"
    BY <1>10 DEF FlushTip
  <2> QED BY <1>1, <1>2, <2>1, <2>2 DEF MatchInv, SealedMatches, CoinsMatchBest, TipBest
<1>12. CASE Crash
  <2>1. TipValue' = db
    BY <1>1, <1>12, CrashStep
  <2>2. UNCHANGED <<db, dbBest>> /\ stage' # "sealed" /\ tipBest' = NoHash
    BY <1>12 DEF Crash
  <2> QED BY <1>1, <1>2, <2>1, <2>2 DEF MatchInv, SealedMatches, CoinsMatchBest, TipBest
<1>13. CASE UNCHANGED vars
  BY <1>3, <1>13 DEF vars, TipValue, ViewValue, Seen
<1> QED BY <1>4, <1>5, <1>6, <1>7, <1>8, <1>9, <1>10, <1>12, <1>13 DEF Next

(***************************************************************************)
(* CoinsMatchBest: the coins on disk and those of pcoinsTip are the ones   *)
(* after the best block they name, at every moment at which the process    *)
(* may crash.                                                              *)
(***************************************************************************)
THEOREM CoinsBest == Spec => []CoinsMatchBest
<1>1. Init => MatchInv
  <2> SUFFICES ASSUME Init PROVE MatchInv
    OBVIOUS
  <2>1. TipValue = UtxoAt[NoHash]
    BY CoinsAssumption DEF Init, TipValue, Seen, NoEntries
  <2> QED BY <2>1, InitIInv, CoinsAssumption DEF Init, MatchInv, SealedMatches, CoinsMatchBest, TipBest
<1>2. MatchInv /\ [Next]_vars => MatchInv'
  BY NextMatch
<1>3. MatchInv => CoinsMatchBest
  BY DEF MatchInv
<1> QED BY <1>1, <1>2, <1>3, PTL DEF Spec

----------------------------------------------------------------------------
(* Refinement *)

\* Each operation on the caches is an operation of CoinsStore, or changes none
\* of its three versions.
LEMMA StoreStep ==
  ASSUME MatchInv, [Next]_vars
  PROVE  [Store!StoreNext]_(Store!storeVars)
<1>1. IInv
  BY DEF MatchInv
<1>2. stage = "none" => ViewValue = TipValue
  BY <1>1, TypeParts DEF IInv, ViewValue, TipValue, Seen, NoEntries
<1>3. CASE UNCHANGED <<db, dbBest, TipValue, tipBest, ViewValue, viewBest, stage>>
  BY <1>3 DEF Store!storeVars, TipBest
<1>4. CASE \E x \in Tx : ReadTip(x) \/ ReadView(x)
  <2>1. UNCHANGED <<TipValue, ViewValue>>
    BY <1>1, <1>4, ReadTipStep, ReadViewStep
  <2>2. UNCHANGED <<db, dbBest, tipBest, viewBest, stage>>
    BY <1>4 DEF ReadTip, ReadView
  <2> QED BY <1>3, <2>1, <2>2
<1>5. ASSUME NEW x \in Tx, NEW w \in Value, ModifyView(x, w)
      PROVE  Store!Update(x, w)
  <2>1. TipValue' = TipValue /\ ViewValue' = [ViewValue EXCEPT ![x] = w]
    BY <1>1, <1>5, ModifyViewStep
  <2>2. UNCHANGED <<db, dbBest, tipBest, viewBest, stage>> /\ stage = "open"
    BY <1>5 DEF ModifyView
  <2> QED BY <2>1, <2>2 DEF Store!Update, TipBest
<1>6. CASE OpenView
  <2>1. TipValue' = TipValue /\ ViewValue' = ViewValue
    BY <1>1, <1>6, BestStep
  <2>2. /\ UNCHANGED <<db, dbBest>> /\ stage = "none" /\ stage' = "open"
        /\ tipBest' = TipBest /\ viewBest' = TipBest
    BY <1>6 DEF OpenView
  <2>3. Store!Begin
    BY <1>2, <2>1, <2>2 DEF Store!Begin, TipBest
  <2> QED BY <2>3 DEF Store!StoreNext
<1>7. ASSUME NEW h \in BlockHash, SetBestBlock(h)
      PROVE  Store!Seal(h)
  <2>1. TipValue' = TipValue /\ ViewValue' = ViewValue
    BY <1>1, <1>7, BestStep
  <2>2. /\ UNCHANGED <<db, dbBest, tipBest>> /\ stage = "open" /\ stage' = "sealed" /\ viewBest' = h
    BY <1>7 DEF SetBestBlock
  <2> QED BY <2>1, <2>2 DEF Store!Seal, TipBest
<1>8. CASE FlushView
  <2>1. TipValue' = ViewValue /\ ViewValue' = ViewValue
    BY <1>1, <1>8, FlushViewStep
  <2>2. /\ UNCHANGED <<db, dbBest>> /\ stage = "sealed" /\ stage' = "none" /\ tipBest' = viewBest
    BY <1>8 DEF FlushView
  <2>3. viewBest # NoHash
    BY <2>2, CoinsAssumption DEF MatchInv, SealedMatches
  <2>4. Store!Commit
    BY <2>1, <2>2, <2>3 DEF Store!Commit, TipBest
  <2> QED BY <2>4 DEF Store!StoreNext
<1>9. CASE DropView
  <2>1. TipValue' = TipValue /\ ViewValue' = TipValue
    BY <1>1, <1>9, DropViewStep
  <2>2. UNCHANGED <<db, dbBest, tipBest>> /\ stage = "open" /\ stage' = "none"
    BY <1>9 DEF DropView
  <2>3. Store!Abandon
    BY <2>1, <2>2 DEF Store!Abandon, TipBest
  <2> QED BY <2>3 DEF Store!StoreNext
<1>10. CASE FlushTip
  <2>1. db' = TipValue /\ TipValue' = TipValue /\ ViewValue' = ViewValue
    BY <1>1, <1>10, FlushTipStep
  <2>2. /\ dbBest' = TipBest /\ tipBest' = tipBest /\ stage = "none"
        /\ UNCHANGED <<stage, viewBest>>
    BY <1>10 DEF FlushTip
  <2>3. Store!Persist
    BY <2>1, <2>2 DEF Store!Persist, TipBest
  <2> QED BY <2>3 DEF Store!StoreNext
<1>12. CASE Crash
  <2>1. TipValue' = db /\ ViewValue' = db
    BY <1>1, <1>12, CrashStep
  <2>2. UNCHANGED <<db, dbBest>> /\ stage' = "none" /\ tipBest' = NoHash
    BY <1>12 DEF Crash
  <2>3. Store!Restart
    BY <2>1, <2>2 DEF Store!Restart, TipBest
  <2> QED BY <2>3 DEF Store!StoreNext
<1>13. CASE UNCHANGED vars
  BY <1>3, <1>13 DEF vars, TipValue, ViewValue, Seen
<1>14. CASE \E x \in Tx, w \in Value : ModifyView(x, w)
  BY <1>5, <1>14 DEF Store!StoreNext, Store!Value, Value
<1>15. CASE \E h \in BlockHash : SetBestBlock(h)
  BY <1>7, <1>15 DEF Store!StoreNext
<1> QED BY <1>4, <1>6, <1>8, <1>9, <1>10, <1>12, <1>13, <1>14, <1>15 DEF Next

(***************************************************************************)
(* ImplementsStore: the database and its two caches with DIRTY and FRESH   *)
(* flags implement three plain maps.                                       *)
(***************************************************************************)
THEOREM CoinsRefinement == Spec => ImplementsStore
<1>1. Init => MatchInv /\ Store!StoreInit
  <2> SUFFICES ASSUME Init PROVE MatchInv /\ Store!StoreInit
    OBVIOUS
  <2>1. TipValue = UtxoAt[NoHash] /\ ViewValue = TipValue /\ TipValue = db
    BY CoinsAssumption DEF Init, TipValue, ViewValue, Seen, NoEntries
  <2>2. MatchInv
    BY <2>1, InitIInv, CoinsAssumption DEF Init, MatchInv, SealedMatches, CoinsMatchBest, TipBest
  <2>3. Store!StoreInit
    BY <2>1 DEF Init, Store!StoreInit, TipBest
  <2> QED BY <2>2, <2>3
<1>2. MatchInv /\ [Next]_vars => MatchInv' /\ [Store!StoreNext]_(Store!storeVars)
  BY NextMatch, StoreStep
<1> QED BY <1>1, <1>2, PTL DEF Spec, ImplementsStore, Store!StoreSpec

----------------------------------------------------------------------------
(* Induction, and sums over finite sets.  The library's induction theorems *)
(* take an operator, which no prover instantiates; these take a set.       *)

LEMMA LeastNat ==
    ASSUME NEW T, T \subseteq Nat, T # {}
    PROVE  \E n \in T : \A m \in T : n <= m
<1>1. PICK x \in T : \A y \in T : ~(<<y, x>> \in OpToRel(<, Nat))
  BY NatLessThanWellFounded, WFMin
<1>2. \A y \in T : y < x => <<y, x>> \in OpToRel(<, Nat)
  BY DEF OpToRel
<1>3. \A y \in T : ~(y < x)
  BY <1>1, <1>2
<1>q. QED  BY <1>3

LEMMA Induction ==
    ASSUME NEW T, 0 \in T, \A n \in Nat : n \in T => n + 1 \in T
    PROVE  Nat \subseteq T
<1> SUFFICES ASSUME Nat \ T # {} PROVE FALSE
  OBVIOUS
<1>1. PICK n \in Nat \ T : \A m \in Nat \ T : n <= m
  BY LeastNat
<1>2. n # 0
  BY <1>1
<1>3. n - 1 \in Nat /\ n - 1 \notin Nat \ T
  BY <1>1, <1>2
<1>q. QED  BY <1>1, <1>3

(***************************************************************************)
(* A recursion over the subsets of a finite set that takes one element     *)
(* away at a time has a solution.  A stands for the values it runs         *)
(* through, step for the operator that is folded.                          *)
(***************************************************************************)
Picks(pick, D) == \A s \in SUBSET D : s # {} => pick[s] \in s
Closed(step, A, D) == \A a \in A, x \in D : step[<<a, x>>] \in A
Solves(g, base, pick, step, D) ==
    \A s \in SUBSET D : g[s] = IF s = {} THEN base ELSE step[<<g[s \ {pick[s]}], pick[s]>>]

LEMMA SubsetRecursion ==
    ASSUME NEW D, IsFiniteSet(D), NEW A, NEW base \in A,
           NEW pick, Picks(pick, D), NEW step, Closed(step, A, D)
    PROVE  \E g \in [SUBSET D -> A] : Solves(g, base, pick, step, D)
<1> USE DEF Picks, Closed, Solves
<1> DEFINE Rhs(g, s) == IF s = {} THEN base ELSE step[<<g[s \ {pick[s]}], pick[s]>>]
           Good(g, m) == \A s \in SUBSET D : Cardinality(s) <= m => g[s] = Rhs(g, s)
           T == {m \in Nat : \E g \in [SUBSET D -> A] : Good(g, m)}
<1>0. \A s \in SUBSET D : IsFiniteSet(s) /\ Cardinality(s) \in Nat
  BY FS_Subset, FS_CardinalityType
<1>1. 0 \in T
  <2> DEFINE g == [s \in SUBSET D |-> base]
  <2>1. g \in [SUBSET D -> A]
    OBVIOUS
  <2>2. \A s \in SUBSET D : Cardinality(s) <= 0 => s = {}
    <3> SUFFICES ASSUME NEW s \in SUBSET D, Cardinality(s) <= 0 PROVE s = {}
      OBVIOUS
    <3>1. Cardinality(s) = 0
      BY <1>0
    <3>q. QED  BY <1>0, <3>1, FS_EmptySet
  <2>3. Good(g, 0)
    BY <2>2
  <2>q. QED  BY <2>1, <2>3
<1>2. ASSUME NEW m \in Nat, m \in T PROVE m + 1 \in T
  <2>1. PICK f \in [SUBSET D -> A] : Good(f, m)
    BY <1>2
  <2> DEFINE g == [s \in SUBSET D |-> Rhs(f, s)]
  <2>2. g \in [SUBSET D -> A]
    <3> SUFFICES ASSUME NEW s \in SUBSET D PROVE Rhs(f, s) \in A
      OBVIOUS
    <3>1. CASE s = {}
      BY <3>1
    <3>2. CASE s # {}
      <4>1. pick[s] \in D /\ s \ {pick[s]} \in SUBSET D
        BY <3>2
      <4>2. f[s \ {pick[s]}] \in A
        BY <4>1
      <4>q. QED  BY <3>2, <4>1, <4>2
    <3>q. QED  BY <3>1, <3>2
  <2>3. Good(g, m + 1)
    <3> SUFFICES ASSUME NEW s \in SUBSET D, Cardinality(s) <= m + 1, s # {}
                 PROVE  f[s \ {pick[s]}] = g[s \ {pick[s]}]
      OBVIOUS
    <3> DEFINE r == s \ {pick[s]}
    <3>1. r \in SUBSET D /\ Cardinality(r) = Cardinality(s) - 1
      BY <1>0, FS_RemoveElement
    <3>2. Cardinality(r) <= m
      BY <1>0, <3>1
    <3> HIDE DEF r
    <3>3. f[r] = Rhs(f, r)
      BY <2>1, <3>1, <3>2
    <3>4. g[r] = Rhs(f, r)
      BY <3>1
    <3>q. QED  BY <3>3, <3>4 DEF r
  <2> HIDE DEF g, Good
  <2>q. QED  BY <2>2, <2>3
<1> HIDE DEF T
<1>3. Cardinality(D) \in T
  BY <1>0, <1>1, <1>2, Induction
<1>4. PICK g \in [SUBSET D -> A] : Good(g, Cardinality(D))
  BY <1>3 DEF T
<1>5. \A s \in SUBSET D : Cardinality(s) <= Cardinality(D)
  BY FS_Subset
<1>q. QED  BY <1>4, <1>5

\* induction on the size of the subsets of a finite set
Grows(T, pick, D) == \A s \in SUBSET D : s # {} /\ s \ {pick[s]} \in T => s \in T

LEMMA SubsetInduction ==
    ASSUME NEW D, IsFiniteSet(D), NEW T, {} \in T,
           NEW pick, Picks(pick, D), Grows(T, pick, D)
    PROVE  \A s \in SUBSET D : s \in T
<1> DEFINE U == {n \in Nat : \A s \in SUBSET D : Cardinality(s) = n => s \in T}
<1>0. \A s \in SUBSET D : IsFiniteSet(s) /\ Cardinality(s) \in Nat
  BY FS_Subset, FS_CardinalityType
<1>1. 0 \in U
  BY <1>0, FS_EmptySet
<1>2. ASSUME NEW n \in Nat, n \in U PROVE n + 1 \in U
  <2> SUFFICES ASSUME NEW s \in SUBSET D, Cardinality(s) = n + 1 PROVE s \in T
    OBVIOUS
  <2>1. s # {}
    BY FS_EmptySet
  <2> DEFINE r == s \ {pick[s]}
  <2>2. pick[s] \in s
    BY <2>1 DEF Picks
  <2>3. r \in SUBSET D /\ Cardinality(r) = n
    <3>1. Cardinality(r) = Cardinality(s) - 1
      BY <1>0, <2>2, FS_RemoveElement
    <3>q. QED  BY <3>1
  <2>4. r \in T
    BY <1>2, <2>3
  <2>q. QED  BY <2>1, <2>4 DEF Grows
<1> HIDE DEF U
<1>3. Nat \subseteq U
  BY <1>1, <1>2, Induction
<1>q. QED  BY <1>0, <1>3 DEF U

Sums(f, c, D) ==
    f = [s \in SUBSET D |->
           IF s = {} THEN 0 ELSE Size[c[CHOOSE x \in s : TRUE]] + f[s \ {CHOOSE x \in s : TRUE}]]

LEMMA UsageExists ==
    ASSUME NEW D, IsFiniteSet(D), D \subseteq Tx, NEW c \in [Tx -> Value]
    PROVE  \E f : Sums(f, c, D) /\ Usage(c, D) = f[D]
<1> DEFINE pick == [s \in SUBSET D |-> CHOOSE x \in s : TRUE]
           step == [z \in Nat \X D |-> Size[c[z[2]]] + z[1]]
<1>1. Picks(pick, D)
  BY DEF Picks
<1>2. Closed(step, Nat, D)
  BY CoinsAssumption DEF Closed, CoinsAssumption
<1>3. PICK g \in [SUBSET D -> Nat] : Solves(g, 0, pick, step, D)
  <2> HIDE DEF pick, step
  <2>q. QED  BY <1>1, <1>2, SubsetRecursion
<1>4. Sums(g, c, D)
  BY <1>1, <1>3 DEF Solves, Sums, Picks
<1>q. QED  BY <1>4 DEF Usage, Sums, MapThenSumSet, MapThenFoldSet

LEMMA SumsAgree ==
    ASSUME NEW D, IsFiniteSet(D), NEW E \in SUBSET D, NEW c, NEW f, Sums(f, c, D), NEW g, Sums(g, c, E)
    PROVE  f[E] = g[E]
<1> DEFINE T == {s \in SUBSET E : f[s] = g[s]}
           pick == [s \in SUBSET E |-> CHOOSE x \in s : TRUE]
<1>0. /\ \A s \in SUBSET E : f[s] = IF s = {} THEN 0 ELSE Size[c[pick[s]]] + f[s \ {pick[s]}]
      /\ \A s \in SUBSET E : g[s] = IF s = {} THEN 0 ELSE Size[c[pick[s]]] + g[s \ {pick[s]}]
  <2>1. \A s \in SUBSET E : pick[s] = (CHOOSE x \in s : TRUE) /\ s \in SUBSET D
    OBVIOUS
  <2>2. \A s \in SUBSET D : f[s] = IF s = {} THEN 0 ELSE Size[c[CHOOSE x \in s : TRUE]]
                                   + f[s \ {CHOOSE x \in s : TRUE}]
    BY DEF Sums
  <2>3. \A s \in SUBSET E : g[s] = IF s = {} THEN 0 ELSE Size[c[CHOOSE x \in s : TRUE]]
                                   + g[s \ {CHOOSE x \in s : TRUE}]
    BY DEF Sums
  <2> HIDE DEF pick
  <2>q. QED  BY <2>1, <2>2, <2>3
<1>1. Picks(pick, E) /\ IsFiniteSet(E)
  BY FS_Subset DEF Picks
<1> HIDE DEF pick
<1>2. {} \in T
  BY <1>0
<1>3. ASSUME NEW s \in SUBSET E, s # {}, s \ {pick[s]} \in T PROVE s \in T
  BY <1>0, <1>3
<1>31. Grows(T, pick, E)
  BY <1>3 DEF Grows
<1> HIDE DEF T
<1>4. \A s \in SUBSET E : s \in T
  BY <1>1, <1>2, <1>31, SubsetInduction
<1>q. QED  BY <1>4 DEF T

LEMMA UsageUnfold ==
    ASSUME NEW D, IsFiniteSet(D), D \subseteq Tx, NEW c \in [Tx -> Value]
    PROVE  Usage(c, D) = IF D = {} THEN 0 ELSE Size[c[CHOOSE x \in D : TRUE]] + Usage(c, D \ {CHOOSE x \in D : TRUE})
<1>1. PICK f : Sums(f, c, D) /\ Usage(c, D) = f[D]
  BY UsageExists
<1> DEFINE x == CHOOSE y \in D : TRUE
           E == D \ {x}
<1>2. f[D] = IF D = {} THEN 0 ELSE Size[c[x]] + f[E]
  BY <1>1 DEF Sums
<1>3. E \in SUBSET D /\ E \subseteq Tx /\ IsFiniteSet(E)
  BY FS_Subset
<1> HIDE DEF x, E
<1>4. PICK g : Sums(g, c, E) /\ Usage(c, E) = g[E]
  BY <1>3, UsageExists
<1>5. f[E] = g[E]
  BY <1>1, <1>3, <1>4, SumsAgree
<1>q. QED  BY <1>1, <1>2, <1>4, <1>5 DEF x, E

\* the order in which the sum is made does not matter
LEMMA UsageRemove ==
    ASSUME NEW D, IsFiniteSet(D), D \subseteq Tx, NEW c \in [Tx -> Value]
    PROVE  /\ Usage(c, D) \in Nat /\ Usage(c, {}) = 0
           /\ \A x \in D : Usage(c, D) = Size[c[x]] + Usage(c, D \ {x})
<1> DEFINE pick == [s \in SUBSET D |-> CHOOSE x \in s : TRUE]
           Fact(s) == Usage(c, s) \in Nat /\ \A x \in s : Usage(c, s) = Size[c[x]] + Usage(c, s \ {x})
           T == {s \in SUBSET D : Usage(c, s) \in Nat}
<1>0. \A s \in SUBSET D : Usage(c, s) = IF s = {} THEN 0 ELSE Size[c[pick[s]]] + Usage(c, s \ {pick[s]})
  <2> SUFFICES ASSUME NEW s \in SUBSET D
               PROVE  Usage(c, s) = IF s = {} THEN 0 ELSE Size[c[pick[s]]] + Usage(c, s \ {pick[s]})
    OBVIOUS
  <2>1. IsFiniteSet(s) /\ s \subseteq Tx
    BY FS_Subset
  <2>2. pick[s] = (CHOOSE x \in s : TRUE)
    OBVIOUS
  <2> HIDE DEF pick
  <2>q. QED  BY <2>1, <2>2, UsageUnfold
<1>1. Picks(pick, D)
  BY DEF Picks
<1>2. \A x \in D : Size[c[x]] \in Nat
  BY CoinsAssumption DEF CoinsAssumption
<1> HIDE DEF pick
<1>3. Usage(c, {}) = 0
  BY <1>0
<1>31. \A s \in SUBSET D : Usage(c, s) \in Nat
  <2>1. {} \in T
    BY <1>3
  <2>2. Grows(T, pick, D)
    BY <1>0, <1>1, <1>2 DEF Grows, Picks
  <2> HIDE DEF T
  <2>3. \A s \in SUBSET D : s \in T
    BY <1>1, <2>1, <2>2, SubsetInduction
  <2>q. QED  BY <2>3 DEF T
<1> DEFINE U == {n \in Nat : \A s \in SUBSET D : Cardinality(s) = n => Fact(s)}
<1>4. \A s \in SUBSET D : IsFiniteSet(s) /\ Cardinality(s) \in Nat
  BY FS_Subset, FS_CardinalityType
<1>5. 0 \in U
  <2> SUFFICES ASSUME NEW s \in SUBSET D, Cardinality(s) = 0 PROVE Fact(s)
    OBVIOUS
  <2>1. s = {}
    BY <1>4, FS_EmptySet
  <2>q. QED  BY <1>3, <2>1
<1>6. ASSUME NEW n \in Nat, n \in U PROVE n + 1 \in U
  <2> SUFFICES ASSUME NEW s \in SUBSET D, Cardinality(s) = n + 1 PROVE Fact(s)
    OBVIOUS
  <2>1. s # {}
    BY FS_EmptySet
  <2> DEFINE y == pick[s]
  <2>2. y \in s
    BY <1>1, <2>1 DEF Picks
  <2>3. \A x \in s : s \ {x} \in SUBSET D /\ Cardinality(s \ {x}) = n
    <3> SUFFICES ASSUME NEW x \in s PROVE Cardinality(s \ {x}) = n
      OBVIOUS
    <3>1. Cardinality(s \ {x}) = Cardinality(s) - 1
      BY <1>4, FS_RemoveElement
    <3>q. QED  BY <3>1
  <2>4. \A x \in s : Fact(s \ {x})
    BY <1>6, <2>3
  <2>5. Usage(c, s) = Size[c[y]] + Usage(c, s \ {y}) /\ Usage(c, s \ {y}) \in Nat
    BY <1>0, <2>1, <2>2, <2>4
  <2> HIDE DEF y
  <2>6. ASSUME NEW x \in s PROVE Usage(c, s) = Size[c[x]] + Usage(c, s \ {x})
    <3>1. CASE x = y
      BY <2>5, <3>1
    <3>2. CASE x # y
      <4>1. x \in s \ {y} /\ y \in s \ {x}
        BY <2>2, <3>2
      <4>2. Usage(c, s \ {y}) = Size[c[x]] + Usage(c, (s \ {y}) \ {x})
        BY <2>2, <2>4, <4>1
      <4>3. Usage(c, s \ {x}) = Size[c[y]] + Usage(c, (s \ {x}) \ {y}) /\ Usage(c, s \ {x}) \in Nat
        BY <2>4, <4>1
      <4>4. (s \ {y}) \ {x} = (s \ {x}) \ {y}
        OBVIOUS
      <4> DEFINE r == (s \ {x}) \ {y}
      <4>5. Usage(c, s \ {y}) = Size[c[x]] + Usage(c, r) /\ Usage(c, s \ {x}) = Size[c[y]] + Usage(c, r)
        BY <4>2, <4>3, <4>4
      <4>6. Usage(c, r) \in Nat
        BY <1>31
      <4> HIDE DEF r
      <4>q. QED  BY <1>2, <2>2, <2>5, <4>5, <4>6
    <3>q. QED  BY <3>1, <3>2
  <2>7. Usage(c, s) \in Nat
    BY <1>2, <2>2, <2>5
  <2>q. QED  BY <2>6, <2>7
<1> HIDE DEF U, Fact
<1>7. Nat \subseteq U
  BY <1>5, <1>6, Induction
<1>8. Fact(D)
  BY <1>4, <1>7 DEF U
<1>q. QED  BY <1>3, <1>8 DEF Fact

LEMMA UsageMinus ==
    ASSUME NEW S, IsFiniteSet(S), S \subseteq Tx, NEW c \in [Tx -> Value], NEW G \in SUBSET S
    PROVE  Usage(c, S \ G) = Usage(c, S) - Usage(c, G)
<1> DEFINE pick == [s \in SUBSET S |-> CHOOSE x \in s : TRUE]
           T == {s \in SUBSET S : Usage(c, S \ s) = Usage(c, S) - Usage(c, s)}
<1>1. Picks(pick, S)
  BY DEF Picks
<1>2. \A s \in SUBSET S : IsFiniteSet(s) /\ Usage(c, s) \in Nat /\ Usage(c, {}) = 0
                          /\ \A x \in s : Usage(c, s) = Size[c[x]] + Usage(c, s \ {x}) /\ Size[c[x]] \in Nat
  <2> SUFFICES ASSUME NEW s \in SUBSET S
               PROVE  IsFiniteSet(s) /\ Usage(c, s) \in Nat /\ Usage(c, {}) = 0
                      /\ \A x \in s : Usage(c, s) = Size[c[x]] + Usage(c, s \ {x}) /\ Size[c[x]] \in Nat
    OBVIOUS
  <2>1. IsFiniteSet(s) /\ s \subseteq Tx
    BY FS_Subset
  <2>2. \A x \in s : Size[c[x]] \in Nat
    BY CoinsAssumption DEF CoinsAssumption
  <2>q. QED  BY <2>1, <2>2, UsageRemove
<1> HIDE DEF pick
<1>3. {} \in T
  <2>1. S \ {} = S /\ {} \in SUBSET S /\ S \in SUBSET S
    OBVIOUS
  <2>q. QED  BY <1>2, <2>1
<1>4. ASSUME NEW s \in SUBSET S, s # {}, s \ {pick[s]} \in T PROVE s \in T
  <2> DEFINE x == pick[s]
             r == s \ {x}
  <2>1. x \in s /\ x \in S /\ r \in SUBSET S /\ S \ s \in SUBSET S /\ S \ r \in SUBSET S
    BY <1>1, <1>4 DEF Picks
  <2>2. Usage(c, S \ r) = Usage(c, S) - Usage(c, r)
    BY <1>4
  <2>3. x \in S \ r /\ (S \ r) \ {x} = S \ s
    BY <2>1
  <2> HIDE DEF x, r
  <2>4. Usage(c, S \ r) = Size[c[x]] + Usage(c, S \ s)
    BY <1>2, <2>1, <2>3
  <2>5. Usage(c, s) = Size[c[x]] + Usage(c, r) /\ Size[c[x]] \in Nat
    BY <1>2, <2>1 DEF r
  <2>6. Usage(c, S) \in Nat /\ Usage(c, r) \in Nat /\ Usage(c, S \ s) \in Nat /\ Usage(c, s) \in Nat
    BY <1>2, <2>1
  <2>q. QED  BY <2>2, <2>4, <2>5, <2>6
<1>5. Grows(T, pick, S)
  BY <1>4 DEF Grows
<1> HIDE DEF T
<1>6. G \in T
  BY <1>1, <1>3, <1>5, SubsetInduction
<1>q. QED  BY <1>6 DEF T

----------------------------------------------------------------------------
(* cachedCoinsUsage. *)

\* only the entries that are counted matter
LEMMA UsageSame ==
    ASSUME NEW S, IsFiniteSet(S), S \subseteq Tx, NEW c \in [Tx -> Value], NEW d \in [Tx -> Value],
           \A x \in S : c[x] = d[x]
    PROVE  Usage(c, S) = Usage(d, S)
<1> DEFINE pick == [s \in SUBSET S |-> CHOOSE x \in s : TRUE]
           T == {s \in SUBSET S : Usage(c, s) = Usage(d, s)}
<1>1. Picks(pick, S)
  BY DEF Picks
<1>2. \A s \in SUBSET S : /\ IsFiniteSet(s) /\ Usage(c, {}) = 0 /\ Usage(d, {}) = 0
                          /\ \A x \in s : Usage(c, s) = Size[c[x]] + Usage(c, s \ {x})
                          /\ \A x \in s : Usage(d, s) = Size[d[x]] + Usage(d, s \ {x})
  <2> SUFFICES ASSUME NEW s \in SUBSET S
               PROVE  /\ IsFiniteSet(s) /\ Usage(c, {}) = 0 /\ Usage(d, {}) = 0
                      /\ \A x \in s : Usage(c, s) = Size[c[x]] + Usage(c, s \ {x})
                      /\ \A x \in s : Usage(d, s) = Size[d[x]] + Usage(d, s \ {x})
    OBVIOUS
  <2>1. IsFiniteSet(s) /\ s \subseteq Tx
    BY FS_Subset
  <2>q. QED  BY <2>1, UsageRemove
<1> HIDE DEF pick
<1>3. {} \in T
  BY <1>2
<1>4. ASSUME NEW s \in SUBSET S, s # {}, s \ {pick[s]} \in T PROVE s \in T
  <2>1. pick[s] \in s /\ c[pick[s]] = d[pick[s]]
    BY <1>1, <1>4 DEF Picks
  <2>q. QED  BY <1>2, <1>4, <2>1
<1>5. Grows(T, pick, S)
  BY <1>4 DEF Grows
<1> HIDE DEF T
<1>6. S \in T
  BY <1>1, <1>3, <1>5, SubsetInduction
<1>q. QED  BY <1>6 DEF T

\* the memory of a cache
Weight(c) == Usage(c.coins, c.in)

Light(c) == WellFormed(c) /\ IsFiniteSet(c.in)

LEMMA SizeType == (\A v \in Value : Size[v] \in Nat) /\ Size[Pruned] = 0 /\ Pruned \in Value
BY CoinsAssumption DEF CoinsAssumption, Value

LEMMA NoWeight == Light(NoEntries) /\ Weight(NoEntries) = 0
<1>1. NoEntries.in = {} /\ NoEntries.coins \in [Tx -> Value]
  BY SizeType DEF NoEntries
<1>2. IsFiniteSet({}) /\ {} \subseteq Tx
  BY FS_EmptySet
<1>3. Usage(NoEntries.coins, {}) = 0
  BY <1>1, <1>2, UsageRemove
<1>q. QED  BY <1>1, <1>2, <1>3, NoEntriesWF DEF Light, Weight

\* the weight without an entry
LEMMA WeightApart ==
    ASSUME NEW c, Light(c), NEW x \in Tx
    PROVE  /\ Weight(c) = Size[c.coins[x]] + Usage(c.coins, c.in \ {x})
           /\ Size[c.coins[x]] \in Nat /\ Usage(c.coins, c.in \ {x}) \in Nat /\ IsFiniteSet(c.in \ {x})
<1>1. /\ c.in \subseteq Tx /\ c.coins \in [Tx -> Value] /\ IsFiniteSet(c.in)
      /\ x \notin c.in => c.coins[x] = Pruned
  BY DEF Light, WellFormed, Cache
<1>2. IsFiniteSet(c.in \ {x}) /\ c.in \ {x} \subseteq Tx
  BY <1>1, FS_Subset
<1>3. Usage(c.coins, c.in \ {x}) \in Nat /\ Size[c.coins[x]] \in Nat
  BY <1>1, <1>2, UsageRemove, SizeType
<1>4. CASE x \in c.in
  BY <1>1, <1>2, <1>3, <1>4, UsageRemove DEF Weight
<1>5. CASE x \notin c.in
  <2>1. Size[c.coins[x]] = 0 /\ c.in \ {x} = c.in
    BY <1>1, <1>5, SizeType
  <2> DEFINE r == c.in \ {x}
  <2>2. r = c.in /\ Usage(c.coins, r) \in Nat
    BY <1>3, <2>1
  <2>3. Weight(c) = Usage(c.coins, r)
    BY <2>2 DEF Weight
  <2> HIDE DEF r
  <2>4. Weight(c) = Size[c.coins[x]] + Usage(c.coins, r)
    BY <2>1, <2>2, <2>3
  <2>q. QED  BY <1>2, <1>3, <2>4 DEF r
<1>q. QED  BY <1>4, <1>5

\* c and d differ in the entry for x at most
Beside(c, d, x) ==
    /\ d.in \ {x} = c.in \ {x} /\ \A y \in Tx \ {x} : d.coins[y] = c.coins[y]

LEMMA OneEntry ==
    ASSUME NEW c, Light(c), NEW d, WellFormed(d), NEW x \in Tx, Beside(c, d, x)
    PROVE  /\ Light(d)
           /\ Weight(d) = Weight(c) - Size[c.coins[x]] + Size[d.coins[x]]
<1> DEFINE r == c.in \ {x}
<1>0. /\ c.in \subseteq Tx /\ c.coins \in [Tx -> Value] /\ IsFiniteSet(c.in)
      /\ d.in \subseteq Tx /\ d.coins \in [Tx -> Value]
  BY DEF Light, WellFormed, Cache
<1>1. d.in \ {x} = r /\ r \subseteq Tx /\ \A y \in r : c.coins[y] = d.coins[y]
  BY <1>0 DEF Beside
<1>2. /\ Weight(c) = Size[c.coins[x]] + Usage(c.coins, r) /\ IsFiniteSet(r)
      /\ Size[c.coins[x]] \in Nat /\ Usage(c.coins, r) \in Nat
  BY WeightApart
<1> HIDE DEF r
<1>3. IsFiniteSet(d.in)
  <2>1. IsFiniteSet(r \cup {x})
    BY <1>2, FS_AddElement
  <2>2. d.in \subseteq r \cup {x}
    BY <1>1
  <2>q. QED  BY <2>1, <2>2, FS_Subset
<1>4. Light(d)
  BY <1>3 DEF Light
<1>5. Weight(d) = Size[d.coins[x]] + Usage(d.coins, r) /\ Size[d.coins[x]] \in Nat
  <2>1. Weight(d) = Size[d.coins[x]] + Usage(d.coins, d.in \ {x}) /\ Size[d.coins[x]] \in Nat
    BY <1>4, WeightApart
  <2>q. QED  BY <1>1, <2>1
<1>6. Usage(c.coins, r) = Usage(d.coins, r)
  BY <1>0, <1>1, <1>2, UsageSame
<1>q. QED  BY <1>2, <1>4, <1>5, <1>6

(***************************************************************************)
(* The invariant: only finitely many entries are cached, and the counters  *)
(* are their weight.                                                       *)
(***************************************************************************)
UsageInv == /\ IInv
            /\ Light(tip) /\ Light(view)
            /\ tipUsage = Weight(tip) /\ viewUsage = Weight(view)

LEMMA TipFetchUses ==
    ASSUME UsageInv, NEW x \in Tx
    PROVE  Light(TipFetched(x)) /\ Weight(TipFetched(x)) = tipUsage + TipFetchUsage(x)
<1> DEFINE d == TipFetched(x)
<1>1. /\ WellFormed(d) /\ WellFormed(tip) /\ db[x] \in Value
      /\ d.in = IF db[x] # Pruned THEN tip.in \cup {x} ELSE tip.in
      /\ \A y \in Tx : d.coins[y] =
             IF y = x /\ x \notin tip.in /\ db[x] # Pruned THEN db[x] ELSE tip.coins[y]
  BY TipFetchFacts, TypeParts DEF UsageInv, IInv
<1> HIDE DEF d
<1>2. Beside(tip, d, x)
  BY <1>1 DEF Beside
<1>3. Light(d) /\ Weight(d) = Weight(tip) - Size[tip.coins[x]] + Size[d.coins[x]]
  BY <1>1, <1>2, OneEntry DEF UsageInv
<1>4. /\ Weight(tip) = Size[tip.coins[x]] + Usage(tip.coins, tip.in \ {x}) /\ Size[tip.coins[x]] \in Nat
      /\ Usage(tip.coins, tip.in \ {x}) \in Nat
  BY WeightApart DEF UsageInv
<1>5. Weight(tip) \in Nat
  BY <1>4
<1>6. CASE x \in tip.in
  <2>1. d.coins[x] = tip.coins[x] /\ TipFetchUsage(x) = 0
    BY <1>1, <1>6 DEF TipFetchUsage
  <2>q. QED  BY <1>3, <1>4, <1>5, <2>1 DEF UsageInv, d
<1>7. CASE x \notin tip.in
  <2>1. tip.coins[x] = Pruned /\ d.coins[x] = db[x] /\ TipFetchUsage(x) = Size[db[x]]
    BY <1>1, <1>7 DEF TipFetchUsage, WellFormed
  <2>2. Size[tip.coins[x]] = 0 /\ Size[db[x]] \in Nat
    BY <1>1, <2>1, SizeType
  <2>q. QED  BY <1>3, <1>5, <2>1, <2>2 DEF UsageInv, d
<1>q. QED  BY <1>6, <1>7

LEMMA ReadTipUses ==
    ASSUME UsageInv, IInv', NEW x \in Tx, ReadTip(x)
    PROVE  UsageInv'
BY TipFetchUses DEF ReadTip, UsageInv, Light, Weight

\* the entry x of the view becomes another, or comes or goes
LEMMA ViewUses ==
    ASSUME UsageInv, IInv', NEW x \in Tx, Beside(view, view', x)
    PROVE  /\ Light(view')
           /\ Weight(view') = viewUsage - Size[view.coins[x]] + Size[view'.coins[x]]
           /\ viewUsage \in Nat /\ Size[view.coins[x]] \in Nat /\ Size[view'.coins[x]] \in Nat
<1>1. WellFormed(view')
  BY TypePartsNext DEF IInv
<1>2. Light(view') /\ Weight(view') = Weight(view) - Size[view.coins[x]] + Size[view'.coins[x]]
  BY <1>1, OneEntry DEF UsageInv
<1>3. Size[view'.coins[x]] \in Nat
  BY <1>2, WeightApart
<1>4. /\ Weight(view) = Size[view.coins[x]] + Usage(view.coins, view.in \ {x}) /\ Size[view.coins[x]] \in Nat
      /\ Usage(view.coins, view.in \ {x}) \in Nat
  BY WeightApart DEF UsageInv
<1>q. QED  BY <1>2, <1>3, <1>4 DEF UsageInv

LEMMA ReadViewUses ==
    ASSUME UsageInv, IInv', NEW x \in Tx, ReadView(x)
    PROVE  UsageInv'
<1>1. /\ tip' = TipFetched(x) /\ tipUsage' = tipUsage + TipFetchUsage(x) /\ x \notin view.in
      /\ view' = FetchCoins(view, x, x \in tip'.in, tip'.coins[x])
      /\ viewUsage' = viewUsage + Size[tip'.coins[x]]
  BY DEF ReadView
<1>2. Light(tip') /\ tipUsage' = Weight(tip')
  BY <1>1, TipFetchUses
<1>3. WellFormed(view) /\ WellFormed(tip') /\ tip'.coins[x] \in Value
  BY <1>2 DEF UsageInv, Light, WellFormed, Cache
<1> DEFINE v == tip'.coins[x]
           found == x \in tip'.in
<1>4. /\ view'.in = IF found THEN view.in \cup {x} ELSE view.in
      /\ \A y \in Tx : view'.coins[y] = IF y = x /\ x \notin view.in /\ found THEN v ELSE view.coins[y]
  <2>1. found \in BOOLEAN /\ v \in Value
    BY <1>3
  <2>2. view' = FetchCoins(view, x, found, v)
    BY <1>1
  <2>3. \A f \in BOOLEAN, u \in Value :
           LET e == FetchCoins(view, x, f, u) IN
           /\ e.in = IF f THEN view.in \cup {x} ELSE view.in
           /\ \A y \in Tx : e.coins[y] = IF y = x /\ x \notin view.in /\ f THEN u ELSE view.coins[y]
    BY <1>3 DEF FetchCoins, WellFormed, Cache, Value
  <2> HIDE DEF found, v
  <2>q. QED  BY <2>1, <2>2, <2>3
<1>5. ~found => v = Pruned
  BY <1>3 DEF WellFormed
<1>6. view.coins[x] = Pruned
  BY <1>1, <1>3 DEF WellFormed
<1> HIDE DEF v, found
<1>7. view'.coins[x] = v /\ Beside(view, view', x)
  BY <1>1, <1>4, <1>5, <1>6 DEF Beside
<1>8. /\ Light(view') /\ Weight(view') = viewUsage - Size[view.coins[x]] + Size[view'.coins[x]]
      /\ viewUsage \in Nat /\ Size[view'.coins[x]] \in Nat
  BY <1>7, ViewUses
<1>9. Size[view.coins[x]] = 0
  BY <1>6, SizeType
<1>10. viewUsage' = Weight(view')
  BY <1>1, <1>7, <1>8, <1>9 DEF v
<1>q. QED  BY <1>2, <1>8, <1>10 DEF UsageInv, Light, Weight

LEMMA ModifyViewUses ==
    ASSUME UsageInv, IInv', NEW x \in Tx, NEW w \in Value, ModifyView(x, w)
    PROVE  UsageInv'
<1> DEFINE base == IF x \in view.in THEN tip ELSE TipFetched(x)
<1>1. /\ tip' = base
      /\ tipUsage' = tipUsage + (IF x \in view.in THEN 0 ELSE TipFetchUsage(x))
      /\ view' = ModifyCoins(view, x, x \in base.in, base.coins[x], w)
      /\ viewUsage' = viewUsage - Size[view.coins[x]] + Size[view'.coins[x]]
  BY DEF ModifyView
<1>2. Light(tip') /\ tipUsage' = Weight(tip')
  <2>1. CASE x \in view.in
    <3>1. tip' = tip /\ tipUsage' = tipUsage + 0
      BY <1>1, <2>1
    <3>2. tipUsage \in Nat
      <4>1. /\ Weight(tip) = Size[tip.coins[x]] + Usage(tip.coins, tip.in \ {x})
            /\ Size[tip.coins[x]] \in Nat /\ Usage(tip.coins, tip.in \ {x}) \in Nat
        BY WeightApart DEF UsageInv
      <4>q. QED  BY <4>1 DEF UsageInv
    <3>q. QED  BY <3>1, <3>2 DEF UsageInv
  <2>2. CASE x \notin view.in
    BY <1>1, <2>2, TipFetchUses
  <2>q. QED  BY <2>1, <2>2
<1> HIDE DEF base
<1>3. view.coins \in [Tx -> Value]
  BY DEF UsageInv, Light, WellFormed, Cache
<1>4. Beside(view, view', x)
  BY <1>1, <1>3 DEF ModifyCoins, Beside
<1>5. Light(view') /\ viewUsage' = Weight(view')
  BY <1>1, <1>4, ViewUses
<1>q. QED  BY <1>2, <1>5 DEF UsageInv, Light, Weight

\* BatchWrite: what is written replaces what was there, what is erased goes
LEMMA BatchUses ==
    ASSUME NEW p, Light(p), NEW c, Light(c)
    PROVE  /\ Light(BatchWrite(p, c))
           /\ Weight(BatchWrite(p, c)) = Weight(p) + BatchUsage(p, c)
<1> DEFINE new == Added(p, c)
           chg == Changed(p, c)
           rem == Removed(p, c)
           W == new \cup chg
           old == chg \cup rem
           rest == p.in \ old
           d == BatchWrite(p, c)
<1>0. /\ p.in \subseteq Tx /\ p.coins \in [Tx -> Value] /\ IsFiniteSet(p.in) /\ p.fresh \subseteq p.in
      /\ c.in \subseteq Tx /\ c.coins \in [Tx -> Value] /\ IsFiniteSet(c.in) /\ c.dirty \subseteq c.in
      /\ WellFormed(d)
  BY BatchWF DEF Light, WellFormed, Cache
<1>1. W \subseteq c.in /\ old \subseteq p.in /\ W \cap rest = {} /\ rest \subseteq p.in /\ W \cap rem = {}
  BY <1>0 DEF Added, Changed, Removed
<1>2. d.in = W \cup rest /\ d.coins = [x \in Tx |-> IF x \in W THEN c.coins[x]
                                 ELSE IF x \in rem THEN Pruned ELSE p.coins[x]]
  BY <1>0 DEF BatchWrite, Added, Changed, Removed
<1>3. IsFiniteSet(W) /\ IsFiniteSet(rest) /\ IsFiniteSet(W \cup rest) /\ IsFiniteSet(old)
  <2>1. IsFiniteSet(W) /\ IsFiniteSet(rest) /\ IsFiniteSet(old)
    BY <1>0, <1>1, FS_Subset
  <2>q. QED  BY <2>1, FS_Union
<1>4. BatchUsage(p, c) = Usage(c.coins, W) - Usage(p.coins, old)
  BY DEF BatchUsage
<1>5. rest \cap rem = {}
  OBVIOUS
<1> HIDE DEF new, chg, rem, W, old, d
<1>6. Light(d)
  BY <1>0, <1>2, <1>3 DEF Light
<1>7. Usage(p.coins, rest) = Weight(p) - Usage(p.coins, old)
  BY <1>0, <1>1, UsageMinus DEF Weight
<1> HIDE DEF rest
<1>8. d.coins \in [Tx -> Value] /\ W \subseteq Tx /\ rest \subseteq Tx
  BY <1>0, <1>1 DEF WellFormed, Cache
<1>9. (W \cup rest) \ W = rest /\ W \in SUBSET (W \cup rest)
  BY <1>1
<1>10. Usage(d.coins, rest) = Weight(d) - Usage(d.coins, W)
  <2> DEFINE all == W \cup rest
  <2>1. all \subseteq Tx /\ IsFiniteSet(all) /\ W \in SUBSET all /\ all \ W = rest /\ all = d.in
    BY <1>2, <1>3, <1>8, <1>9
  <2> HIDE DEF all
  <2>2. Usage(d.coins, all \ W) = Usage(d.coins, all) - Usage(d.coins, W)
    BY <1>8, <2>1, UsageMinus
  <2>q. QED  BY <2>1, <2>2 DEF Weight
<1>11. Usage(d.coins, W) = Usage(c.coins, W)
  <2>1. \A x \in W : d.coins[x] = c.coins[x]
    BY <1>2, <1>8
  <2>q. QED  BY <1>0, <1>3, <1>8, <2>1, UsageSame
<1>12. Usage(d.coins, rest) = Usage(p.coins, rest)
  <2>1. \A x \in rest : d.coins[x] = p.coins[x]
    BY <1>1, <1>2, <1>5, <1>8
  <2>q. QED  BY <1>0, <1>3, <1>8, <2>1, UsageSame
<1>13. /\ Usage(p.coins, rest) \in Nat /\ Usage(p.coins, old) \in Nat /\ Usage(c.coins, W) \in Nat
       /\ Weight(p) \in Nat /\ Weight(d) \in Nat
  <2>1. old \subseteq Tx
    BY <1>0, <1>1
  <2>2. d.in \subseteq Tx /\ IsFiniteSet(d.in)
    BY <1>6 DEF Light, WellFormed, Cache
  <2>q. QED  BY <1>0, <1>3, <1>8, <2>1, <2>2, UsageRemove DEF Weight
<1>14. Weight(d) = Weight(p) + BatchUsage(p, c)
  BY <1>4, <1>7, <1>10, <1>11, <1>12, <1>13
<1>q. QED  BY <1>6, <1>14 DEF d

LEMMA NextUses == UsageInv /\ [Next]_vars => UsageInv'
<1> SUFFICES ASSUME UsageInv, [Next]_vars PROVE UsageInv'
  OBVIOUS
<1>0. IInv'
  BY NextIInv DEF UsageInv
<1>1. CASE \E x \in Tx : ReadTip(x)
  BY <1>0, <1>1, ReadTipUses
<1>2. CASE \E x \in Tx : ReadView(x)
  BY <1>0, <1>2, ReadViewUses
<1>3. CASE \E x \in Tx, w \in Value : ModifyView(x, w)
  BY <1>0, <1>3, ModifyViewUses
<1>4. CASE OpenView \/ \E h \in BlockHash : SetBestBlock(h)
  BY <1>0, <1>4 DEF OpenView, SetBestBlock, UsageInv, Light, Weight
<1>5. CASE FlushView
  <2>1. /\ tip' = BatchWrite(tip, view) /\ tipUsage' = tipUsage + BatchUsage(tip, view)
        /\ view' = NoEntries /\ viewUsage' = 0
    BY <1>5 DEF FlushView
  <2>2. Light(BatchWrite(tip, view)) /\ Weight(BatchWrite(tip, view)) = Weight(tip) + BatchUsage(tip, view)
    BY BatchUses DEF UsageInv
  <2>q. QED  BY <1>0, <2>1, <2>2, NoWeight DEF UsageInv, Light, Weight
<1>6. CASE DropView
  BY <1>0, <1>6, NoWeight DEF DropView, UsageInv, Light, Weight
<1>7. CASE FlushTip
  BY <1>0, <1>7, NoWeight DEF FlushTip, UsageInv, Light, Weight
<1>8. CASE Crash
  BY <1>0, <1>8, NoWeight DEF Crash, UsageInv, Light, Weight
<1>9. CASE UNCHANGED vars
  BY <1>0, <1>9 DEF vars, UsageInv, Light, Weight
<1>q. QED  BY <1>1, <1>2, <1>3, <1>4, <1>5, <1>6, <1>7, <1>8, <1>9 DEF Next

(***************************************************************************)
(* cachedCoinsUsage of both caches is always exactly the memory of their   *)
(* entries: FetchCoins, ModifyCoins, ~CCoinsModifier, BatchWrite and Flush *)
(* add and subtract the same amounts, so the unsigned counter never wraps. *)
(***************************************************************************)
THEOREM CoinsUsageExact == Spec => []UsageExact
<1>1. Init => UsageInv
  BY InitIInv, NoWeight DEF Init, UsageInv
<1>2. UsageInv => UsageExact
  BY DEF UsageInv, UsageExact, Weight
<1>q. QED  BY <1>1, <1>2, NextUses, PTL DEF Spec

===============================================================================
