----------------------------- MODULE TxPoolProofs -----------------------------
(***************************************************************************)
(* Proofs about TxPool, for every set of transactions, peers and blocks.   *)
(*                                                                         *)
(* The coins are those of the chain, and an undo record fits whenever its  *)
(* block is the tip (ChainInv); the two maps of orphans agree (OrphanInv); *)
(* the pool could be mined on the coins (Minable), which the removals keep *)
(* because they follow spenders to the end; and, when a coinbase names its *)
(* height, a transaction is in the chain once (Once).                      *)
(***************************************************************************)
EXTENDS TxPool, FiniteSetTheorems, WellFoundedInduction, TLAPS

----------------------------------------------------------------------------
(* Induction, and what a fold is.  The library's induction theorems take a *)
(* predicate; these take the set of the numbers that satisfy it.           *)

LEMMA LeastNat ==
    ASSUME NEW T, T \subseteq Nat, T # {}
    PROVE  \E n \in T : \A m \in T : n <= m
<1>1. PICK x \in T : \A y \in T : ~(<<y, x>> \in OpToRel(<, Nat))
  BY NatLessThanWellFounded, WFMin
<1>2. \A y \in T : y < x => <<y, x>> \in OpToRel(<, Nat)
  BY DEF OpToRel
<1>3. \A y \in T : ~(y < x)
  BY <1>1, <1>2
<1>q. QED  BY <1>3

LEMMA Induction ==
    ASSUME NEW T, 0 \in T, \A n \in Nat : n \in T => n + 1 \in T
    PROVE  Nat \subseteq T
<1> SUFFICES ASSUME Nat \ T # {} PROVE FALSE
  OBVIOUS
<1>1. PICK n \in Nat \ T : \A m \in Nat \ T : n <= m
  BY LeastNat
<1>2. n # 0
  BY <1>1
<1>3. n - 1 \in Nat /\ n - 1 \notin Nat \ T
  BY <1>1, <1>2
<1>q. QED  BY <1>1, <1>3

\* the same up to a bound
LEMMA InductionTo ==
    ASSUME NEW N \in Nat, NEW T, 0 \in T, \A k \in 1 .. N : k - 1 \in T => k \in T
    PROVE  \A k \in 0 .. N : k \in T
<1> DEFINE U == {n \in Nat : n <= N => n \in T}
<1>1. 0 \in U
  OBVIOUS
<1>2. \A n \in Nat : n \in U => n + 1 \in U
  <2> SUFFICES ASSUME NEW n \in Nat, n \in U, n + 1 <= N PROVE n + 1 \in T
    OBVIOUS
  <2>1. n + 1 \in 1 .. N /\ (n + 1) - 1 = n /\ n \in T
    OBVIOUS
  <2>q. QED  BY <2>1
<1> HIDE DEF U
<1>3. Nat \subseteq U
  BY <1>1, <1>2, Induction
<1>q. QED  BY <1>3 DEF U

LEMMA MaxOf ==
    ASSUME NEW S, S \subseteq Nat, S # {}, NEW b \in Nat, \A x \in S : x <= b
    PROVE  Max(S) \in S /\ \A x \in S : Max(S) >= x
<1> DEFINE U == {m \in Nat : \A x \in S : x <= m}
<1>1. PICK m \in U : \A k \in U : m <= k
  <2>1. b \in U /\ U \subseteq Nat
    OBVIOUS
  <2> HIDE DEF U
  <2>q. QED  BY <2>1, LeastNat
<1>2. m \in S
  <2> SUFFICES ASSUME m \notin S PROVE FALSE
    OBVIOUS
  <2>1. \A x \in S : x <= m - 1
    BY <1>1
  <2>2. PICK x \in S : TRUE
    OBVIOUS
  <2>3. m - 1 \in Nat
    BY <1>1, <2>1, <2>2
  <2>q. QED  BY <1>1, <2>1, <2>3
<1>3. \A x \in S : m >= x
  BY <1>1
<1>q. QED  BY <1>2, <1>3 DEF Max

LEMMA MaxTo ==
    ASSUME NEW n \in Nat, NEW s \in SUBSET (1 .. n), s # {}
    PROVE  Max(s) \in s
<1>1. s \subseteq Nat /\ \A x \in s : x <= n
  OBVIOUS
<1>q. QED  BY <1>1, MaxOf

LEMMA MaxInterval ==
    ASSUME NEW k \in Nat, k # 0
    PROVE  Max(1 .. k) = k /\ (1 .. k) \ {k} = 1 .. (k - 1)
<1>1. Max(1 .. k) \in 1 .. k /\ \A x \in 1 .. k : Max(1 .. k) >= x
  <2>1. 1 .. k \subseteq Nat /\ k \in 1 .. k /\ \A x \in 1 .. k : x <= k
    OBVIOUS
  <2>q. QED  BY <2>1, MaxOf
<1>q. QED  BY <1>1

(***************************************************************************)
(* A recursion over the subsets of a finite set that takes one element     *)
(* away at a time has a solution.  A stands for the values it runs         *)
(* through, step for the operator that is folded.                          *)
(***************************************************************************)
Picks(pick, D) == \A s \in SUBSET D : s # {} => pick[s] \in s
Closed(step, A, D) == \A a \in A, x \in D : step[<<a, x>>] \in A
Solves(g, base, pick, step, D) ==
    \A s \in SUBSET D : g[s] = IF s = {} THEN base ELSE step[<<g[s \ {pick[s]}], pick[s]>>]

LEMMA SubsetRecursion ==
    ASSUME NEW D, IsFiniteSet(D), NEW A, NEW base \in A,
           NEW pick, Picks(pick, D), NEW step, Closed(step, A, D)
    PROVE  \E g \in [SUBSET D -> A] : Solves(g, base, pick, step, D)
<1> USE DEF Picks, Closed, Solves
<1> DEFINE Rhs(g, s) == IF s = {} THEN base ELSE step[<<g[s \ {pick[s]}], pick[s]>>]
           Good(g, m) == \A s \in SUBSET D : Cardinality(s) <= m => g[s] = Rhs(g, s)
           T == {m \in Nat : \E g \in [SUBSET D -> A] : Good(g, m)}
<1>0. \A s \in SUBSET D : IsFiniteSet(s) /\ Cardinality(s) \in Nat
  BY FS_Subset, FS_CardinalityType
<1>1. 0 \in T
  <2> DEFINE g == [s \in SUBSET D |-> base]
  <2>1. g \in [SUBSET D -> A]
    OBVIOUS
  <2>2. \A s \in SUBSET D : Cardinality(s) <= 0 => s = {}
    <3> SUFFICES ASSUME NEW s \in SUBSET D, Cardinality(s) <= 0 PROVE s = {}
      OBVIOUS
    <3>1. Cardinality(s) = 0
      BY <1>0
    <3>q. QED  BY <1>0, <3>1, FS_EmptySet
  <2>3. Good(g, 0)
    BY <2>2
  <2>q. QED  BY <2>1, <2>3
<1>2. ASSUME NEW m \in Nat, m \in T PROVE m + 1 \in T
  <2>1. PICK f \in [SUBSET D -> A] : Good(f, m)
    BY <1>2
  <2> DEFINE g == [s \in SUBSET D |-> Rhs(f, s)]
  <2>2. g \in [SUBSET D -> A]
    <3> SUFFICES ASSUME NEW s \in SUBSET D PROVE Rhs(f, s) \in A
      OBVIOUS
    <3>1. CASE s = {}
      BY <3>1
    <3>2. CASE s # {}
      <4>1. pick[s] \in D /\ s \ {pick[s]} \in SUBSET D
        BY <3>2
      <4>2. f[s \ {pick[s]}] \in A
        BY <4>1
      <4>q. QED  BY <3>2, <4>1, <4>2
    <3>q. QED  BY <3>1, <3>2
  <2>3. Good(g, m + 1)
    <3> SUFFICES ASSUME NEW s \in SUBSET D, Cardinality(s) <= m + 1, s # {}
                 PROVE  f[s \ {pick[s]}] = g[s \ {pick[s]}]
      OBVIOUS
    <3> DEFINE r == s \ {pick[s]}
    <3>1. r \in SUBSET D /\ Cardinality(r) = Cardinality(s) - 1
      BY <1>0, FS_RemoveElement
    <3>2. Cardinality(r) <= m
      BY <1>0, <3>1
    <3> HIDE DEF r
    <3>3. f[r] = Rhs(f, r)
      BY <2>1, <3>1, <3>2
    <3>4. g[r] = Rhs(f, r)
      BY <3>1
    <3>q. QED  BY <3>3, <3>4 DEF r
  <2> HIDE DEF g, Good
  <2>q. QED  BY <2>2, <2>3
<1> HIDE DEF T
<1>3. Cardinality(D) \in T
  BY <1>0, <1>1, <1>2, Induction
<1>4. PICK g \in [SUBSET D -> A] : Good(g, Cardinality(D))
  BY <1>3 DEF T
<1>5. \A s \in SUBSET D : Cardinality(s) <= Cardinality(D)
  BY FS_Subset
<1>q. QED  BY <1>4, <1>5

\* the same over the positions of a sequence, the last one first
StepOn(step, A, n) == DOMAIN step = A \X (1 .. n) /\ Closed(step, A, 1 .. n)
SolvesTo(g, base, step, n) ==
    \A s \in SUBSET (1 .. n) : g[s] = IF s = {} THEN base ELSE step[<<g[s \ {Max(s)}], Max(s)>>]

LEMMA SequenceRecursion ==
    ASSUME NEW n \in Nat, NEW A, NEW base \in A, NEW step, StepOn(step, A, n)
    PROVE  \E g \in [SUBSET (1 .. n) -> A] : SolvesTo(g, base, step, n)
<1> DEFINE D == 1 .. n
           pick == [s \in SUBSET D |-> Max(s)]
<1>1. Picks(pick, D)
  BY MaxTo DEF Picks
<1>2. IsFiniteSet(D)
  BY FS_Interval, 1 \in Int, n \in Int
<1>3. \A s \in SUBSET D : pick[s] = Max(s)
  OBVIOUS
<1> HIDE DEF pick, D
<1>4. PICK g \in [SUBSET D -> A] : Solves(g, base, pick, step, D)
  BY <1>1, <1>2, SubsetRecursion DEF D, StepOn
<1>q. QED  BY <1>3, <1>4 DEF D, Solves, SolvesTo

\* the values of a fold after each element
Runs(h, base, step, A, n) ==
    /\ h \in [0 .. n -> A] /\ h[0] = base
    /\ \A k \in 1 .. n : h[k] = step[<<h[k - 1], k>>]

Unrolls(f, base, step, n) ==
    /\ f[{}] = base
    /\ \A s \in SUBSET (1 .. n) : s # {} /\ <<f[s \ {Max(s)}], Max(s)>> \in DOMAIN step =>
          f[s] = step[<<f[s \ {Max(s)}], Max(s)>>]

LEMMA Unrolled ==
    ASSUME NEW n \in Nat, NEW A, NEW base \in A, NEW step, StepOn(step, A, n),
           NEW f, Unrolls(f, base, step, n)
    PROVE  \E h : Runs(h, base, step, A, n) /\ h[n] = f[1 .. n]
<1> DEFINE T == {k \in 0 .. n : f[1 .. k] \in A}
<1>0. 1 .. 0 = {}
  OBVIOUS
<1>1. 0 \in T
  BY <1>0 DEF Unrolls
<1>2. ASSUME NEW k \in 1 .. n, f[1 .. (k - 1)] \in A
      PROVE  f[1 .. k] = step[<<f[1 .. (k - 1)], k>>]
  <2>1. 1 .. k \in SUBSET (1 .. n) /\ 1 .. k # {}
    BY k \in 1 .. k
  <2>2. Max(1 .. k) = k /\ (1 .. k) \ {Max(1 .. k)} = 1 .. (k - 1)
    BY MaxInterval
  <2>q. QED  BY <1>2, <2>1, <2>2 DEF Unrolls, StepOn
<1>3. ASSUME NEW k \in 1 .. n, k - 1 \in T PROVE k \in T
  <2>1. f[1 .. (k - 1)] \in A
    BY <1>3
  <2>2. f[1 .. k] = step[<<f[1 .. (k - 1)], k>>]
    BY <1>2, <2>1
  <2>3. step[<<f[1 .. (k - 1)], k>>] \in A
    BY <2>1 DEF Closed, StepOn
  <2>q. QED  BY <2>2, <2>3
<1> HIDE DEF T
<1>4. \A k \in 0 .. n : k \in T
  BY <1>1, <1>3, InductionTo
<1> DEFINE h == [k \in 0 .. n |-> f[1 .. k]]
<1>5. \A k \in 0 .. n : h[k] = f[1 .. k] /\ h[k] \in A
  BY <1>4 DEF T
<1>6. h \in [0 .. n -> A] /\ h[n] = f[1 .. n]
  BY <1>5
<1>7. h[0] = base
  BY <1>0, <1>5 DEF Unrolls
<1>8. \A k \in 1 .. n : h[k] = step[<<h[k - 1], k>>]
  BY <1>2, <1>5
<1> HIDE DEF h
<1>q. QED  BY <1>6, <1>7, <1>8 DEF Runs

----------------------------------------------------------------------------
(* The coins. *)

CoinsMap == [Tx -> CoinsType]
InUndo   == [height : Nat, cb : BOOLEAN]
TxUndo   == Seq(InUndo)
SpendAcc == [coins : CoinsMap, undo : TxUndo]

LEMMA SpendType ==
    ASSUME NEW c \in CoinsMap, NEW o \in Tx \X Nat
    PROVE  Spend(c, o) \in CoinsMap
<1>1. o[1] \in Tx /\ c[o[1]] \in CoinsType
  BY DEF CoinsMap
<1>2. NoCoins \in CoinsType /\ [c[o[1]] EXCEPT !.out = c[o[1]].out \ {o[2]}] \in CoinsType
  BY <1>1 DEF NoCoins, CoinsType
<1>q. QED  BY <1>1, <1>2 DEF Spend, CoinsMap

LEMMA SpendInputType ==
    ASSUME NEW a \in SpendAcc, NEW o \in Tx \X Nat
    PROVE  SpendInput(a, o) \in SpendAcc
<1>1. a.coins \in CoinsMap /\ a.undo \in TxUndo /\ a.coins[o[1]] \in CoinsType
  BY DEF SpendAcc, CoinsMap
<1>2. Spend(a.coins, o) \in CoinsMap
  BY <1>1, SpendType
<1>3. Meta(a.coins[o[1]]) \in InUndo
  BY <1>1 DEF CoinsType, Meta, InUndo
<1>4. [height |-> 0, cb |-> FALSE] \in InUndo
  BY DEF InUndo
<1>q. QED  BY <1>1, <1>2, <1>3, <1>4 DEF SpendInput, SpendAcc, TxUndo

LEMMA SpendInputs ==
    ASSUME NEW c \in CoinsMap, NEW t \in Tx
    PROVE  \E h \in [0 .. Len(Ins[t]) -> SpendAcc] :
              /\ h[0] = [coins |-> c, undo |-> <<>>]
              /\ \A k \in 1 .. Len(Ins[t]) : h[k] = SpendInput(h[k - 1], Ins[t][k])
              /\ \A height : UpdateCoins(c, t, height) =
                                [h[Len(Ins[t])] EXCEPT !.coins[t] = FromTx(t, height)]
<1> DEFINE s == Ins[t]
           n == Len(s)
           base == [coins |-> c, undo |-> <<>>]
           step == [z \in SpendAcc \X (1 .. n) |-> SpendInput(z[1], s[z[2]])]
<1>1. n \in Nat /\ DOMAIN s = 1 .. n /\ \A k \in 1 .. n : s[k] \in Tx \X Nat
  BY TxAssumption DEF TxAssumption
<1>2. base \in SpendAcc
  BY DEF SpendAcc, TxUndo
<1> HIDE DEF s, n, base
<1>3. StepOn(step, SpendAcc, n)
  BY <1>1, SpendInputType DEF Closed, StepOn
<1>4. PICK g \in [SUBSET (1 .. n) -> SpendAcc] : SolvesTo(g, base, step, n)
  <2> HIDE DEF step
  <2>q. QED  BY <1>1, <1>2, <1>3, SequenceRecursion
<1>5. g = [x \in SUBSET DOMAIN s |->
             IF x = {} THEN base ELSE SpendInput(g[x \ {Max(x)}], s[Max(x)])]
  BY <1>1, <1>4, MaxTo DEF SolvesTo
<1>6. PICK f : /\ f = [x \in SUBSET DOMAIN s |->
                          IF x = {} THEN base ELSE SpendInput(f[x \ {Max(x)}], s[Max(x)])]
               /\ FoldLeft(SpendInput, base, s) = f[DOMAIN s]
  BY <1>5 DEF FoldLeft, MapThenFoldSet
<1>7. Unrolls(f, base, step, n)
  BY <1>1, <1>6, MaxTo DEF Unrolls
<1>8. PICK h : Runs(h, base, step, SpendAcc, n) /\ h[n] = f[1 .. n]
  <2> HIDE DEF step
  <2>q. QED  BY <1>1, <1>2, <1>3, <1>7, Unrolled
<1>9. \A k \in 1 .. n : h[k] = SpendInput(h[k - 1], s[k])
  <2> SUFFICES ASSUME NEW k \in 1 .. n PROVE h[k] = SpendInput(h[k - 1], s[k])
    OBVIOUS
  <2>1. h[k - 1] \in SpendAcc
    BY <1>1, <1>8 DEF Runs
  <2>q. QED  BY <1>8, <2>1 DEF Runs
<1>10. /\ h \in [0 .. n -> SpendAcc]
       /\ h[0] = base /\ FoldLeft(SpendInput, base, s) = h[n]
  BY <1>1, <1>6, <1>8 DEF Runs
<1>q. QED  BY <1>9, <1>10 DEF UpdateCoins, s, n, base

\* coins as UpdateCoins leaves them: nothing is kept of a transaction that is spent
Normal(c) ==
    /\ c \in CoinsMap
    /\ \A t \in Tx : /\ c[t].out = {} => c[t] = NoCoins
                     /\ c[t].out # {} => c[t].height # 0
                     /\ c[t].out \subseteq 0 .. (Outs[t] - 1)

\* the coins c without the outputs S
Spent(c, S) ==
    [t \in Tx |-> LET rest == {n \in c[t].out : <<t, n>> \notin S}
                  IN  IF rest = {} THEN NoCoins ELSE [c[t] EXCEPT !.out = rest]]

LEMMA SpentFields ==
    ASSUME NEW c, Normal(c), NEW S, NEW t \in Tx
    PROVE  /\ Spent(c, S)[t] \in CoinsType
           /\ Spent(c, S)[t].out = {n \in c[t].out : <<t, n>> \notin S}
           /\ Spent(c, S)[t].out # {} => /\ Spent(c, S)[t].cb = c[t].cb
                                         /\ Spent(c, S)[t].height = c[t].height
           /\ Spent(c, S)[t].out = {} => Spent(c, S)[t] = NoCoins
<1>1. c[t] \in CoinsType
  BY DEF Normal, CoinsMap
<1> DEFINE rest == {n \in c[t].out : <<t, n>> \notin S}
<1>2. rest \subseteq Nat
  BY <1>1 DEF CoinsType
<1>3. CASE rest = {}
  <2>1. Spent(c, S)[t] = NoCoins
    BY <1>3 DEF Spent
  <2>q. QED  BY <1>3, <2>1 DEF NoCoins, CoinsType
<1>4. CASE rest # {}
  <2>1. Spent(c, S)[t] = [c[t] EXCEPT !.out = rest]
    BY <1>4 DEF Spent
  <2> HIDE DEF rest
  <2>2. [c[t] EXCEPT !.out = rest] \in CoinsType /\ [c[t] EXCEPT !.out = rest].out = rest
        /\ [c[t] EXCEPT !.out = rest].cb = c[t].cb /\ [c[t] EXCEPT !.out = rest].height = c[t].height
    BY <1>1, <1>2 DEF CoinsType
  <2>q. QED  BY <1>4, <2>1, <2>2 DEF rest
<1>q. QED  BY <1>3, <1>4

LEMMA SpentNormal ==
    ASSUME NEW c, Normal(c), NEW S
    PROVE  Normal(Spent(c, S))
<1>1. \A t \in Tx : Spent(c, S)[t] \in CoinsType
  BY SpentFields
<1>2. Spent(c, S) \in CoinsMap
  BY <1>1 DEF Spent, CoinsMap
<1>3. ASSUME NEW t \in Tx
      PROVE  /\ Spent(c, S)[t].out = {} => Spent(c, S)[t] = NoCoins
             /\ Spent(c, S)[t].out # {} => Spent(c, S)[t].height # 0
             /\ Spent(c, S)[t].out \subseteq 0 .. (Outs[t] - 1)
  <2>1. /\ Spent(c, S)[t].out = {n \in c[t].out : <<t, n>> \notin S}
        /\ Spent(c, S)[t].out # {} => Spent(c, S)[t].height = c[t].height
        /\ Spent(c, S)[t].out = {} => Spent(c, S)[t] = NoCoins
    BY SpentFields
  <2>2. (c[t].out # {} => c[t].height # 0) /\ c[t].out \subseteq 0 .. (Outs[t] - 1)
    BY DEF Normal
  <2>q. QED  BY <2>1, <2>2
<1>q. QED  BY <1>2, <1>3 DEF Normal

\* two coins with the same outputs, height and kind are the same
LEMMA CoinsEqual ==
    ASSUME NEW x \in CoinsType, NEW y \in CoinsType,
           x.out = y.out, x.cb = y.cb, x.height = y.height
    PROVE  x = y
BY DEF CoinsType

LEMMA SpentNothing ==
    ASSUME NEW c, Normal(c)
    PROVE  Spent(c, {}) = c
<1> SUFFICES ASSUME NEW t \in Tx PROVE Spent(c, {})[t] = c[t]
  BY DEF Spent, Normal, CoinsMap
<1>1. c[t] \in CoinsType
  BY DEF Normal, CoinsMap
<1>2. Spent(c, {})[t].out = c[t].out
  <2> DEFINE R == {}
  <2> HIDE DEF R
  <2>1. Spent(c, R)[t].out = {n \in c[t].out : <<t, n>> \notin R}
    BY SpentFields
  <2>q. QED  BY <2>1 DEF R
<1>3. CASE c[t].out = {}
  BY <1>2, <1>3, SpentFields DEF Normal
<1>4. CASE c[t].out # {}
  BY <1>1, <1>2, <1>4, SpentFields, CoinsEqual
<1>q. QED  BY <1>3, <1>4

LEMMA SpendMore ==
    ASSUME NEW c, Normal(c), NEW S, NEW o \in Tx \X Nat
    PROVE  Spend(Spent(c, S), o) = Spent(c, S \cup {o})
<1> DEFINE d == Spent(c, S)
           e == Spent(c, S \cup {o})
<1>0. o[1] \in Tx /\ o = <<o[1], o[2]>> /\ d \in [Tx -> CoinsType]
  BY SpentNormal DEF Normal, CoinsMap
<1>1. Spend(d, o) \in [Tx -> CoinsType] /\ e \in [Tx -> CoinsType]
  BY <1>0, SpendType, SpentNormal DEF Normal, CoinsMap
<1> SUFFICES ASSUME NEW t \in Tx PROVE Spend(d, o)[t] = e[t]
  BY <1>1
<1>2. d[t].out = {n \in c[t].out : <<t, n>> \notin S}
      /\ e[t].out = {n \in c[t].out : <<t, n>> \notin S \cup {o}}
      /\ (e[t].out = {} => e[t] = NoCoins) /\ (d[t].out = {} => d[t] = NoCoins)
      /\ (d[t].out # {} => d[t].cb = c[t].cb /\ d[t].height = c[t].height)
      /\ (e[t].out # {} => e[t].cb = c[t].cb /\ e[t].height = c[t].height)
      /\ d[t] \in CoinsType /\ e[t] \in CoinsType
  <2> DEFINE R == S \cup {o}
  <2> HIDE DEF R
  <2>1. /\ Spent(c, R)[t] \in CoinsType
        /\ Spent(c, R)[t].out = {n \in c[t].out : <<t, n>> \notin R}
        /\ Spent(c, R)[t].out # {} => /\ Spent(c, R)[t].cb = c[t].cb
                                      /\ Spent(c, R)[t].height = c[t].height
        /\ Spent(c, R)[t].out = {} => Spent(c, R)[t] = NoCoins
    BY SpentFields
  <2>2. /\ d[t] \in CoinsType
        /\ d[t].out = {n \in c[t].out : <<t, n>> \notin S}
        /\ d[t].out # {} => d[t].cb = c[t].cb /\ d[t].height = c[t].height
        /\ d[t].out = {} => d[t] = NoCoins
    BY SpentFields
  <2>q. QED  BY <2>1, <2>2 DEF R
<1> HIDE DEF d, e
<1>3. CASE t # o[1]
  <2>1. Spend(d, o)[t] = d[t]
    BY <1>0, <1>3 DEF Spend
  <2>2. e[t].out = d[t].out
    BY <1>0, <1>2, <1>3
  <2>q. QED  BY <1>2, <2>1, <2>2, CoinsEqual
<1>4. CASE t = o[1]
  <2> DEFINE rest == d[t].out \ {o[2]}
  <2>1. Spend(d, o)[t] = IF rest = {} THEN NoCoins ELSE [d[t] EXCEPT !.out = rest]
    BY <1>0, <1>4 DEF Spend
  <2>2. e[t].out = rest
    BY <1>0, <1>2, <1>4
  <2>3. CASE rest = {}
    BY <1>2, <2>1, <2>2, <2>3
  <2>4. CASE rest # {}
    <3>1. Spend(d, o)[t] = [d[t] EXCEPT !.out = rest] /\ d[t].out # {}
      BY <2>1, <2>4
    <3> HIDE DEF rest
    <3>2. Spend(d, o)[t] \in CoinsType
      BY <1>1
    <3>3. [d[t] EXCEPT !.out = rest].out = rest /\ [d[t] EXCEPT !.out = rest].cb = d[t].cb
          /\ [d[t] EXCEPT !.out = rest].height = d[t].height
      BY <1>2 DEF CoinsType
    <3>q. QED  BY <1>2, <2>2, <2>4, <3>1, <3>2, <3>3, CoinsEqual
  <2>q. QED  BY <2>3, <2>4
<1>q. QED  BY <1>3, <1>4

\* the inputs of t up to the k-th
InputsTo(t, k) == {Ins[t][i] : i \in 1 .. k}

LEMMA InputsAll ==
    ASSUME NEW t \in Tx
    PROVE  /\ Len(Ins[t]) \in Nat /\ DOMAIN Ins[t] = 1 .. Len(Ins[t])
           /\ InputsTo(t, Len(Ins[t])) = Inputs(t) /\ InputsTo(t, 0) = {}
           /\ \A k \in 1 .. Len(Ins[t]) : /\ Ins[t][k] \in Tx \X Nat /\ Ins[t][k] \in Inputs(t)
                                          /\ InputsTo(t, k) = InputsTo(t, k - 1) \cup {Ins[t][k]}
                                          /\ Ins[t][k] \notin InputsTo(t, k - 1)
           /\ Inputs(t) \subseteq Tx \X Nat
<1>1. Ins[t] \in Seq(Tx \X Nat) /\ \A i, j \in DOMAIN Ins[t] : Ins[t][i] = Ins[t][j] => i = j
  BY TxAssumption DEF TxAssumption
<1> DEFINE n == Len(Ins[t])
<1>2. n \in Nat /\ DOMAIN Ins[t] = 1 .. n /\ \A k \in 1 .. n : Ins[t][k] \in Tx \X Nat
  BY <1>1
<1> HIDE DEF n
<1>3. InputsTo(t, n) = Inputs(t)
  BY <1>2 DEF InputsTo, Inputs, Range
<1>4. InputsTo(t, 0) = {}
  BY DEF InputsTo
<1>5. ASSUME NEW k \in 1 .. n
      PROVE  /\ Ins[t][k] \in Inputs(t)
             /\ InputsTo(t, k) = InputsTo(t, k - 1) \cup {Ins[t][k]}
             /\ Ins[t][k] \notin InputsTo(t, k - 1)
  <2>1. 1 .. k = (1 .. (k - 1)) \cup {k} /\ k \notin 1 .. (k - 1) /\ 1 .. (k - 1) \subseteq 1 .. n
    BY <1>2
  <2>2. Ins[t][k] \in Inputs(t)
    BY <1>2 DEF Inputs, Range
  <2>3. InputsTo(t, k) = InputsTo(t, k - 1) \cup {Ins[t][k]}
    BY <2>1 DEF InputsTo
  <2>4. \A i \in 1 .. (k - 1) : Ins[t][i] # Ins[t][k]
    BY <1>1, <1>2, <2>1
  <2>5. Ins[t][k] \notin InputsTo(t, k - 1)
    BY <2>4 DEF InputsTo
  <2>q. QED  BY <2>2, <2>3, <2>5
<1>6. Inputs(t) \subseteq Tx \X Nat
  BY <1>2 DEF Inputs, Range
<1>q. QED  BY <1>2, <1>3, <1>4, <1>5, <1>6 DEF n

\* what each input leaves in the loop of UpdateCoins, and what its CTxInUndo says
Spending(h, c, t) ==
    \A k \in 0 .. Len(Ins[t]) :
        /\ h[k].coins = Spent(c, InputsTo(t, k))
        /\ h[k].undo \in TxUndo /\ Len(h[k].undo) = k
        /\ \A i \in 1 .. k : h[k].undo[i] = h[i].undo[i]

LEMMA SpendingLoop ==
    ASSUME NEW c, Normal(c), NEW t \in Tx,
           NEW h \in [0 .. Len(Ins[t]) -> SpendAcc],
           h[0] = [coins |-> c, undo |-> <<>>],
           \A k \in 1 .. Len(Ins[t]) : h[k] = SpendInput(h[k - 1], Ins[t][k])
    PROVE  Spending(h, c, t)
<1> DEFINE n == Len(Ins[t])
           Fact(k) == /\ h[k].coins = Spent(c, InputsTo(t, k))
                      /\ Len(h[k].undo) = k
                      /\ \A i \in 1 .. k : h[k].undo[i] = h[i].undo[i]
           T == {k \in 0 .. n : Fact(k)}
<1>0. n \in Nat
  BY InputsAll
<1>1. 0 \in T
  <2>1. h[0].coins = Spent(c, InputsTo(t, 0))
    <3>1. h[0].coins = c /\ InputsTo(t, 0) = {}
      BY InputsAll
    <3>q. QED  BY <3>1, SpentNothing
  <2>2. Len(h[0].undo) = 0
    OBVIOUS
  <2>q. QED  BY <1>0, <2>1, <2>2
<1>2. ASSUME NEW k \in 1 .. n, k - 1 \in T PROVE k \in T
  <2> DEFINE o == Ins[t][k]
             a == h[k - 1]
             e == IF Spend(a.coins, o)[o[1]].out = {} THEN Meta(a.coins[o[1]])
                  ELSE [height |-> 0, cb |-> FALSE]
  <2>1. o \in Tx \X Nat /\ InputsTo(t, k) = InputsTo(t, k - 1) \cup {o}
    BY InputsAll
  <2>2. a \in SpendAcc /\ Fact(k - 1)
    BY <1>0, <1>2
  <2>3. h[k] = [coins |-> Spend(a.coins, o), undo |-> Append(a.undo, e)]
    BY <1>2 DEF SpendInput
  <2>4. h[k].coins = Spent(c, InputsTo(t, k))
    <3> DEFINE S == InputsTo(t, k - 1)
    <3>1. a.coins = Spent(c, S) /\ InputsTo(t, k) = S \cup {o} /\ h[k].coins = Spend(a.coins, o)
      BY <2>1, <2>2, <2>3
    <3> HIDE DEF S, o, a
    <3>2. Spend(Spent(c, S), o) = Spent(c, S \cup {o})
      BY <2>1, SpendMore
    <3>q. QED  BY <3>1, <3>2
  <2>5. a.undo \in TxUndo /\ Len(a.undo) = k - 1
    BY <2>2 DEF SpendAcc
  <2> HIDE DEF a, e, o
  <2>6. Len(h[k].undo) = k /\ \A i \in 1 .. (k - 1) : h[k].undo[i] = a.undo[i]
    BY <2>3, <2>5 DEF TxUndo
  <2>7. \A i \in 1 .. k : h[k].undo[i] = h[i].undo[i]
    <3> SUFFICES ASSUME NEW i \in 1 .. k PROVE h[k].undo[i] = h[i].undo[i]
      OBVIOUS
    <3>1. CASE i = k
      BY <3>1
    <3>2. CASE i # k
      <4>1. i \in 1 .. (k - 1)
        BY <3>2
      <4>2. a.undo[i] = h[i].undo[i]
        BY <2>2, <4>1 DEF a
      <4>q. QED  BY <2>6, <4>1, <4>2
    <3>q. QED  BY <3>1, <3>2
  <2>q. QED  BY <2>4, <2>6, <2>7
<1> HIDE DEF T
<1>3. \A k \in 0 .. n : k \in T
  BY <1>0, <1>1, <1>2, InductionTo
<1>q. QED  BY <1>3 DEF T, Spending, SpendAcc

LEMMA UpdateCoinsClosed ==
    ASSUME NEW c, Normal(c), NEW t \in Tx, NEW height
    PROVE  UpdateCoins(c, t, height).coins = [Spent(c, Inputs(t)) EXCEPT ![t] = FromTx(t, height)]
<1>0. c \in CoinsMap
  BY DEF Normal
<1>1. PICK h \in [0 .. Len(Ins[t]) -> SpendAcc] :
              /\ h[0] = [coins |-> c, undo |-> <<>>]
              /\ \A k \in 1 .. Len(Ins[t]) : h[k] = SpendInput(h[k - 1], Ins[t][k])
              /\ \A hh : UpdateCoins(c, t, hh) =
                                [h[Len(Ins[t])] EXCEPT !.coins[t] = FromTx(t, hh)]
  BY <1>0, SpendInputs
<1> DEFINE n == Len(Ins[t])
<1>2. n \in Nat /\ InputsTo(t, n) = Inputs(t)
  BY InputsAll
<1>3. Spending(h, c, t)
  BY <1>1, SpendingLoop
<1>4. h[n].coins = Spent(c, Inputs(t)) /\ h[n] \in SpendAcc
  BY <1>2, <1>3 DEF Spending
<1>q. QED  BY <1>1, <1>4 DEF SpendAcc

----------------------------------------------------------------------------
(* Undo records give back what was spent. *)

UndoAcc == [coins : CoinsMap, clean : BOOLEAN]

LEMMA ApplyType ==
    ASSUME NEW a \in UndoAcc, NEW u \in InUndo, NEW o \in Tx \X Nat
    PROVE  ApplyTxInUndo(a, u, o) \in UndoAcc
<1> DEFINE c == a.coins[o[1]]
           fresh == IF u.height # 0 THEN [out |-> {}, cb |-> u.cb, height |-> u.height] ELSE c
           full == [fresh EXCEPT !.out = @ \cup {o[2]}]
           clean == /\ IF u.height # 0 THEN c.out = {} ELSE c.out # {}
                    /\ o[2] \notin fresh.out
<1>1. a.coins \in [Tx -> CoinsType] /\ o[1] \in Tx /\ o[2] \in Nat /\ c \in CoinsType
  BY DEF UndoAcc, CoinsMap
<1>2. fresh \in CoinsType
  BY <1>1 DEF CoinsType, InUndo
<1>3. full \in CoinsType
  <2> HIDE DEF fresh, c
  <2>q. QED  BY <1>1, <1>2 DEF CoinsType
<1>4. (a.clean /\ clean) \in BOOLEAN
  OBVIOUS
<1>5. ApplyTxInUndo(a, u, o) = [coins |-> [a.coins EXCEPT ![o[1]] = full], clean |-> a.clean /\ clean]
  BY DEF ApplyTxInUndo
<1> HIDE DEF full, fresh, c, clean
<1>6. [a.coins EXCEPT ![o[1]] = full] \in CoinsMap
  BY <1>1, <1>3 DEF CoinsMap
<1>q. QED  BY <1>4, <1>5, <1>6 DEF UndoAcc

\* the CTxInUndo that UpdateCoins makes when it spends o
UndoOf(c, o) == IF Spend(c, o)[o[1]].out = {} THEN Meta(c[o[1]]) ELSE [height |-> 0, cb |-> FALSE]

\* ApplyTxInUndo takes back one step of the loop in UpdateCoins
LEMMA UndoOne ==
    ASSUME NEW c, Normal(c), NEW o \in Tx \X Nat, Available(c, o), NEW u, u = UndoOf(c, o)
    PROVE  ApplyTxInUndo([coins |-> Spend(c, o), clean |-> TRUE], u, o) = [coins |-> c, clean |-> TRUE]
<1> DEFINE p == o[1]
           n == o[2]
           rest == c[p].out \ {n}
           d == Spend(c, o)
<1>1. c \in [Tx -> CoinsType] /\ p \in Tx /\ n \in Nat /\ c[p] \in CoinsType /\ n \in c[p].out
      /\ c[p].height # 0
  BY DEF Normal, CoinsMap, Available
<1>2. d = [c EXCEPT ![p] = IF rest = {} THEN NoCoins ELSE [c[p] EXCEPT !.out = rest]]
  BY DEF Spend
<1>3. rest \cup {n} = c[p].out /\ n \notin rest
  BY <1>1
<1> DEFINE fresh == IF u.height # 0 THEN [out |-> {}, cb |-> u.cb, height |-> u.height] ELSE d[p]
           full == [fresh EXCEPT !.out = fresh.out \cup {n}]
           clean == /\ IF u.height # 0 THEN d[p].out = {} ELSE d[p].out # {}
                    /\ n \notin fresh.out
<1>4. full = c[p] /\ clean
  <2>1. CASE rest = {}
    <3>1. d[p] = NoCoins
      BY <1>1, <1>2, <2>1
    <3>2. d[p].out = {}
      BY <3>1 DEF NoCoins
    <3>3. u = [height |-> c[p].height, cb |-> c[p].cb]
      BY <3>2 DEF Meta, UndoOf
    <3>4. u.height = c[p].height /\ u.cb = c[p].cb
      BY <3>3
    <3>41. fresh = [out |-> {}, cb |-> c[p].cb, height |-> c[p].height]
      <4> HIDE DEF d, p
      <4>q. QED  BY <1>1, <3>4
    <3>5. full = [out |-> {n}, cb |-> c[p].cb, height |-> c[p].height]
      <4> HIDE DEF fresh, p, n
      <4>q. QED  BY <3>41
    <3>6. c[p] = [out |-> c[p].out, cb |-> c[p].cb, height |-> c[p].height] /\ c[p].out = {n}
      BY <1>1, <1>3, <2>1 DEF CoinsType
    <3>7. clean
      BY <1>1, <3>2, <3>4, <3>41
    <3>q. QED  BY <3>5, <3>6, <3>7
  <2>2. CASE rest # {}
    <3> HIDE DEF rest
    <3>1. d[p] = [c[p] EXCEPT !.out = rest]
      BY <1>1, <1>2, <2>2
    <3>2. d[p].out = rest
      BY <1>1, <3>1 DEF CoinsType
    <3>3. u.height = 0
      BY <2>2, <3>2 DEF UndoOf
    <3>4. fresh = d[p]
      BY <3>3
    <3>5. full = [c[p] EXCEPT !.out = rest \cup {n}]
      BY <1>1, <3>1, <3>2, <3>4 DEF CoinsType
    <3>6. full = c[p]
      BY <1>1, <1>3, <3>5 DEF CoinsType
    <3>7. clean
      BY <1>3, <2>2, <3>2, <3>3, <3>4
    <3>q. QED  BY <3>6, <3>7
  <2>q. QED  BY <2>1, <2>2
<1>5. [d EXCEPT ![p] = c[p]] = c
  BY <1>1, <1>2
<1>6. ApplyTxInUndo([coins |-> d, clean |-> TRUE], u, o) =
        [coins |-> [d EXCEPT ![p] = full], clean |-> TRUE /\ clean]
  BY DEF ApplyTxInUndo
<1> HIDE DEF full, clean, d, p
<1>q. QED  BY <1>4, <1>5, <1>6 DEF d

\* the positions 1 .. n in reverse
Down(n) == [i \in 1 .. n |-> n - i + 1]

LEMMA BackwardsDown ==
    ASSUME NEW n \in Nat, NEW D, D = 1 .. n
    PROVE  Backwards([j \in D |-> j]) = Down(n) /\ DOMAIN Down(n) = 1 .. n
           /\ \A k \in 1 .. n : Down(n)[k] = n - k + 1 /\ n - k + 1 \in 1 .. n
<1> DEFINE s == [j \in D |-> j]
<1>1. s \in Seq(Nat) /\ Len(s) = n
  OBVIOUS
<1>2. Reverse(s) = [i \in 1 .. n |-> s[n - i + 1]]
  BY <1>1 DEF Reverse
<1>3. \A k \in 1 .. n : n - k + 1 \in 1 .. n
  OBVIOUS
<1>q. QED  BY <1>2, <1>3 DEF Backwards, Down

\* the loop over the inputs of a transaction in DisconnectBlock
UndoTxRun(h, a, t, height, u) ==
    LET n == Len(Ins[t])
    IN  /\ h \in [0 .. n -> UndoAcc] /\ h[0] = TakeBack(a, t, height)
        /\ \A k \in 1 .. n : h[k] = ApplyTxInUndo(h[k - 1], u[n - k + 1], Ins[t][n - k + 1])
        /\ UndoTx(a, t, height, u) = h[n]

LEMMA UndoTxRuns ==
    ASSUME NEW a \in UndoAcc, NEW t \in Tx, NEW height, NEW u \in TxUndo, Len(u) = Len(Ins[t])
    PROVE  \E h : UndoTxRun(h, a, t, height, u)
<1> DEFINE n == Len(Ins[t])
           s == Down(n)
           base == TakeBack(a, t, height)
           step == [z \in UndoAcc \X (1 .. n) |-> ApplyTxInUndo(z[1], u[s[z[2]]], Ins[t][s[z[2]]])]
<1>1. n \in Nat /\ DOMAIN Ins[t] = 1 .. n /\ \A k \in 1 .. n : Ins[t][k] \in Tx \X Nat
  BY InputsAll
<1>2. \A k \in 1 .. n : u[k] \in InUndo
  BY <1>1 DEF TxUndo
<1>3. base \in UndoAcc
  <2>1. NoCoins \in CoinsType
    BY DEF NoCoins, CoinsType
  <2>2. a.coins \in CoinsMap /\ [a.coins EXCEPT ![t] = NoCoins] \in CoinsMap
    BY <2>1 DEF UndoAcc, CoinsMap
  <2>q. QED  BY <2>2 DEF TakeBack, UndoAcc
<1>4. Backwards([j \in DOMAIN Ins[t] |-> j]) = s /\ DOMAIN s = 1 .. n
      /\ \A k \in 1 .. n : s[k] = n - k + 1 /\ s[k] \in 1 .. n
  BY <1>1, BackwardsDown
<1> HIDE DEF s, n, base
<1>5. StepOn(step, UndoAcc, n)
  BY <1>1, <1>2, <1>4, ApplyType DEF Closed, StepOn
<1>6. PICK g \in [SUBSET (1 .. n) -> UndoAcc] : SolvesTo(g, base, step, n)
  <2> HIDE DEF step
  <2>q. QED  BY <1>1, <1>3, <1>5, SequenceRecursion
<1>7. g = [x \in SUBSET DOMAIN s |->
             IF x = {} THEN base
             ELSE ApplyTxInUndo(g[x \ {Max(x)}], u[s[Max(x)]], Ins[t][s[Max(x)]])]
  BY <1>1, <1>4, <1>6, MaxTo DEF SolvesTo
<1>8. PICK f : /\ f = [x \in SUBSET DOMAIN s |->
                         IF x = {} THEN base
                         ELSE ApplyTxInUndo(f[x \ {Max(x)}], u[s[Max(x)]], Ins[t][s[Max(x)]])]
               /\ FoldLeft(LAMBDA x, j : ApplyTxInUndo(x, u[j], Ins[t][j]), base, s) = f[DOMAIN s]
  BY <1>7 DEF FoldLeft, MapThenFoldSet
<1>9. Unrolls(f, base, step, n)
  BY <1>1, <1>4, <1>8, MaxTo DEF Unrolls
<1>10. PICK h : Runs(h, base, step, UndoAcc, n) /\ h[n] = f[1 .. n]
  <2> HIDE DEF step
  <2>q. QED  BY <1>1, <1>3, <1>5, <1>9, Unrolled
<1>11. \A k \in 1 .. n : h[k] = ApplyTxInUndo(h[k - 1], u[n - k + 1], Ins[t][n - k + 1])
  <2> SUFFICES ASSUME NEW k \in 1 .. n
               PROVE  h[k] = ApplyTxInUndo(h[k - 1], u[s[k]], Ins[t][s[k]])
    BY <1>4
  <2>1. h[k - 1] \in UndoAcc
    BY <1>1, <1>10 DEF Runs
  <2>q. QED  BY <1>10, <2>1 DEF Runs
<1>12. h \in [0 .. n -> UndoAcc] /\ h[0] = base /\ UndoTx(a, t, height, u) = h[n]
  BY <1>1, <1>4, <1>8, <1>10 DEF Runs, UndoTx, base
<1>q. QED  BY <1>11, <1>12 DEF n, base, UndoTxRun

\* a transaction is undone exactly: DisconnectBlock finds nothing wrong with it
LEMMA TxUndone ==
    ASSUME NEW c, Normal(c), NEW t \in Tx, c[t] = NoCoins, NEW height \in Nat,
           \A o \in Inputs(t) : Available(c, o)
    PROVE  /\ UpdateCoins(c, t, height).undo \in TxUndo
           /\ Len(UpdateCoins(c, t, height).undo) = Len(Ins[t])
           /\ UndoTx([coins |-> UpdateCoins(c, t, height).coins, clean |-> TRUE],
                     t, height, UpdateCoins(c, t, height).undo) = [coins |-> c, clean |-> TRUE]
<1> DEFINE n == Len(Ins[t])
           U == UpdateCoins(c, t, height)
<1>0. c \in CoinsMap
  BY DEF Normal
<1>1. PICK h \in [0 .. n -> SpendAcc] :
         /\ h[0] = [coins |-> c, undo |-> <<>>]
         /\ \A k \in 1 .. n : h[k] = SpendInput(h[k - 1], Ins[t][k])
         /\ \A hh : UpdateCoins(c, t, hh) = [h[n] EXCEPT !.coins[t] = FromTx(t, hh)]
  BY <1>0, SpendInputs
<1>2. n \in Nat /\ InputsTo(t, n) = Inputs(t) /\ DOMAIN Ins[t] = 1 .. n
  BY InputsAll
<1>3. Spending(h, c, t)
  BY <1>1, SpendingLoop
<1>4. h[n] \in SpendAcc /\ h[n].coins = Spent(c, Inputs(t)) /\ Len(h[n].undo) = n
  BY <1>2, <1>3 DEF Spending
<1>5. U.coins = [h[n].coins EXCEPT ![t] = FromTx(t, height)] /\ U.undo = h[n].undo
  BY <1>1, <1>4 DEF SpendAcc
<1>6. U.undo \in TxUndo /\ Len(U.undo) = n
  BY <1>4, <1>5 DEF SpendAcc
<1> HIDE DEF U, n
<1>7. FromTx(t, height) \in CoinsType
  <2>1. 0 .. (Outs[t] - 1) \subseteq Nat
    BY TxAssumption DEF TxAssumption
  <2>q. QED  BY <2>1 DEF FromTx, CoinsType
<1>8. U.coins \in CoinsMap
  BY <1>4, <1>5, <1>7 DEF SpendAcc, CoinsMap
<1>9. [coins |-> U.coins, clean |-> TRUE] \in UndoAcc
  BY <1>8 DEF UndoAcc
<1>10. PICK r \in [0 .. n -> UndoAcc] :
          /\ r[0] = TakeBack([coins |-> U.coins, clean |-> TRUE], t, height)
          /\ \A k \in 1 .. n : r[k] = ApplyTxInUndo(r[k - 1], U.undo[n - k + 1], Ins[t][n - k + 1])
          /\ UndoTx([coins |-> U.coins, clean |-> TRUE], t, height, U.undo) = r[n]
  <2> DEFINE a == [coins |-> U.coins, clean |-> TRUE]
  <2> HIDE DEF a
  <2>1. a \in UndoAcc
    BY <1>9 DEF a
  <2>2. PICK r : UndoTxRun(r, a, t, height, U.undo)
    BY <1>6, <2>1, UndoTxRuns DEF n
  <2>q. QED  BY <2>2 DEF a, n, UndoTxRun
<1> DEFINE T == {k \in 0 .. n : r[k] = [coins |-> h[n - k].coins, clean |-> TRUE]}
<1>11. 0 \in T
  <2>1. h[n].coins[t] = NoCoins
    <3>1. c[t].out = {}
      BY DEF NoCoins
    <3>2. Spent(c, Inputs(t))[t].out = {}
      <4>1. Spent(c, Inputs(t))[t].out = {m \in c[t].out : <<t, m>> \notin Inputs(t)}
        BY SpentFields
      <4>q. QED  BY <3>1, <4>1
    <3>q. QED  BY <1>4, <3>2, SpentFields
  <2>2. h[n].coins \in [Tx -> CoinsType]
    BY <1>4 DEF SpendAcc, CoinsMap
  <2>3. [U.coins EXCEPT ![t] = NoCoins] = h[n].coins
    BY <1>5, <2>1, <2>2
  <2>4. U.coins[t] = FromTx(t, height)
    BY <1>5, <2>2
  <2>5. r[0] = [coins |-> h[n].coins, clean |-> TRUE]
    BY <1>10, <2>3, <2>4 DEF TakeBack
  <2>q. QED  BY <1>2, <2>5
<1>12. ASSUME NEW k \in 1 .. n, k - 1 \in T PROVE k \in T
  <2> DEFINE j == n - k + 1
             o == Ins[t][j]
             d == h[j - 1].coins
  <2>1. j \in 1 .. n /\ j - 1 \in 0 .. n /\ n - (k - 1) = j /\ n - k = j - 1
    BY <1>2
  <2> HIDE DEF j
  <2>2. r[k - 1] = [coins |-> h[j].coins, clean |-> TRUE] /\ r[k] = ApplyTxInUndo(r[k - 1], U.undo[j], o)
    BY <1>10, <1>12, <2>1 DEF j
  <2>3. h[j] = SpendInput(h[j - 1], o) /\ h[j - 1] \in SpendAcc
    BY <1>1, <2>1
  <2>4. h[j].coins = Spend(d, o) /\ h[j].undo = Append(h[j - 1].undo, UndoOf(d, o))
    <3>1. \A a : SpendInput(a, o) = [coins |-> Spend(a.coins, o),
                                     undo |-> Append(a.undo, UndoOf(a.coins, o))]
      BY DEF SpendInput, UndoOf
    <3> HIDE DEF o
    <3>2. h[j] = [coins |-> Spend(d, o), undo |-> Append(h[j - 1].undo, UndoOf(d, o))]
      BY <2>3, <3>1
    <3>q. QED  BY <3>2
  <2>5. h[j - 1].undo \in TxUndo /\ Len(h[j - 1].undo) = j - 1
    BY <1>3, <2>1 DEF Spending, n
  <2>6. h[j].undo[j] = UndoOf(d, o)
    BY <2>1, <2>4, <2>5 DEF TxUndo
  <2>7. U.undo[j] = UndoOf(d, o)
    <3>1. h[n].undo[j] = h[j].undo[j]
      BY <1>2, <1>3, <2>1 DEF Spending, n
    <3>q. QED  BY <1>5, <2>6, <3>1
  <2>8. d = Spent(c, InputsTo(t, j - 1))
    BY <1>3, <2>1 DEF Spending, n
  <2>9. o \in Tx \X Nat /\ o \in Inputs(t) /\ o \notin InputsTo(t, j - 1)
    BY <2>1, InputsAll DEF n
  <2>10. Normal(d)
    BY <2>8, SpentNormal
  <2>11. Available(d, o)
    <3>1. d[o[1]].out = {m \in c[o[1]].out : <<o[1], m>> \notin InputsTo(t, j - 1)}
      BY <2>8, <2>9, SpentFields
    <3>2. o[2] \in c[o[1]].out /\ o = <<o[1], o[2]>>
      BY <2>9 DEF Available
    <3>q. QED  BY <2>9, <3>1, <3>2 DEF Available
  <2> HIDE DEF o, d
  <2>12. ApplyTxInUndo([coins |-> Spend(d, o), clean |-> TRUE], UndoOf(d, o), o) = [coins |-> d, clean |-> TRUE]
    BY <2>9, <2>10, <2>11, UndoOne
  <2>13. r[k] = [coins |-> d, clean |-> TRUE]
    BY <2>2, <2>4, <2>7, <2>12
  <2>14. h[n - k].coins = d /\ k \in 0 .. n
    BY <1>2, <2>1 DEF d
  <2>q. QED  BY <2>13, <2>14
<1> HIDE DEF T
<1>13. \A k \in 0 .. n : k \in T
  BY <1>2, <1>11, <1>12, InductionTo
<1>14. r[n] = [coins |-> h[0].coins, clean |-> TRUE]
  <2>1. n \in 0 .. n /\ n - n = 0
    BY <1>2
  <2>2. r[n] = [coins |-> h[n - n].coins, clean |-> TRUE]
    BY <1>13, <2>1 DEF T
  <2>q. QED  BY <2>1, <2>2
<1>q. QED  BY <1>1, <1>6, <1>10, <1>14 DEF U, n

----------------------------------------------------------------------------
(* Blocks. *)

ConnAcc == [ok : BOOLEAN, coins : CoinsMap, undo : Seq(TxUndo)]

LEMMA FromTxType ==
    ASSUME NEW t \in Tx, NEW height \in Nat
    PROVE  FromTx(t, height) \in CoinsType
<1>1. 0 .. (Outs[t] - 1) \subseteq Nat
  BY TxAssumption DEF TxAssumption
<1>q. QED  BY <1>1 DEF FromTx, CoinsType

LEMMA UpdateCoinsType ==
    ASSUME NEW c \in CoinsMap, NEW t \in Tx, NEW height \in Nat
    PROVE  UpdateCoins(c, t, height).coins \in CoinsMap /\ UpdateCoins(c, t, height).undo \in TxUndo
<1> DEFINE n == Len(Ins[t])
<1>1. PICK h \in [0 .. n -> SpendAcc] :
         /\ h[0] = [coins |-> c, undo |-> <<>>]
         /\ \A k \in 1 .. n : h[k] = SpendInput(h[k - 1], Ins[t][k])
         /\ \A hh : UpdateCoins(c, t, hh) = [h[n] EXCEPT !.coins[t] = FromTx(t, hh)]
  BY SpendInputs
<1>2. n \in Nat
  BY InputsAll
<1>3. h[n] \in SpendAcc
  BY <1>2
<1>4. FromTx(t, height) \in CoinsType
  BY FromTxType
<1>q. QED  BY <1>1, <1>3, <1>4 DEF SpendAcc, CoinsMap

LEMMA ConnectTxType ==
    ASSUME NEW a \in ConnAcc, NEW t \in Tx, NEW height \in Nat
    PROVE  ConnectTx(a, t, height) \in ConnAcc
<1> DEFINE u == UpdateCoins(a.coins, t, height)
<1>1. a.coins \in CoinsMap /\ a.undo \in Seq(TxUndo)
  BY DEF ConnAcc
<1>2. u.coins \in CoinsMap /\ u.undo \in TxUndo
  BY <1>1, UpdateCoinsType
<1> HIDE DEF u
<1>3. Append(a.undo, u.undo) \in Seq(TxUndo)
  BY <1>1, <1>2
<1>4. [ok |-> TRUE, coins |-> u.coins, undo |-> Append(a.undo, u.undo)] \in ConnAcc
  BY <1>2, <1>3 DEF ConnAcc
<1>5. [a EXCEPT !.ok = FALSE] \in ConnAcc
  BY DEF ConnAcc
<1>6. ConnectTx(a, t, height) \in {[ok |-> TRUE, coins |-> u.coins, undo |-> Append(a.undo, u.undo)],
                                   [a EXCEPT !.ok = FALSE]}
  BY DEF ConnectTx, u
<1>q. QED  BY <1>4, <1>5, <1>6

LEMMA BodyFacts ==
    ASSUME NEW b \in Block \ {Genesis}
    PROVE  /\ Len(Body[b]) \in Nat /\ Len(Body[b]) > 0 /\ DOMAIN Body[b] = 1 .. Len(Body[b])
           /\ \A k \in 1 .. Len(Body[b]) : /\ Body[b][k] \in Tx
                                           /\ Body[b][k] \in CoinBase <=> k = 1
           /\ Range(Body[b]) = {Body[b][k] : k \in 1 .. Len(Body[b])}
           /\ Height[b] \in Nat /\ Height[b] # 0
<1>1. Body[b] \in Seq(Tx) /\ Body[b] # <<>> /\ \A i \in DOMAIN Body[b] : Body[b][i] \in CoinBase <=> i = 1
  BY TxAssumption DEF TxAssumption
<1>2. Len(Body[b]) \in Nat /\ Len(Body[b]) > 0 /\ DOMAIN Body[b] = 1 .. Len(Body[b])
      /\ \A k \in 1 .. Len(Body[b]) : Body[b][k] \in Tx
  BY <1>1
<1>3. Height[b] \in Nat /\ Height[b] # 0
  <2>1. Parent[b] \in Block
    BY TxAssumption DEF TxAssumption
  <2>2. Height[Parent[b]] \in Nat /\ Height[b] = Height[Parent[b]] + 1
    BY <2>1, TxAssumption DEF TxAssumption
  <2>q. QED  BY <2>2
<1>q. QED  BY <1>1, <1>2, <1>3 DEF Range

\* the loop over the transactions of a block in ConnectBlock
ConnectRun(h, c, b) ==
    LET n == Len(Body[b])
    IN  /\ h \in [0 .. n -> ConnAcc]
        /\ h[0] = [ok |-> ~Overwrites(c, b), coins |-> c, undo |-> <<>>]
        /\ \A k \in 1 .. n : h[k] = ConnectTx(h[k - 1], Body[b][k], Height[b])
        /\ ConnectBlock(c, b) = h[n]

LEMMA ConnectRuns ==
    ASSUME NEW c \in CoinsMap, NEW b \in Block \ {Genesis}
    PROVE  \E h : ConnectRun(h, c, b)
<1> DEFINE s == Body[b]
           n == Len(s)
           hb == Height[b]
           base == [ok |-> ~Overwrites(c, b), coins |-> c, undo |-> <<>>]
           step == [z \in ConnAcc \X (1 .. n) |-> ConnectTx(z[1], s[z[2]], hb)]
<1>1. n \in Nat /\ DOMAIN s = 1 .. n /\ hb \in Nat /\ \A k \in 1 .. n : s[k] \in Tx
  BY BodyFacts
<1>2. base \in ConnAcc
  BY DEF ConnAcc, Overwrites
<1> HIDE DEF s, n, base, hb
<1>3. StepOn(step, ConnAcc, n)
  BY <1>1, ConnectTxType DEF Closed, StepOn
<1>4. PICK g \in [SUBSET (1 .. n) -> ConnAcc] : SolvesTo(g, base, step, n)
  <2> HIDE DEF step
  <2>q. QED  BY <1>1, <1>2, <1>3, SequenceRecursion
<1>5. g = [x \in SUBSET DOMAIN s |->
             IF x = {} THEN base ELSE ConnectTx(g[x \ {Max(x)}], s[Max(x)], hb)]
  BY <1>1, <1>4, MaxTo DEF SolvesTo
<1>6. PICK f : /\ f = [x \in SUBSET DOMAIN s |->
                         IF x = {} THEN base ELSE ConnectTx(f[x \ {Max(x)}], s[Max(x)], hb)]
               /\ FoldLeft(LAMBDA acc, t : ConnectTx(acc, t, hb), base, s) = f[DOMAIN s]
  BY <1>5 DEF FoldLeft, MapThenFoldSet
<1>7. Unrolls(f, base, step, n)
  BY <1>1, <1>6, MaxTo DEF Unrolls
<1>8. PICK h : Runs(h, base, step, ConnAcc, n) /\ h[n] = f[1 .. n]
  <2> HIDE DEF step
  <2>q. QED  BY <1>1, <1>2, <1>3, <1>7, Unrolled
<1>9. \A k \in 1 .. n : h[k] = ConnectTx(h[k - 1], s[k], hb)
  <2> SUFFICES ASSUME NEW k \in 1 .. n PROVE h[k] = ConnectTx(h[k - 1], s[k], hb)
    OBVIOUS
  <2>1. h[k - 1] \in ConnAcc
    BY <1>1, <1>8 DEF Runs
  <2>q. QED  BY <1>8, <2>1 DEF Runs
<1>10. h \in [0 .. n -> ConnAcc] /\ h[0] = base /\ ConnectBlock(c, b) = h[n]
  BY <1>1, <1>6, <1>8 DEF Runs, ConnectBlock, base, s, hb
<1>q. QED  BY <1>9, <1>10 DEF n, s, base, hb, ConnectRun

----------------------------------------------------------------------------
(* What a block that connects does to the coins. *)

\* the coins after the transactions D at a height, whatever their order
Mined(c, D, height) == [u \in Tx |-> IF u \in D THEN FromTx(u, height) ELSE c[u]]
SpentBy(D) == UNION {Inputs(u) : u \in D}
Applied(c, D, height) == Spent(Mined(c, D, height), SpentBy(D))

LEMMA MinedNormal ==
    ASSUME NEW c, Normal(c), NEW D, NEW height \in Nat, height # 0
    PROVE  Normal(Mined(c, D, height))
<1> DEFINE m == Mined(c, D, height)
<1>1. ASSUME NEW t \in Tx
      PROVE  /\ m[t] \in CoinsType
             /\ m[t].out = {} => m[t] = NoCoins
             /\ m[t].out # {} => m[t].height # 0
             /\ m[t].out \subseteq 0 .. (Outs[t] - 1)
  <2>1. CASE t \in D
    <3>1. m[t] = FromTx(t, height)
      BY <2>1 DEF Mined
    <3>2. m[t] \in CoinsType
      BY <3>1, FromTxType
    <3>3. m[t].out = 0 .. (Outs[t] - 1) /\ m[t].height = height
      BY <3>1 DEF FromTx
    <3>4. 0 \in m[t].out
      BY <3>3, TxAssumption DEF TxAssumption
    <3>q. QED  BY <3>2, <3>3, <3>4
  <2>2. CASE t \notin D
    <3>1. m[t] = c[t]
      BY <2>2 DEF Mined
    <3>q. QED  BY <3>1 DEF Normal, CoinsMap
  <2>q. QED  BY <2>1, <2>2
<1>2. m \in CoinsMap
  BY <1>1 DEF Mined, CoinsMap
<1> HIDE DEF m
<1>3. Normal(m)
  BY <1>1, <1>2 DEF Normal
<1>q. QED  BY <1>3 DEF m

LEMMA AppliedFields ==
    ASSUME NEW c, Normal(c), NEW D, NEW height \in Nat, height # 0, NEW t \in Tx
    PROVE  /\ Normal(Applied(c, D, height))
           /\ Applied(c, D, height)[t] \in CoinsType
           /\ Applied(c, D, height)[t].out =
                 {n \in Mined(c, D, height)[t].out : <<t, n>> \notin SpentBy(D)}
           /\ Applied(c, D, height)[t].out # {} =>
                 /\ Applied(c, D, height)[t].cb = Mined(c, D, height)[t].cb
                 /\ Applied(c, D, height)[t].height = Mined(c, D, height)[t].height
           /\ Applied(c, D, height)[t].out = {} => Applied(c, D, height)[t] = NoCoins
<1> DEFINE m == Mined(c, D, height)
           S == SpentBy(D)
<1>1. Normal(m)
  BY MinedNormal
<1> HIDE DEF m, S
<1>2. Normal(Spent(m, S))
  BY <1>1, SpentNormal
<1>3. /\ Spent(m, S)[t] \in CoinsType
      /\ Spent(m, S)[t].out = {n \in m[t].out : <<t, n>> \notin S}
      /\ Spent(m, S)[t].out # {} => /\ Spent(m, S)[t].cb = m[t].cb
                                    /\ Spent(m, S)[t].height = m[t].height
      /\ Spent(m, S)[t].out = {} => Spent(m, S)[t] = NoCoins
  BY <1>1, SpentFields
<1>q. QED  BY <1>2, <1>3 DEF Applied, m, S

LEMMA AppliedNothing ==
    ASSUME NEW c, Normal(c), NEW height
    PROVE  Applied(c, {}, height) = c
<1>1. Mined(c, {}, height) = c
  BY DEF Mined, Normal, CoinsMap
<1>2. SpentBy({}) = {}
  BY DEF SpentBy
<1>q. QED  BY <1>1, <1>2, SpentNothing DEF Applied

\* two coins maps are the same if each coin has the same outputs, and height and kind where any are left
LEMMA NormalEqual ==
    ASSUME NEW c, NEW d, Normal(c), Normal(d),
           \A t \in Tx : /\ c[t].out = d[t].out
                         /\ c[t].out # {} => c[t].cb = d[t].cb /\ c[t].height = d[t].height
    PROVE  c = d
<1>1. c \in [Tx -> CoinsType] /\ d \in [Tx -> CoinsType]
  BY DEF Normal, CoinsMap
<1> SUFFICES ASSUME NEW t \in Tx PROVE c[t] = d[t]
  BY <1>1
<1>2. CASE c[t].out = {}
  BY <1>2 DEF Normal
<1>3. CASE c[t].out # {}
  BY <1>1, <1>3, CoinsEqual
<1>q. QED  BY <1>2, <1>3

\* no transaction of S spends from t
Aloof(t, S) == \A u \in S : \A o \in Inputs(u) : o[1] # t
Adds(E, D, t) == E = D \cup {t} /\ t \notin D /\ D \subseteq Tx

\* one more transaction, that none of them and not it itself spends from
LEMMA AppliedMore ==
    ASSUME NEW c, Normal(c), NEW height \in Nat, height # 0,
           NEW t \in Tx, c[t] = NoCoins, NEW D, NEW E, Adds(E, D, t), Aloof(t, E)
    PROVE  [Spent(Applied(c, D, height), Inputs(t)) EXCEPT ![t] = FromTx(t, height)]
              = Applied(c, E, height)
<1> USE DEF Adds
<1> DEFINE a == Applied(c, D, height)
           R == Inputs(t)
           s == Spent(a, R)
           e == Applied(c, E, height)
           l == [s EXCEPT ![t] = FromTx(t, height)]
<1>1. SpentBy(E) = SpentBy(D) \cup R
  BY DEF SpentBy
<1>2. /\ \A u \in Tx : u # t => Mined(c, E, height)[u] = Mined(c, D, height)[u]
      /\ Mined(c, E, height)[t] = FromTx(t, height)
  BY DEF Mined
<1>3. \A n : <<t, n>> \notin SpentBy(E)
  <2> SUFFICES ASSUME NEW n, <<t, n>> \in SpentBy(E) PROVE FALSE
    OBVIOUS
  <2>1. PICK u \in E : <<t, n>> \in Inputs(u)
    BY DEF SpentBy
  <2>q. QED  BY <2>1 DEF Aloof
<1> HIDE DEF R
<1>4. Normal(a) /\ Normal(e) /\ Normal(s)
  BY AppliedFields, SpentNormal
<1>5. FromTx(t, height) \in CoinsType /\ FromTx(t, height).out = 0 .. (Outs[t] - 1)
      /\ FromTx(t, height).height = height /\ 0 \in FromTx(t, height).out
  BY FromTxType, TxAssumption DEF FromTx, TxAssumption
<1>6. \A u \in Tx : l[u] = IF u = t THEN FromTx(t, height) ELSE s[u]
  BY <1>4 DEF Normal, CoinsMap
<1>7. l \in CoinsMap
  BY <1>4, <1>5 DEF Normal, CoinsMap
<1> HIDE DEF l, s, a, e
<1>8. Normal(l)
  <2> SUFFICES ASSUME NEW u \in Tx
               PROVE  /\ l[u].out = {} => l[u] = NoCoins
                      /\ l[u].out # {} => l[u].height # 0
                      /\ l[u].out \subseteq 0 .. (Outs[u] - 1)
    BY <1>7 DEF Normal
  <2>1. CASE u = t
    BY <1>5, <1>6, <2>1
  <2>2. CASE u # t
    BY <1>4, <1>6, <2>2 DEF Normal
  <2>q. QED  BY <2>1, <2>2
<1>9. ASSUME NEW u \in Tx
      PROVE  /\ l[u].out = e[u].out
             /\ l[u].out # {} => l[u].cb = e[u].cb /\ l[u].height = e[u].height
  <2>1. /\ e[u].out = {n \in Mined(c, E, height)[u].out : <<u, n>> \notin SpentBy(E)}
        /\ e[u].out # {} => e[u].cb = Mined(c, E, height)[u].cb
                            /\ e[u].height = Mined(c, E, height)[u].height
    BY AppliedFields DEF e
  <2>2. CASE u = t
    <3>1. l[u] = FromTx(t, height) /\ Mined(c, E, height)[u] = FromTx(t, height)
      BY <1>2, <1>6, <2>2
    <3>2. e[u].out = FromTx(t, height).out
      BY <1>3, <2>1, <2>2, <3>1
    <3>q. QED  BY <2>1, <3>1, <3>2
  <2>3. CASE u # t
    <3>1. /\ a[u].out = {n \in Mined(c, D, height)[u].out : <<u, n>> \notin SpentBy(D)}
          /\ a[u].out # {} => a[u].cb = Mined(c, D, height)[u].cb
                              /\ a[u].height = Mined(c, D, height)[u].height
      BY AppliedFields DEF a
    <3>2. /\ s[u].out = {n \in a[u].out : <<u, n>> \notin R}
          /\ s[u].out # {} => s[u].cb = a[u].cb /\ s[u].height = a[u].height
      BY <1>4, SpentFields DEF s
    <3>3. l[u] = s[u] /\ Mined(c, E, height)[u] = Mined(c, D, height)[u]
      BY <1>2, <1>6, <2>3
    <3>4. s[u].out = e[u].out
      BY <1>1, <2>1, <3>1, <3>2, <3>3
    <3>5. s[u].out # {} => a[u].out # {}
      BY <3>2
    <3>q. QED  BY <2>1, <3>1, <3>2, <3>3, <3>4, <3>5
  <2>q. QED  BY <2>2, <2>3
<1>10. l = e
  BY <1>4, <1>8, <1>9, NormalEqual
<1>q. QED  BY <1>10 DEF l, s, a, e, R

\* the transactions of b up to the k-th
BodyTo(b, k) == {Body[b][i] : i \in 1 .. k}

\* every transaction of a block that connects found its inputs
LEMMA AllConnected ==
    ASSUME NEW c \in CoinsMap, NEW b \in Block \ {Genesis}, NEW h, ConnectRun(h, c, b),
           ConnectBlock(c, b).ok
    PROVE  /\ \A k \in 0 .. Len(Body[b]) : h[k].ok
           /\ \A k \in 1 .. Len(Body[b]) :
                 /\ InputsGood(h[k - 1].coins, Body[b][k], Height[b])
                 /\ h[k].coins = UpdateCoins(h[k - 1].coins, Body[b][k], Height[b]).coins
                 /\ h[k].undo = Append(h[k - 1].undo,
                                       UpdateCoins(h[k - 1].coins, Body[b][k], Height[b]).undo)
           /\ ~Overwrites(c, b)
<1> DEFINE n == Len(Body[b])
           T == {k \in 0 .. n : h[n - k].ok}
<1>1. n \in Nat
  BY BodyFacts
<1>2. \A k \in 0 .. n : h[k] \in ConnAcc
  BY <1>1 DEF ConnectRun
<1>3. \A k \in 1 .. n : h[k] = ConnectTx(h[k - 1], Body[b][k], Height[b])
  BY DEF ConnectRun
<1>4. 0 \in T
  BY <1>1 DEF ConnectRun
<1>5. ASSUME NEW k \in 1 .. n, h[k].ok
      PROVE  /\ h[k - 1].ok /\ InputsGood(h[k - 1].coins, Body[b][k], Height[b])
             /\ h[k].coins = UpdateCoins(h[k - 1].coins, Body[b][k], Height[b]).coins
             /\ h[k].undo = Append(h[k - 1].undo,
                                   UpdateCoins(h[k - 1].coins, Body[b][k], Height[b]).undo)
  <2> DEFINE a == h[k - 1]
             t == Body[b][k]
  <2>1. a \in ConnAcc
    BY <1>1, <1>2
  <2>2. h[k] = ConnectTx(a, t, Height[b])
    BY <1>3
  <2> HIDE DEF a, t
  <2>3. CASE a.ok /\ InputsGood(a.coins, t, Height[b])
    <3>1. h[k] = [ok |-> TRUE, coins |-> UpdateCoins(a.coins, t, Height[b]).coins,
                  undo |-> Append(a.undo, UpdateCoins(a.coins, t, Height[b]).undo)]
      BY <2>2, <2>3 DEF ConnectTx
    <3>q. QED  BY <2>3, <3>1 DEF a, t
  <2>4. CASE ~(a.ok /\ InputsGood(a.coins, t, Height[b]))
    <3>1. h[k] = [a EXCEPT !.ok = FALSE]
      BY <2>2, <2>4 DEF ConnectTx
    <3>2. h[k].ok = FALSE
      BY <2>1, <3>1 DEF ConnAcc
    <3>q. QED  BY <1>5, <3>2
  <2>q. QED  BY <2>3, <2>4
<1>6. ASSUME NEW k \in 1 .. n, k - 1 \in T PROVE k \in T
  <2>1. n - (k - 1) \in 1 .. n /\ n - k = (n - (k - 1)) - 1 /\ h[n - (k - 1)].ok /\ k \in 0 .. n
    BY <1>1, <1>6
  <2>2. h[(n - (k - 1)) - 1].ok
    BY <1>5, <2>1
  <2>q. QED  BY <2>1, <2>2
<1> HIDE DEF T
<1>7. \A k \in 0 .. n : k \in T
  BY <1>1, <1>4, <1>6, InductionTo
<1>8. \A k \in 0 .. n : h[k].ok
  <2> SUFFICES ASSUME NEW k \in 0 .. n PROVE h[k].ok
    OBVIOUS
  <2>1. n - k \in 0 .. n /\ n - (n - k) = k
    BY <1>1
  <2>2. h[n - (n - k)].ok
    BY <1>7, <2>1 DEF T
  <2>q. QED  BY <2>1, <2>2
<1>9. ~Overwrites(c, b)
  <2>1. h[0] = [ok |-> ~Overwrites(c, b), coins |-> c, undo |-> <<>>]
    BY DEF ConnectRun
  <2>2. h[0].ok = ~Overwrites(c, b)
    BY <2>1
  <2>3. h[0].ok
    BY <1>1, <1>8
  <2>q. QED  BY <2>2, <2>3
<1>10. \A k \in 1 .. n : h[k].ok
  BY <1>1, <1>8
<1>q. QED  BY <1>5, <1>8, <1>9, <1>10

\* the coins and the undo record while a block connects
Connecting(h, c, b) ==
    /\ \A k \in 0 .. Len(Body[b]) :
          /\ h[k].coins = Applied(c, BodyTo(b, k), Height[b])
          /\ Normal(h[k].coins)
          /\ h[k].undo \in Seq(TxUndo) /\ Len(h[k].undo) = k
          /\ \A i \in 1 .. k : h[k].undo[i] = h[i].undo[i]
          /\ \A u \in BodyTo(b, k) : \A o \in Inputs(u) : o[1] \notin Range(Body[b]) \ BodyTo(b, k)
          /\ \A u \in BodyTo(b, k) : \A o \in Inputs(u) : o[1] \in Range(Body[b]) \/ Available(c, o)
    /\ \A k \in 1 .. Len(Body[b]) :
          /\ Body[b][k] \notin BodyTo(b, k - 1)
          /\ h[k - 1].coins[Body[b][k]] = NoCoins

LEMMA ConnectingLoop ==
    ASSUME NEW c, Normal(c), NEW b \in Block \ {Genesis}, NEW h, ConnectRun(h, c, b),
           ConnectBlock(c, b).ok
    PROVE  Connecting(h, c, b)
<1> DEFINE n == Len(Body[b])
           H == Height[b]
           All == Range(Body[b])
           Fact(k) == /\ h[k].coins = Applied(c, BodyTo(b, k), H)
                      /\ Normal(h[k].coins)
                      /\ Len(h[k].undo) = k
                      /\ \A i \in 1 .. k : h[k].undo[i] = h[i].undo[i]
                      /\ \A u \in BodyTo(b, k) : \A o \in Inputs(u) : o[1] \notin All \ BodyTo(b, k)
                      /\ \A u \in BodyTo(b, k) : \A o \in Inputs(u) : o[1] \in All \/ Available(c, o)
           T == {k \in 0 .. n : Fact(k)}
<1>1. /\ n \in Nat /\ H \in Nat /\ H # 0 /\ c \in CoinsMap
      /\ \A k \in 1 .. n : Body[b][k] \in Tx /\ Body[b][k] \in All
      /\ All \subseteq Tx
  <2>1. c \in CoinsMap
    BY DEF Normal
  <2>2. n \in Nat /\ H \in Nat /\ H # 0
    BY BodyFacts
  <2>3. (\A k \in 1 .. n : Body[b][k] \in Tx) /\ All = {Body[b][k] : k \in 1 .. n}
    BY BodyFacts
  <2> HIDE DEF n, All
  <2>4. All \subseteq Tx /\ \A k \in 1 .. n : Body[b][k] \in All
    BY <2>3
  <2>q. QED  BY <2>1, <2>2, <2>3, <2>4
<1>2. /\ \A k \in 1 .. n :
            /\ InputsGood(h[k - 1].coins, Body[b][k], H)
            /\ h[k].coins = UpdateCoins(h[k - 1].coins, Body[b][k], H).coins
            /\ h[k].undo = Append(h[k - 1].undo, UpdateCoins(h[k - 1].coins, Body[b][k], H).undo)
      /\ ~Overwrites(c, b)
  BY <1>1, AllConnected
<1>3. \A k \in 0 .. n : h[k] \in ConnAcc
  BY DEF ConnectRun
<1>4. \A u \in All : c[u] = NoCoins
  BY <1>1, <1>2 DEF Overwrites, Normal
<1>5. 0 \in T
  <2>1. BodyTo(b, 0) = {}
    BY DEF BodyTo
  <2>2. h[0].coins = c /\ h[0].undo = <<>>
    BY DEF ConnectRun
  <2>3. Applied(c, {}, H) = c
    BY AppliedNothing
  <2>4. Fact(0)
    <3>1. \A i \in 1 .. 0 : FALSE
      OBVIOUS
    <3>2. h[0].coins = Applied(c, BodyTo(b, 0), H) /\ Normal(h[0].coins) /\ Len(h[0].undo) = 0
      BY <2>1, <2>2, <2>3
    <3>q. QED  BY <2>1, <3>1, <3>2
  <2>q. QED  BY <1>1, <2>4
<1>6. ASSUME NEW k \in 1 .. n, k - 1 \in T
      PROVE  /\ k \in T
             /\ Body[b][k] \notin BodyTo(b, k - 1)
             /\ h[k - 1].coins[Body[b][k]] = NoCoins
  <2> DEFINE t == Body[b][k]
             D == BodyTo(b, k - 1)
             a == h[k - 1]
  <2>1. t \in Tx /\ t \in All /\ c[t] = NoCoins /\ a \in ConnAcc /\ D \subseteq All
    <3>1. D \subseteq All
      <4>1. \A i \in 1 .. (k - 1) : i \in 1 .. n
        BY <1>1
      <4>q. QED  BY <1>1, <4>1 DEF BodyTo
    <3>q. QED  BY <1>1, <1>3, <1>4, <3>1
  <2>2. BodyTo(b, k) = D \cup {t}
    <3>1. 1 .. k = (1 .. (k - 1)) \cup {k}
      BY <1>1
    <3>q. QED  BY <3>1 DEF BodyTo
  <2>3. Fact(k - 1)
    BY <1>6
  <2>4. /\ \A o \in Inputs(t) : Available(a.coins, o)
        /\ h[k].coins = UpdateCoins(a.coins, t, H).coins
        /\ h[k].undo = Append(a.undo, UpdateCoins(a.coins, t, H).undo)
    BY <1>2 DEF InputsGood
  <2>5. /\ a.coins = Applied(c, D, H) /\ Normal(a.coins) /\ Len(a.undo) = k - 1
        /\ \A i \in 1 .. (k - 1) : a.undo[i] = h[i].undo[i]
        /\ \A u \in D : \A o \in Inputs(u) : o[1] \notin All \ D
        /\ \A u \in D : \A o \in Inputs(u) : o[1] \in All \/ Available(c, o)
    BY <2>3
  <2>6. t \in CoinBase <=> k = 1
    BY BodyFacts
  <2> HIDE DEF T, t, D, a, H, All
  <2>7. \A o \in Inputs(t) : /\ o \in Tx \X Nat /\ o \notin SpentBy(D)
                             /\ o[1] \notin All \ D
                             /\ o[1] \in D \/ Available(c, o)
    <3> SUFFICES ASSUME NEW o \in Inputs(t)
                 PROVE  /\ o \in Tx \X Nat /\ o \notin SpentBy(D) /\ o[1] \notin All \ D
                        /\ o[1] \in D \/ Available(c, o)
      OBVIOUS
    <3>1. o \in Tx \X Nat /\ o[1] \in Tx /\ o = <<o[1], o[2]>>
      BY <2>1, InputsAll
    <3>2. o[2] \in a.coins[o[1]].out
      BY <2>4 DEF Available
    <3>3. a.coins[o[1]].out = {m \in Mined(c, D, H)[o[1]].out : <<o[1], m>> \notin SpentBy(D)}
      BY <1>1, <2>5, <3>1, AppliedFields
    <3>4. Mined(c, D, H)[o[1]] = IF o[1] \in D THEN FromTx(o[1], H) ELSE c[o[1]]
      BY <3>1 DEF Mined
    <3>5. o[1] \notin All \ D
      BY <1>4, <3>2, <3>3, <3>4 DEF NoCoins
    <3>6. o[1] \in D \/ Available(c, o)
      BY <3>2, <3>3, <3>4 DEF Available
    <3>q. QED  BY <3>1, <3>2, <3>3, <3>5, <3>6
  <2>8. t \notin D
    <3>1. CASE k = 1
      <4>1. D = {}
        BY <3>1 DEF D, BodyTo
      <4>q. QED  BY <4>1
    <3>2. CASE k # 1
      <4>1. Ins[t] # <<>> /\ Ins[t] \in Seq(Tx \X Nat)
        BY <2>1, <2>6, <3>2, TxAssumption DEF TxAssumption
      <4>2. 1 \in DOMAIN Ins[t]
        BY <4>1
      <4>3. Ins[t][1] \in Inputs(t)
        BY <4>2 DEF Inputs, Range
      <4>4. Ins[t][1] \notin SpentBy(D)
        BY <2>7, <4>3
      <4>q. QED  BY <4>3, <4>4 DEF SpentBy
    <3>q. QED  BY <3>1, <3>2
  <2>9. a.coins[t] = NoCoins
    <3>1. Mined(c, D, H)[t] = NoCoins
      BY <2>1, <2>8 DEF Mined
    <3>2. /\ a.coins[t].out = {m \in Mined(c, D, H)[t].out : <<t, m>> \notin SpentBy(D)}
          /\ a.coins[t].out = {} => a.coins[t] = NoCoins
      BY <1>1, <2>1, <2>5, AppliedFields
    <3>q. QED  BY <3>1, <3>2 DEF NoCoins
  <2>10. h[k].coins = Applied(c, D \cup {t}, H)
    <3>1. h[k].coins = [Spent(a.coins, Inputs(t)) EXCEPT ![t] = FromTx(t, H)]
      BY <2>1, <2>4, <2>5, UpdateCoinsClosed
    <3>2. Aloof(t, D \cup {t})
      BY <2>1, <2>5, <2>7, <2>8 DEF Aloof
    <3>3. D \in SUBSET Tx
      BY <1>1, <2>1
    <3> DEFINE E == D \cup {t}
    <3> HIDE DEF E
    <3>4. E = D \cup {t} /\ Aloof(t, E) /\ Adds(E, D, t)
      BY <2>8, <3>2, <3>3 DEF E, Adds
    <3>5. [Spent(Applied(c, D, H), Inputs(t)) EXCEPT ![t] = FromTx(t, H)] = Applied(c, E, H)
      BY <1>1, <2>1, <3>4, AppliedMore
    <3>q. QED  BY <2>5, <3>1, <3>4, <3>5
  <2>11. Normal(h[k].coins)
    <3> DEFINE E == D \cup {t}
    <3> HIDE DEF E
    <3>1. Normal(Applied(c, E, H))
      BY <1>1, <2>1, AppliedFields
    <3>q. QED  BY <2>10, <3>1 DEF E
  <2>12. /\ Len(h[k].undo) = k
         /\ \A i \in 1 .. k : h[k].undo[i] = h[i].undo[i]
    <3>1. a.undo \in Seq(TxUndo)
      BY <2>1 DEF ConnAcc
    <3>2. Len(h[k].undo) = k /\ \A i \in 1 .. (k - 1) : h[k].undo[i] = a.undo[i]
      BY <2>4, <2>5, <3>1
    <3> SUFFICES ASSUME NEW i \in 1 .. k, i # k PROVE h[k].undo[i] = h[i].undo[i]
      BY <3>2
    <3>3. i \in 1 .. (k - 1)
      OBVIOUS
    <3>q. QED  BY <2>5, <3>2, <3>3
  <2>13. /\ \A u \in D \cup {t} : \A o \in Inputs(u) : o[1] \notin All \ (D \cup {t})
         /\ \A u \in D \cup {t} : \A o \in Inputs(u) : o[1] \in All \/ Available(c, o)
    BY <2>1, <2>5, <2>7
  <2>14. Fact(k)
    BY <2>2, <2>10, <2>11, <2>12, <2>13
  <2>15. k \in T
    BY <1>1, <2>14 DEF T
  <2>q. QED  BY <2>8, <2>9, <2>15 DEF t, D, a
<1>7. \A k \in 1 .. n : k - 1 \in T => k \in T
  BY <1>6
<1> HIDE DEF T
<1>8. \A k \in 0 .. n : k \in T
  BY <1>1, <1>5, <1>7, InductionTo
<1>9. \A k \in 1 .. n : k - 1 \in T
  BY <1>1, <1>8
<1>10. \A k \in 0 .. n : Fact(k)
  BY <1>8 DEF T
<1>11. \A k \in 0 .. n : h[k].undo \in Seq(TxUndo)
  BY <1>3 DEF ConnAcc
<1>q. QED  BY <1>6, <1>9, <1>10, <1>11 DEF Connecting

LEMMA UndoTxType ==
    ASSUME NEW a \in UndoAcc, NEW t \in Tx, NEW height, NEW u \in TxUndo, Len(u) = Len(Ins[t])
    PROVE  UndoTx(a, t, height, u) \in UndoAcc
<1>1. PICK h : UndoTxRun(h, a, t, height, u)
  BY UndoTxRuns
<1>2. Len(Ins[t]) \in Nat
  BY InputsAll
<1>q. QED  BY <1>1, <1>2 DEF UndoTxRun

\* the undo record of a block has an entry for each input of each transaction
Fits(undos, b) ==
    /\ undos \in Seq(TxUndo) /\ Len(undos) = Len(Body[b])
    /\ \A k \in 1 .. Len(Body[b]) : Len(undos[k]) = Len(Ins[Body[b][k]])

\* the loop over the transactions of a block in DisconnectBlock
DisconnectRun(r, c, b, undos) ==
    LET n == Len(Body[b])
    IN  /\ r \in [0 .. n -> UndoAcc] /\ r[0] = [coins |-> c, clean |-> TRUE]
        /\ \A k \in 1 .. n : r[k] = UndoTx(r[k - 1], Body[b][n - k + 1], Height[b], undos[n - k + 1])
        /\ DisconnectBlock(c, b, undos) = r[n]

LEMMA DisconnectRuns ==
    ASSUME NEW c \in CoinsMap, NEW b \in Block \ {Genesis}, NEW undos, Fits(undos, b)
    PROVE  \E r : DisconnectRun(r, c, b, undos)
<1> DEFINE n == Len(Body[b])
           s == Down(n)
           hb == Height[b]
           base == [coins |-> c, clean |-> TRUE]
           step == [z \in UndoAcc \X (1 .. n) |-> UndoTx(z[1], Body[b][s[z[2]]], hb, undos[s[z[2]]])]
<1>1. n \in Nat /\ DOMAIN Body[b] = 1 .. n /\ \A k \in 1 .. n : Body[b][k] \in Tx
  BY BodyFacts
<1>2. \A k \in 1 .. n : undos[k] \in TxUndo /\ Len(undos[k]) = Len(Ins[Body[b][k]])
  BY <1>1 DEF Fits
<1>3. base \in UndoAcc
  BY DEF UndoAcc
<1>4. Backwards([j \in DOMAIN Body[b] |-> j]) = s /\ DOMAIN s = 1 .. n
      /\ \A k \in 1 .. n : s[k] = n - k + 1 /\ s[k] \in 1 .. n
  BY <1>1, BackwardsDown
<1> HIDE DEF s, n, base, hb
<1>5. StepOn(step, UndoAcc, n)
  <2>1. ASSUME NEW a \in UndoAcc, NEW x \in 1 .. n PROVE step[<<a, x>>] \in UndoAcc
    <3> DEFINE j == s[x]
    <3>1. j \in 1 .. n
      BY <1>4
    <3> HIDE DEF j
    <3>2. UndoTx(a, Body[b][j], hb, undos[j]) \in UndoAcc
      BY <1>1, <1>2, <3>1, UndoTxType
    <3>q. QED  BY <3>2 DEF j
  <2>q. QED  BY <2>1 DEF StepOn, Closed
<1>6. PICK g \in [SUBSET (1 .. n) -> UndoAcc] : SolvesTo(g, base, step, n)
  <2> HIDE DEF step
  <2>q. QED  BY <1>1, <1>3, <1>5, SequenceRecursion
<1>7. g = [x \in SUBSET DOMAIN s |->
             IF x = {} THEN base
             ELSE UndoTx(g[x \ {Max(x)}], Body[b][s[Max(x)]], hb, undos[s[Max(x)]])]
  BY <1>1, <1>4, <1>6, MaxTo DEF SolvesTo
<1>8. PICK f : /\ f = [x \in SUBSET DOMAIN s |->
                         IF x = {} THEN base
                         ELSE UndoTx(f[x \ {Max(x)}], Body[b][s[Max(x)]], hb, undos[s[Max(x)]])]
               /\ FoldLeft(LAMBDA x, i : UndoTx(x, Body[b][i], hb, undos[i]), base, s) = f[DOMAIN s]
  BY <1>7 DEF FoldLeft, MapThenFoldSet
<1>9. Unrolls(f, base, step, n)
  BY <1>1, <1>4, <1>8, MaxTo DEF Unrolls
<1>10. PICK h : Runs(h, base, step, UndoAcc, n) /\ h[n] = f[1 .. n]
  <2> HIDE DEF step
  <2>q. QED  BY <1>1, <1>3, <1>5, <1>9, Unrolled
<1>11. \A k \in 1 .. n : h[k] = UndoTx(h[k - 1], Body[b][n - k + 1], hb, undos[n - k + 1])
  <2> SUFFICES ASSUME NEW k \in 1 .. n
               PROVE  h[k] = UndoTx(h[k - 1], Body[b][s[k]], hb, undos[s[k]])
    BY <1>4
  <2>1. h[k - 1] \in UndoAcc
    BY <1>1, <1>10 DEF Runs
  <2>q. QED  BY <1>10, <2>1 DEF Runs
<1>12. h \in [0 .. n -> UndoAcc] /\ h[0] = base /\ DisconnectBlock(c, b, undos) = h[n]
  BY <1>1, <1>4, <1>8, <1>10 DEF Runs, DisconnectBlock, base, hb
<1>q. QED  BY <1>11, <1>12 DEF n, base, hb, DisconnectRun

\* a block that connects on c: what it leaves, and that its undo record takes it back
Connects(c, b) ==
    LET r == ConnectBlock(c, b)
    IN  /\ r.coins = Applied(c, Range(Body[b]), Height[b]) /\ Normal(r.coins)
        /\ DisconnectBlock(r.coins, b, r.undo) = [coins |-> c, clean |-> TRUE]
        /\ \A t \in Range(Body[b]) : c[t] = NoCoins
        /\ \A t \in Range(Body[b]) : \A o \in Inputs(t) : o[1] \in Range(Body[b]) \/ Available(c, o)

LEMMA BlockUndone ==
    ASSUME NEW c, Normal(c), NEW b \in Block \ {Genesis}, ConnectBlock(c, b).ok
    PROVE  Connects(c, b)
<1> DEFINE n == Len(Body[b])
           H == Height[b]
           R == ConnectBlock(c, b)
<1>0. c \in CoinsMap /\ n \in Nat /\ H \in Nat
  BY BodyFacts DEF Normal
<1>1. PICK h : ConnectRun(h, c, b)
  BY <1>0, ConnectRuns
<1>2. Connecting(h, c, b)
  BY <1>1, ConnectingLoop
<1>3. \A k \in 1 .. n :
            /\ InputsGood(h[k - 1].coins, Body[b][k], H)
            /\ h[k].coins = UpdateCoins(h[k - 1].coins, Body[b][k], H).coins
            /\ h[k].undo = Append(h[k - 1].undo, UpdateCoins(h[k - 1].coins, Body[b][k], H).undo)
  BY <1>0, <1>1, AllConnected
<1>4. R = h[n] /\ h[0] = [ok |-> ~Overwrites(c, b), coins |-> c, undo |-> <<>>]
  BY <1>1 DEF ConnectRun
<1>5. BodyTo(b, n) = Range(Body[b])
  BY BodyFacts DEF BodyTo
<1>6. /\ R.coins = Applied(c, Range(Body[b]), H) /\ Normal(R.coins)
      /\ \A t \in Range(Body[b]) : \A o \in Inputs(t) : o[1] \in Range(Body[b]) \/ Available(c, o)
      /\ R.undo \in Seq(TxUndo) /\ Len(R.undo) = n /\ \A i \in 1 .. n : R.undo[i] = h[i].undo[i]
  BY <1>0, <1>2, <1>4, <1>5 DEF Connecting
<1>7. \A t \in Range(Body[b]) : c[t] = NoCoins
  <2>1. ~Overwrites(c, b)
    BY <1>0, <1>1, AllConnected
  <2>2. Range(Body[b]) \subseteq Tx
    <3>1. (\A k \in 1 .. n : Body[b][k] \in Tx) /\ Range(Body[b]) = {Body[b][k] : k \in 1 .. n}
      BY BodyFacts
    <3> HIDE DEF n
    <3>q. QED  BY <3>1
  <2>q. QED  BY <2>1, <2>2 DEF Overwrites, Normal
<1> HIDE DEF n, H, R
<1>8. ASSUME NEW k \in 1 .. n
      PROVE  /\ Len(R.undo[k]) = Len(Ins[Body[b][k]])
             /\ UndoTx([coins |-> h[k].coins, clean |-> TRUE], Body[b][k], H, R.undo[k])
                   = [coins |-> h[k - 1].coins, clean |-> TRUE]
  <2> DEFINE d == h[k - 1].coins
             t == Body[b][k]
             U == UpdateCoins(d, t, H)
  <2>1. t \in Tx
    BY BodyFacts DEF n
  <2>2. Normal(d) /\ d[t] = NoCoins
    <3>1. k - 1 \in 0 .. Len(Body[b]) /\ k \in 1 .. Len(Body[b])
      BY <1>0 DEF n
    <3>q. QED  BY <1>2, <3>1 DEF Connecting
  <2>3. \A o \in Inputs(t) : Available(d, o)
    BY <1>3 DEF InputsGood
  <2>4. h[k].coins = U.coins /\ h[k].undo = Append(h[k - 1].undo, U.undo)
    BY <1>3
  <2>5. h[k - 1].undo \in Seq(TxUndo) /\ Len(h[k - 1].undo) = k - 1
    <3>1. k - 1 \in 0 .. Len(Body[b])
      BY <1>0 DEF n
    <3>q. QED  BY <1>2, <3>1 DEF Connecting
  <2> HIDE DEF d, t
  <2>6. /\ U.undo \in TxUndo /\ Len(U.undo) = Len(Ins[t])
        /\ UndoTx([coins |-> U.coins, clean |-> TRUE], t, H, U.undo) = [coins |-> d, clean |-> TRUE]
    BY <1>0, <2>1, <2>2, <2>3, TxUndone
  <2> HIDE DEF U
  <2>7. R.undo[k] = U.undo
    BY <1>0, <1>6, <2>4, <2>5, <2>6
  <2>q. QED  BY <2>4, <2>6, <2>7 DEF d, t
<1>9. Fits(R.undo, b)
  BY <1>6, <1>8 DEF Fits, n
<1>10. R.coins \in CoinsMap
  BY <1>6 DEF Normal
<1>11. PICK r : DisconnectRun(r, R.coins, b, R.undo)
  BY <1>9, <1>10, DisconnectRuns
<1> DEFINE T == {k \in 0 .. n : r[k] = [coins |-> h[n - k].coins, clean |-> TRUE]}
<1>12. 0 \in T
  BY <1>0, <1>4, <1>11 DEF DisconnectRun
<1>13. ASSUME NEW k \in 1 .. n, k - 1 \in T PROVE k \in T
  <2> DEFINE j == n - k + 1
  <2>1. j \in 1 .. n /\ n - (k - 1) = j /\ n - k = j - 1 /\ k \in 0 .. n
    BY <1>0
  <2>2. r[k] = UndoTx(r[k - 1], Body[b][j], H, R.undo[j])
    BY <1>11 DEF DisconnectRun, n, H
  <2>3. r[k - 1] = [coins |-> h[j].coins, clean |-> TRUE]
    BY <1>13, <2>1
  <2> HIDE DEF j
  <2>4. r[k] = [coins |-> h[j - 1].coins, clean |-> TRUE]
    BY <1>8, <2>1, <2>2, <2>3
  <2>q. QED  BY <2>1, <2>4
<1> HIDE DEF T
<1>14. \A k \in 0 .. n : k \in T
  BY <1>0, <1>12, <1>13, InductionTo
<1>15. r[n] = [coins |-> c, clean |-> TRUE]
  <2>1. n \in 0 .. n /\ n - n = 0
    BY <1>0
  <2>2. r[n] = [coins |-> h[n - n].coins, clean |-> TRUE]
    BY <1>14, <2>1 DEF T
  <2>3. h[0].coins = c
    BY <1>4
  <2>q. QED  BY <2>1, <2>2, <2>3
<1>16. DisconnectBlock(R.coins, b, R.undo) = [coins |-> c, clean |-> TRUE]
  BY <1>11, <1>15 DEF DisconnectRun, n
<1>q. QED  BY <1>6, <1>7, <1>16 DEF Connects, R, H

----------------------------------------------------------------------------
(* Chains, and the coins of a chain. *)

Linked(s) ==
    /\ s \in Seq(Block \ {Genesis})
    /\ \A i \in 1 .. Len(s) : Parent[s[i]] = IF i = 1 THEN Genesis ELSE s[i - 1]
TipOf(s) == IF s = <<>> THEN Genesis ELSE Last(s)

LEMMA LinkedHeights ==
    ASSUME NEW s, Linked(s)
    PROVE  /\ Len(s) \in Nat /\ DOMAIN s = 1 .. Len(s)
           /\ \A i \in 1 .. Len(s) : s[i] \in Block \ {Genesis} /\ Height[s[i]] = i
           /\ Range(s) = {s[i] : i \in 1 .. Len(s)}
           /\ TipOf(s) \in Block /\ Height[TipOf(s)] = Len(s)
           /\ TipOf(s) = IF Len(s) = 0 THEN Genesis ELSE s[Len(s)]
<1> DEFINE n == Len(s)
           T == {i \in 0 .. n : i # 0 => Height[s[i]] = i}
<1>1. n \in Nat /\ DOMAIN s = 1 .. n /\ \A i \in 1 .. n : s[i] \in Block \ {Genesis}
  BY DEF Linked
<1>2. 0 \in T
  BY <1>1
<1>3. ASSUME NEW k \in 1 .. n, k - 1 \in T PROVE k \in T
  <2>1. s[k] \in Block \ {Genesis}
    BY <1>1
  <2>2. Height[s[k]] = Height[Parent[s[k]]] + 1 /\ Height[Genesis] = 0
    BY <2>1, TxAssumption DEF TxAssumption
  <2>3. Parent[s[k]] = IF k = 1 THEN Genesis ELSE s[k - 1]
    BY DEF Linked
  <2>4. CASE k = 1
    BY <1>1, <2>2, <2>3, <2>4
  <2>5. CASE k # 1
    <3>1. Height[s[k - 1]] = k - 1
      BY <1>3, <2>5
    <3>q. QED  BY <1>1, <2>2, <2>3, <2>5, <3>1
  <2>q. QED  BY <2>4, <2>5
<1> HIDE DEF T, n
<1>4. \A k \in 0 .. n : k \in T
  BY <1>1, <1>2, <1>3, InductionTo
<1>5. \A i \in 1 .. n : Height[s[i]] = i
  <2> SUFFICES ASSUME NEW i \in 1 .. n PROVE Height[s[i]] = i
    OBVIOUS
  <2>1. i \in T /\ i # 0
    BY <1>1, <1>4
  <2>q. QED  BY <2>1 DEF T
<1>6. Range(s) = {s[i] : i \in 1 .. n}
  BY <1>1 DEF Range
<1>7. TipOf(s) = IF n = 0 THEN Genesis ELSE s[n]
  <2>1. s = <<>> <=> n = 0
    BY DEF Linked, n
  <2>q. QED  BY <2>1 DEF TipOf, Last, n
<1>8. TipOf(s) \in Block /\ Height[TipOf(s)] = n
  <2>1. Genesis \in Block /\ Height[Genesis] = 0
    BY TxAssumption DEF TxAssumption
  <2>q. QED  BY <1>1, <1>5, <1>7, <2>1
<1>q. QED  BY <1>1, <1>5, <1>6, <1>7, <1>8 DEF n

LEMMA LinkedUnique ==
    ASSUME NEW s, NEW r, Linked(s), Linked(r), TipOf(s) = TipOf(r)
    PROVE  s = r
<1> DEFINE n == Len(s)
           T == {k \in 0 .. n : k # n => s[n - k] = r[n - k]}
<1>1. n \in Nat /\ DOMAIN s = 1 .. n /\ Len(r) = n /\ DOMAIN r = 1 .. n
  BY LinkedHeights
<1> HIDE DEF n
<1>2. /\ TipOf(s) = IF n = 0 THEN Genesis ELSE s[n]
      /\ TipOf(r) = IF n = 0 THEN Genesis ELSE r[n]
  BY <1>1, LinkedHeights DEF n
<1>3. 0 \in T
  <2>1. 0 \in 0 .. n /\ n - 0 = n
    BY <1>1
  <2>2. 0 # n => s[n] = r[n]
    BY <1>2
  <2>q. QED  BY <2>1, <2>2
<1>4. ASSUME NEW k \in 1 .. n, k - 1 \in T PROVE k \in T
  <2> SUFFICES ASSUME k # n PROVE s[n - k] = r[n - k]
    BY <1>1
  <2> DEFINE j == n - (k - 1)
  <2>1. j \in 1 .. n /\ j # 1 /\ n - k = j - 1 /\ s[j] = r[j]
    BY <1>1, <1>4
  <2> HIDE DEF j
  <2>2. Parent[s[j]] = s[j - 1]
    BY <2>1 DEF Linked, n
  <2>3. Parent[r[j]] = r[j - 1]
    BY <1>1, <2>1 DEF Linked
  <2>q. QED  BY <2>1, <2>2, <2>3
<1> HIDE DEF T
<1>5. \A k \in 0 .. n : k \in T
  BY <1>1, <1>3, <1>4, InductionTo
<1>6. ASSUME NEW i \in 1 .. n PROVE s[i] = r[i]
  <2>1. n - i \in 0 .. n /\ n - i # n /\ n - (n - i) = i
    BY <1>1
  <2>2. s[n - (n - i)] = r[n - (n - i)]
    BY <1>5, <2>1 DEF T
  <2>q. QED  BY <2>1, <2>2
<1>7. s \in Seq(Block \ {Genesis}) /\ r \in Seq(Block \ {Genesis})
  BY DEF Linked
<1>q. QED  BY <1>1, <1>6, <1>7

LEMMA LinkedMore ==
    ASSUME NEW s, Linked(s), NEW b \in Block \ {Genesis}, Parent[b] = TipOf(s)
    PROVE  /\ Linked(Append(s, b)) /\ TipOf(Append(s, b)) = b
           /\ Range(Append(s, b)) = Range(s) \cup {b}
           /\ Len(Append(s, b)) = Len(s) + 1 /\ Height[b] = Len(s) + 1
<1> DEFINE r == Append(s, b)
           n == Len(s)
<1>1. n \in Nat /\ s \in Seq(Block \ {Genesis}) /\ DOMAIN s = 1 .. n
  BY LinkedHeights DEF Linked
<1>2. r \in Seq(Block \ {Genesis}) /\ Len(r) = n + 1 /\ r[n + 1] = b /\ DOMAIN r = 1 .. (n + 1)
      /\ \A i \in 1 .. n : r[i] = s[i]
  BY <1>1
<1>3. TipOf(s) = IF n = 0 THEN Genesis ELSE s[n]
  BY LinkedHeights
<1> HIDE DEF r
<1>4. ASSUME NEW i \in 1 .. Len(r) PROVE Parent[r[i]] = IF i = 1 THEN Genesis ELSE r[i - 1]
  <2>1. CASE i = n + 1
    <3>1. i # 1 => n \in 1 .. n /\ i - 1 = n
      BY <1>1, <2>1
    <3>q. QED  BY <1>1, <1>2, <1>3, <2>1, <3>1
  <2>2. CASE i # n + 1
    <3>1. i \in 1 .. n /\ (i # 1 => i - 1 \in 1 .. n)
      BY <1>1, <1>2, <2>2
    <3>2. Parent[s[i]] = IF i = 1 THEN Genesis ELSE s[i - 1]
      BY <3>1 DEF Linked
    <3>q. QED  BY <1>2, <3>1, <3>2
  <2>q. QED  BY <2>1, <2>2
<1>5. Linked(r)
  BY <1>2, <1>4 DEF Linked
<1>6. TipOf(r) = b /\ Height[b] = n + 1
  BY <1>1, <1>2, <1>5, LinkedHeights
<1>7. Range(r) = Range(s) \cup {b}
  <2>1. 1 .. (n + 1) = (1 .. n) \cup {n + 1}
    BY <1>1
  <2>q. QED  BY <1>1, <1>2, <2>1 DEF Range
<1>q. QED  BY <1>2, <1>5, <1>6, <1>7 DEF r

LEMMA LinkedLess ==
    ASSUME NEW s, Linked(s), s # <<>>
    PROVE  /\ Linked(Front(s)) /\ Last(s) \in Block \ {Genesis} /\ TipOf(s) = Last(s)
           /\ TipOf(Front(s)) = Parent[Last(s)] /\ Append(Front(s), Last(s)) = s
           /\ Len(Front(s)) = Len(s) - 1 /\ \A i \in 1 .. Len(s) - 1 : Front(s)[i] = s[i]
           /\ Len(s) \in Nat \ {0} /\ Last(s) = s[Len(s)]
<1> DEFINE n == Len(s)
           r == Front(s)
<1>1. n \in Nat \ {0} /\ s \in Seq(Block \ {Genesis})
  BY DEF Linked
<1>2. r \in Seq(Block \ {Genesis}) /\ Len(r) = n - 1 /\ \A i \in 1 .. (n - 1) : r[i] = s[i]
  <2>1. r = SubSeq(s, 1, n - 1)
    BY DEF Front
  <2>2. n - 1 \in Nat /\ n - 1 \in 0 .. n
    BY <1>1
  <2> HIDE DEF n, r
  <2>3. Len(r) = n - 1
    BY <1>1, <2>1, <2>2
  <2>4. r \in Seq(Block \ {Genesis})
    BY <1>1, <2>1, <2>2 DEF n
  <2>5. \A i \in 1 .. (n - 1) : r[i] = s[i]
    BY <1>1, <2>1, <2>2 DEF n
  <2>q. QED  BY <2>3, <2>4, <2>5
<1>3. Last(s) = s[n] /\ n \in 1 .. n /\ s[n] \in Block \ {Genesis} /\ TipOf(s) = s[n]
  BY <1>1 DEF Last, TipOf
<1> HIDE DEF r, n
<1>4. Linked(r)
  <2> SUFFICES ASSUME NEW i \in 1 .. (n - 1) PROVE Parent[r[i]] = IF i = 1 THEN Genesis ELSE r[i - 1]
    BY <1>2 DEF Linked
  <2>1. Parent[s[i]] = IF i = 1 THEN Genesis ELSE s[i - 1]
    BY <1>1 DEF Linked, n
  <2>2. i # 1 => i - 1 \in 1 .. (n - 1)
    BY <1>1
  <2>q. QED  BY <1>2, <2>1, <2>2
<1>5. TipOf(r) = Parent[s[n]]
  <2>1. TipOf(r) = IF n - 1 = 0 THEN Genesis ELSE r[n - 1]
    BY <1>2, <1>4, LinkedHeights
  <2>2. Parent[s[n]] = IF n = 1 THEN Genesis ELSE s[n - 1]
    BY <1>3 DEF Linked, n
  <2>3. n # 1 => n - 1 \in 1 .. (n - 1)
    BY <1>1
  <2>q. QED  BY <1>1, <1>2, <2>1, <2>2, <2>3
<1>6. Append(r, s[n]) = s
  BY <1>1, <1>2 DEF n
<1>q. QED  BY <1>1, <1>2, <1>3, <1>4, <1>5, <1>6 DEF r, n

\* the parts of Unspent
HeightsOf(s, t) == {Height[b] : b \in {c \in Range(s) : t \in Range(Body[c])}}
Since(s, h)     == UNION {Range(Body[b]) : b \in {c \in Range(s) : Height[c] >= h}}
Left(s, t)      == {n \in 0 .. (Outs[t] - 1) :
                       \A u \in Since(s, Max(HeightsOf(s, t))) : <<t, n>> \notin Inputs(u)}

LEMMA UnspentIs ==
    ASSUME NEW s, NEW t \in Tx
    PROVE  Unspent(s)[t] = IF HeightsOf(s, t) # {} /\ Left(s, t) # {}
                           THEN [out |-> Left(s, t), cb |-> t \in CoinBase, height |-> Max(HeightsOf(s, t))]
                           ELSE NoCoins
BY DEF Unspent, HeightsOf, Since, Left

LEMMA HeightsMax ==
    ASSUME NEW s, Linked(s), NEW t
    PROVE  /\ HeightsOf(s, t) \subseteq 1 .. Len(s)
           /\ HeightsOf(s, t) # {} => /\ Max(HeightsOf(s, t)) \in HeightsOf(s, t)
                                      /\ \A x \in HeightsOf(s, t) : Max(HeightsOf(s, t)) >= x
<1> DEFINE S == HeightsOf(s, t)
<1>0. Len(s) \in Nat /\ Range(s) = {s[i] : i \in 1 .. Len(s)} /\ \A i \in 1 .. Len(s) : Height[s[i]] = i
  BY LinkedHeights
<1>1. S \subseteq 1 .. Len(s)
  BY <1>0 DEF HeightsOf
<1> HIDE DEF S
<1>2. S \subseteq Nat /\ \A x \in S : x <= Len(s)
  BY <1>0, <1>1
<1>3. S # {} => Max(S) \in S /\ \A x \in S : Max(S) >= x
  BY <1>0, <1>2, MaxOf
<1>q. QED  BY <1>1, <1>3 DEF S

LEMMA UnspentNormal ==
    ASSUME NEW s, Linked(s)
    PROVE  Normal(Unspent(s))
<1>1. ASSUME NEW t \in Tx
      PROVE  /\ Unspent(s)[t] \in CoinsType
             /\ Unspent(s)[t].out = {} => Unspent(s)[t] = NoCoins
             /\ Unspent(s)[t].out # {} => Unspent(s)[t].height # 0
             /\ Unspent(s)[t].out \subseteq 0 .. (Outs[t] - 1)
  <2>1. CASE HeightsOf(s, t) # {} /\ Left(s, t) # {}
    <3> DEFINE m == Max(HeightsOf(s, t))
               l == Left(s, t)
    <3>1. m \in Nat /\ m # 0
      BY <2>1, HeightsMax, LinkedHeights
    <3>2. l \subseteq 0 .. (Outs[t] - 1) /\ l # {} /\ 0 .. (Outs[t] - 1) \subseteq Nat
      <4>1. Outs[t] \in Nat
        BY TxAssumption DEF TxAssumption
      <4>2. 0 .. (Outs[t] - 1) \subseteq Nat
        BY <4>1
      <4>q. QED  BY <2>1, <4>2 DEF Left
    <3>3. Unspent(s)[t] = [out |-> l, cb |-> t \in CoinBase, height |-> m]
      BY <2>1, UnspentIs
    <3> HIDE DEF m, l
    <3>4. Unspent(s)[t].out = l /\ Unspent(s)[t].height = m
      BY <3>3
    <3>5. (t \in CoinBase) \in BOOLEAN
      OBVIOUS
    <3>6. Unspent(s)[t] \in CoinsType
      <4>1. l \in SUBSET Nat
        BY <3>2
      <4>q. QED  BY <3>1, <3>3, <3>5, <4>1 DEF CoinsType
    <3>q. QED  BY <3>1, <3>2, <3>4, <3>6
  <2>2. CASE ~(HeightsOf(s, t) # {} /\ Left(s, t) # {})
    <3>1. Unspent(s)[t] = NoCoins
      BY <2>2, UnspentIs
    <3>q. QED  BY <3>1 DEF NoCoins, CoinsType
  <2>q. QED  BY <2>1, <2>2
<1>2. Unspent(s) = [t \in Tx |-> Unspent(s)[t]]
  BY DEF Unspent
<1>3. Unspent(s) \in CoinsMap
  BY <1>1, <1>2 DEF CoinsMap
<1>q. QED  BY <1>1, <1>3 DEF Normal

\* a block on top of a chain: Unspent says of the longer chain what applying the block gives
LEMMA UnspentMore ==
    ASSUME NEW s, Linked(s), NEW b \in Block \ {Genesis}, Parent[b] = TipOf(s)
    PROVE  Unspent(Append(s, b)) = Applied(Unspent(s), Range(Body[b]), Height[b])
<1> DEFINE r == Append(s, b)
           D == Range(Body[b])
           H == Height[b]
           c == Unspent(s)
           e == Applied(c, D, H)
           f == Unspent(r)
<1>1. Linked(r) /\ Range(r) = Range(s) \cup {b} /\ H = Len(s) + 1 /\ Len(s) \in Nat
  BY LinkedMore, LinkedHeights
<1>2. \A x \in Range(s) : Height[x] \in 1 .. Len(s)
  <2>1. Range(s) = {s[i] : i \in 1 .. Len(s)} /\ \A i \in 1 .. Len(s) : Height[s[i]] = i
    BY LinkedHeights
  <2>q. QED  BY <2>1
<1>3. H \in Nat /\ H # 0 /\ D \subseteq Tx
  <2>1. (\A k \in 1 .. Len(Body[b]) : Body[b][k] \in Tx) /\ D = {Body[b][k] : k \in 1 .. Len(Body[b])}
    BY BodyFacts
  <2>q. QED  BY <1>1, <2>1
<1> HIDE DEF r, D, H
<1>4. Normal(c) /\ Normal(f)
  BY <1>1, UnspentNormal
<1> HIDE DEF c, e, f
<1>5. Normal(e)
  BY <1>3, <1>4, MinedNormal, SpentNormal DEF e, Applied
<1>6. ASSUME NEW t \in Tx
      PROVE  /\ f[t].out = e[t].out
             /\ f[t].out # {} => f[t].cb = e[t].cb /\ f[t].height = e[t].height
  <2> DEFINE M == Mined(c, D, H)[t]
  <2>1. /\ e[t].out = {n \in M.out : <<t, n>> \notin SpentBy(D)}
        /\ e[t].out # {} => e[t].cb = M.cb /\ e[t].height = M.height
    BY <1>3, <1>4, AppliedFields DEF e
  <2>2. f[t] = IF HeightsOf(r, t) # {} /\ Left(r, t) # {}
               THEN [out |-> Left(r, t), cb |-> t \in CoinBase, height |-> Max(HeightsOf(r, t))]
               ELSE NoCoins
    BY UnspentIs DEF f
  <2>3. c[t] = IF HeightsOf(s, t) # {} /\ Left(s, t) # {}
               THEN [out |-> Left(s, t), cb |-> t \in CoinBase, height |-> Max(HeightsOf(s, t))]
               ELSE NoCoins
    BY UnspentIs DEF c
  <2>4. HeightsOf(s, t) \subseteq 1 .. Len(s)
    BY HeightsMax
  <2>5. CASE t \in D
    <3>1. H \in HeightsOf(r, t) /\ \A x \in HeightsOf(r, t) : x <= H
      <4>1. H \in HeightsOf(r, t)
        BY <1>1, <2>5 DEF HeightsOf, D, H
      <4>2. HeightsOf(r, t) \subseteq HeightsOf(s, t) \cup {H}
        BY <1>1 DEF HeightsOf, H
      <4>q. QED  BY <1>1, <2>4, <4>1, <4>2
    <3>2. Max(HeightsOf(r, t)) = H
      <4>1. Max(HeightsOf(r, t)) \in HeightsOf(r, t) /\ Max(HeightsOf(r, t)) >= H
            /\ HeightsOf(r, t) \subseteq 1 .. Len(r)
        BY <1>1, <3>1, HeightsMax
      <4>2. Max(HeightsOf(r, t)) \in Int /\ Max(HeightsOf(r, t)) <= H
        BY <3>1, <4>1
      <4>q. QED  BY <1>3, <4>1, <4>2
    <3>3. Since(r, H) = D
      <4>1. {x \in Range(r) : Height[x] >= H} = {b}
        BY <1>1, <1>2, <1>3 DEF H
      <4>q. QED  BY <4>1 DEF Since, D
    <3>4. M = FromTx(t, H)
      BY <2>5 DEF Mined
    <3>5. M.out = 0 .. (Outs[t] - 1) /\ M.cb = (t \in CoinBase) /\ M.height = H
      BY <3>4 DEF FromTx
    <3>6. Left(r, t) = e[t].out
      BY <2>1, <3>2, <3>3, <3>5 DEF Left, SpentBy
    <3> HIDE DEF M
    <3>7. CASE Left(r, t) # {}
      <4>1. f[t] = [out |-> Left(r, t), cb |-> t \in CoinBase, height |-> H]
        BY <2>2, <3>1, <3>2, <3>7
      <4>2. f[t].out = Left(r, t) /\ f[t].cb = (t \in CoinBase) /\ f[t].height = H
        BY <4>1
      <4>3. e[t].cb = M.cb /\ e[t].height = M.height
        BY <2>1, <3>6, <3>7
      <4>4. f[t].cb = e[t].cb
        BY <3>5, <4>2, <4>3
      <4>q. QED  BY <3>5, <3>6, <4>2, <4>3, <4>4
    <3>8. CASE Left(r, t) = {}
      <4>1. f[t] = NoCoins
        BY <2>2, <3>8
      <4>2. f[t].out = {}
        BY <4>1 DEF NoCoins
      <4>q. QED  BY <3>6, <3>8, <4>2
    <3>q. QED  BY <3>7, <3>8
  <2>6. CASE t \notin D
    <3>1. M = c[t]
      BY <2>6 DEF Mined
    <3>2. HeightsOf(r, t) = HeightsOf(s, t)
      <4>1. {x \in Range(r) : t \in Range(Body[x])} = {x \in Range(s) : t \in Range(Body[x])}
        BY <1>1, <2>6 DEF D
      <4>q. QED  BY <4>1 DEF HeightsOf
    <3> HIDE DEF M
    <3>3. CASE HeightsOf(s, t) = {}
      <4>1. f[t] = NoCoins /\ c[t] = NoCoins
        BY <2>2, <2>3, <3>2, <3>3
      <4>2. f[t].out = {} /\ c[t].out = {}
        BY <4>1 DEF NoCoins
      <4>q. QED  BY <2>1, <3>1, <4>2
    <3>4. CASE HeightsOf(s, t) # {}
      <4> DEFINE m == Max(HeightsOf(s, t))
      <4>1. m \in 1 .. Len(s)
        BY <2>4, <3>4, HeightsMax
      <4>2. Since(r, m) = Since(s, m) \cup D
        <5>1. {x \in Range(r) : Height[x] >= m} = {x \in Range(s) : Height[x] >= m} \cup {b}
          BY <1>1, <4>1 DEF H
        <5>q. QED  BY <5>1 DEF Since, D
      <4>3. Left(r, t) = {n \in Left(s, t) : <<t, n>> \notin SpentBy(D)}
        <5>1. Left(r, t) = {n \in 0 .. (Outs[t] - 1) : \A u \in Since(r, m) : <<t, n>> \notin Inputs(u)}
          BY <3>2 DEF Left
        <5>2. Left(s, t) = {n \in 0 .. (Outs[t] - 1) : \A u \in Since(s, m) : <<t, n>> \notin Inputs(u)}
          BY DEF Left
        <5> HIDE DEF m
        <5>q. QED  BY <4>2, <5>1, <5>2 DEF SpentBy
      <4> HIDE DEF m
      <4>4. c[t].out = Left(s, t)
        <5>1. CASE Left(s, t) = {}
          BY <2>3, <5>1 DEF NoCoins
        <5>2. CASE Left(s, t) # {}
          BY <2>3, <3>4, <5>2
        <5>q. QED  BY <5>1, <5>2
      <4>5. e[t].out = Left(r, t)
        BY <2>1, <3>1, <4>3, <4>4
      <4>6. CASE Left(r, t) = {}
        <5>1. f[t].out = {}
          BY <2>2, <4>6 DEF NoCoins
        <5>q. QED  BY <4>5, <4>6, <5>1
      <4>7. CASE Left(r, t) # {}
        <5>1. Left(s, t) # {}
          BY <4>3, <4>7
        <5>2. f[t] = [out |-> Left(r, t), cb |-> t \in CoinBase, height |-> m]
          BY <2>2, <3>2, <3>4, <4>7 DEF m
        <5>3. c[t] = [out |-> Left(s, t), cb |-> t \in CoinBase, height |-> m]
          BY <2>3, <3>4, <5>1 DEF m
        <5>4. f[t].out = Left(r, t) /\ f[t].cb = (t \in CoinBase) /\ f[t].height = m
          BY <5>2
        <5>5. c[t].cb = (t \in CoinBase) /\ c[t].height = m
          BY <5>3
        <5>6. e[t].cb = c[t].cb /\ e[t].height = c[t].height
          BY <2>1, <3>1, <4>5, <4>7
        <5>7. f[t].cb = e[t].cb
          BY <5>4, <5>5, <5>6
        <5>q. QED  BY <4>5, <5>4, <5>5, <5>6, <5>7
      <4>q. QED  BY <4>6, <4>7
    <3>q. QED  BY <3>3, <3>4
  <2>q. QED  BY <2>5, <2>6
<1>7. f = e
  BY <1>4, <1>5, <1>6, NormalEqual
<1>q. QED  BY <1>7 DEF f, e, c, r, D, H

----------------------------------------------------------------------------
(* The coins are exact, whatever was connected and disconnected before. *)

(***************************************************************************)
(* Which coins a block was connected on depends on the block alone, since  *)
(* its ancestors are the chain: an undo record that was written once fits  *)
(* whenever its block is the tip again.                                    *)
(***************************************************************************)
Recorded(b, record) ==
    \A s : Linked(s) /\ TipOf(s) = Parent[b] => record = ConnectBlock(Unspent(s), b).undo

ChainInv ==
    /\ Linked(chain) /\ coins = Unspent(chain)
    /\ \A i \in 1 .. Len(chain) :
          /\ chain[i] \in DOMAIN undo
          /\ \A s : Linked(s) /\ TipOf(s) = Parent[chain[i]] => ConnectBlock(Unspent(s), chain[i]).ok
    /\ \A b \in DOMAIN undo : b \in Block \ {Genesis} /\ Recorded(b, undo[b])

LEMMA InitChain == Init => ChainInv
<1> SUFFICES ASSUME Init PROVE ChainInv
  OBVIOUS
<1>1. chain = <<>> /\ coins = [t \in Tx |-> NoCoins] /\ DOMAIN undo = {}
  BY DEF Init
<1>2. Linked(<<>>) /\ Len(<<>>) = 0
  BY DEF Linked
<1>3. \A t : HeightsOf(<<>>, t) = {}
  BY DEF HeightsOf, Range
<1>4. \A t \in Tx : Unspent(<<>>)[t] = NoCoins
  BY <1>3, UnspentIs
<1>5. Unspent(<<>>) = [t \in Tx |-> NoCoins]
  BY <1>4 DEF Unspent
<1>q. QED  BY <1>1, <1>2, <1>5 DEF ChainInv

LEMMA ConnectChain ==
    ASSUME ChainInv, NEW b \in Block \ {Genesis}, ConnectTip(b)
    PROVE  ChainInv' /\ Connects(coins, b) /\ Parent[b] = TipOf(chain)
           /\ coins' = ConnectBlock(coins, b).coins
<1> DEFINE r == ConnectBlock(coins, b)
           s == Append(chain, b)
<1>1. /\ Linked(chain) /\ coins = Unspent(chain) /\ Normal(coins)
  BY UnspentNormal DEF ChainInv
<1>2. /\ Parent[b] = TipOf(chain) /\ r.ok /\ coins' = r.coins /\ chain' = s
      /\ undo' = IF b \in DOMAIN undo THEN undo
                 ELSE [x \in DOMAIN undo \cup {b} |-> IF x = b THEN r.undo ELSE undo[x]]
  BY DEF ConnectTip, Tip, TipOf
<1>3. Connects(coins, b)
  BY <1>1, <1>2, BlockUndone
<1>4. Linked(s) /\ TipOf(s) = b /\ Len(s) = Len(chain) + 1 /\ Unspent(s) = r.coins
  BY <1>1, <1>2, <1>3, LinkedMore, UnspentMore DEF Connects
<1>5. \A x : Linked(x) /\ TipOf(x) = Parent[b] => x = chain
  BY <1>1, <1>2, LinkedUnique
<1>6. \A x : Linked(x) /\ TipOf(x) = Parent[b] => ConnectBlock(Unspent(x), b).ok
  BY <1>1, <1>2, <1>5
<1>7. Recorded(b, r.undo)
  BY <1>1, <1>5 DEF Recorded
<1>8. /\ DOMAIN undo' = DOMAIN undo \cup {b}
      /\ \A x \in DOMAIN undo : undo'[x] = undo[x]
      /\ b \notin DOMAIN undo => undo'[b] = r.undo
  BY <1>2
<1>9. \A x \in DOMAIN undo' : x \in Block \ {Genesis} /\ Recorded(x, undo'[x])
  <2> SUFFICES ASSUME NEW x \in DOMAIN undo'
               PROVE  x \in Block \ {Genesis} /\ Recorded(x, undo'[x])
    OBVIOUS
  <2>1. CASE x \in DOMAIN undo
    BY <1>8, <2>1 DEF ChainInv
  <2>2. CASE x \notin DOMAIN undo
    BY <1>7, <1>8, <2>2
  <2>q. QED  BY <2>1, <2>2
<1>10. ASSUME NEW i \in 1 .. Len(s)
       PROVE  /\ s[i] \in DOMAIN undo'
              /\ \A x : Linked(x) /\ TipOf(x) = Parent[s[i]] => ConnectBlock(Unspent(x), s[i]).ok
  <2>0. chain \in Seq(Block \ {Genesis})
    BY <1>1 DEF Linked
  <2>1. CASE i = Len(chain) + 1
    <3>1. s[i] = b
      BY <2>0, <2>1
    <3>q. QED  BY <1>6, <1>8, <3>1
  <2>2. CASE i # Len(chain) + 1
    <3>1. i \in 1 .. Len(chain) /\ s[i] = chain[i]
      BY <1>4, <2>0, <2>2
    <3>q. QED  BY <1>8, <3>1 DEF ChainInv
  <2>q. QED  BY <2>1, <2>2
<1> HIDE DEF r, s
<1>11. ChainInv'
  BY <1>2, <1>4, <1>9, <1>10 DEF ChainInv
<1>q. QED  BY <1>2, <1>3, <1>11 DEF r

\* what the undo record of the tip does
TipBack(c) ==
    /\ Linked(Front(chain)) /\ c = Unspent(Front(chain)) /\ Normal(c)
    /\ Tip \in Block \ {Genesis} /\ Parent[Tip] = TipOf(Front(chain))
    /\ DisconnectBlock(coins, Tip, undo[Tip]) = [coins |-> c, clean |-> TRUE]
    /\ Connects(c, Tip) /\ coins = ConnectBlock(c, Tip).coins

LEMMA TipGoesBack ==
    ASSUME ChainInv, chain # <<>>
    PROVE  TipBack(Unspent(Front(chain)))
<1> DEFINE b == Last(chain)
           s == Front(chain)
           n == Len(chain)
           c == Unspent(s)
           r == ConnectBlock(c, b)
<1>1. Linked(chain) /\ coins = Unspent(chain)
  BY DEF ChainInv
<1>2. /\ Linked(s) /\ b \in Block \ {Genesis} /\ TipOf(s) = Parent[b] /\ Append(s, b) = chain
      /\ n \in Nat \ {0} /\ b = chain[n]
  BY <1>1, LinkedLess
<1>3. Tip = b
  BY DEF Tip
<1> HIDE DEF b, s
<1>4. n \in 1 .. n
  BY <1>2
<1>5. b \in DOMAIN undo /\ r.ok
  BY <1>2, <1>4 DEF ChainInv
<1>6. undo[b] = r.undo
  BY <1>2, <1>5 DEF ChainInv, Recorded
<1>7. Normal(c)
  BY <1>2, UnspentNormal
<1> HIDE DEF c
<1>8. Connects(c, b)
  BY <1>2, <1>5, <1>7, BlockUndone
<1>9. coins = r.coins
  <2>1. Unspent(Append(s, b)) = Applied(c, Range(Body[b]), Height[b])
    BY <1>2, UnspentMore DEF c
  <2>q. QED  BY <1>1, <1>2, <1>8, <2>1 DEF Connects
<1>10. DisconnectBlock(coins, b, undo[b]) = [coins |-> c, clean |-> TRUE]
  BY <1>6, <1>8, <1>9 DEF Connects
<1>11. TipBack(c)
  BY <1>2, <1>3, <1>7, <1>8, <1>9, <1>10 DEF TipBack, c, s
<1>q. QED  BY <1>11 DEF c, s

LEMMA DisconnectChain ==
    ASSUME ChainInv, DisconnectTip
    PROVE  ChainInv' /\ coins' = Unspent(Front(chain))
<1> DEFINE s == Front(chain)
           c == Unspent(s)
<1>1. /\ chain # <<>> /\ chain' = s /\ undo' = undo
      /\ coins' = DisconnectBlock(coins, Tip, undo[Tip]).coins
  BY DEF DisconnectTip
<1>2. TipBack(c)
  BY <1>1, TipGoesBack
<1>3. Linked(s) /\ coins' = c
  BY <1>1, <1>2 DEF TipBack
<1>4. Linked(chain)
  BY DEF ChainInv
<1>5. Len(s) = Len(chain) - 1 /\ Len(chain) \in Nat /\ \A i \in 1 .. Len(s) : s[i] = chain[i]
  BY <1>1, <1>4, LinkedLess
<1> HIDE DEF s, c
<1>6. \A i \in 1 .. Len(s) :
          /\ s[i] \in DOMAIN undo
          /\ \A x : Linked(x) /\ TipOf(x) = Parent[s[i]] => ConnectBlock(Unspent(x), s[i]).ok
  <2> SUFFICES ASSUME NEW i \in 1 .. Len(s)
               PROVE  /\ chain[i] \in DOMAIN undo
                      /\ \A x : Linked(x) /\ TipOf(x) = Parent[chain[i]]
                                => ConnectBlock(Unspent(x), chain[i]).ok
    BY <1>5
  <2>1. i \in 1 .. Len(chain)
    BY <1>5
  <2>q. QED  BY <2>1 DEF ChainInv
<1>7. \A b \in DOMAIN undo : b \in Block \ {Genesis} /\ Recorded(b, undo[b])
  BY DEF ChainInv
<1>8. ChainInv'
  BY <1>1, <1>3, <1>6, <1>7 DEF ChainInv, c
<1>q. QED  BY <1>3, <1>8 DEF c, s

LEMMA NextChain == ChainInv /\ [Next]_vars => ChainInv'
<1> SUFFICES ASSUME ChainInv, [Next]_vars PROVE ChainInv'
  OBVIOUS
<1>1. ASSUME NEW p \in Peer, NEW t \in Tx, TxMessage(p, t) PROVE ChainInv'
  BY <1>1 DEF TxMessage, ChainInv
<1>2. ASSUME NEW p \in Peer, EraseOrphansFor(p) PROVE ChainInv'
  BY <1>2 DEF EraseOrphansFor, ChainInv
<1>3. ASSUME NEW b \in Block \ {Genesis}, ConnectTip(b) PROVE ChainInv'
  BY <1>3, ConnectChain
<1>4. CASE DisconnectTip
  BY <1>4, DisconnectChain
<1>5. CASE UNCHANGED vars
  BY <1>5 DEF vars, ChainInv
<1>q. QED  BY <1>1, <1>2, <1>3, <1>4, <1>5 DEF Next

LEMMA ChainAlways == Spec => []ChainInv
BY InitChain, NextChain, PTL DEF Spec

(***************************************************************************)
(* The coins are always the unspent outputs of the active chain, and the   *)
(* undo record of its tip gives back those of the chain without it:        *)
(* UpdateCoins and ApplyTxInUndo are inverse to each other, through        *)
(* ConnectBlock and DisconnectBlock, for every set of blocks and           *)
(* transactions and every order of connecting and disconnecting them.      *)
(***************************************************************************)
THEOREM CoinsAlwaysExact == Spec => []UndoExact
<1>1. ChainInv => UndoExact
  <2> SUFFICES ASSUME ChainInv PROVE UndoExact
    OBVIOUS
  <2>1. CoinsExact
    BY DEF ChainInv, CoinsExact
  <2>2. TipUndoes
    <3> SUFFICES ASSUME chain # <<>> PROVE DisconnectBlock(coins, Tip, undo[Tip]).clean
      BY DEF TipUndoes
    <3>1. TipBack(Unspent(Front(chain)))
      BY TipGoesBack
    <3>2. DisconnectBlock(coins, Tip, undo[Tip]) = [coins |-> Unspent(Front(chain)), clean |-> TRUE]
      BY <3>1 DEF TipBack
    <3>q. QED  BY <3>2
  <2>q. QED  BY <2>1, <2>2 DEF UndoExact
<1>q. QED  BY <1>1, ChainAlways, PTL

----------------------------------------------------------------------------
(* Folds over finite sets. *)

\* induction on the size of the subsets of a finite set
Grows(T, pick, D) == \A s \in SUBSET D : s # {} /\ s \ {pick[s]} \in T => s \in T

LEMMA SubsetInduction ==
    ASSUME NEW D, IsFiniteSet(D), NEW T, {} \in T,
           NEW pick, Picks(pick, D), Grows(T, pick, D)
    PROVE  \A s \in SUBSET D : s \in T
<1> DEFINE U == {n \in Nat : \A s \in SUBSET D : Cardinality(s) = n => s \in T}
<1>0. \A s \in SUBSET D : IsFiniteSet(s) /\ Cardinality(s) \in Nat
  BY FS_Subset, FS_CardinalityType
<1>1. 0 \in U
  BY <1>0, FS_EmptySet
<1>2. ASSUME NEW n \in Nat, n \in U PROVE n + 1 \in U
  <2> SUFFICES ASSUME NEW s \in SUBSET D, Cardinality(s) = n + 1 PROVE s \in T
    OBVIOUS
  <2>1. s # {}
    BY FS_EmptySet
  <2> DEFINE r == s \ {pick[s]}
  <2>2. pick[s] \in s
    BY <2>1 DEF Picks
  <2>3. r \in SUBSET D /\ Cardinality(r) = n
    <3>1. Cardinality(r) = Cardinality(s) - 1
      BY <1>0, <2>2, FS_RemoveElement
    <3>q. QED  BY <3>1
  <2>4. r \in T
    BY <1>2, <2>3
  <2>q. QED  BY <2>1, <2>4 DEF Grows
<1> HIDE DEF U
<1>3. Nat \subseteq U
  BY <1>1, <1>2, Induction
<1>q. QED  BY <1>0, <1>3 DEF U

\* a finite set of numbers has a largest
LEMMA FiniteMax ==
    ASSUME NEW D, IsFiniteSet(D), D \subseteq Nat, NEW s \in SUBSET D, s # {}
    PROVE  Max(s) \in s /\ \A x \in s : Max(s) >= x
<1> DEFINE T == {r \in SUBSET D : \E b \in Nat : \A x \in r : x <= b}
           pick == [r \in SUBSET D |-> CHOOSE x \in r : TRUE]
<1>1. {} \in T
  BY 0 \in Nat
<1>2. Picks(pick, D)
  BY DEF Picks
<1>3. ASSUME NEW r \in SUBSET D, r # {}, r \ {pick[r]} \in T PROVE r \in T
  <2>1. PICK b \in Nat : \A x \in r \ {pick[r]} : x <= b
    BY <1>3
  <2>2. pick[r] \in Nat
    BY <1>2, <1>3 DEF Picks
  <2> HIDE DEF pick
  <2>3. b + pick[r] \in Nat /\ \A x \in r : x <= b + pick[r]
    BY <2>1, <2>2
  <2>q. QED  BY <2>3
<1>31. Grows(T, pick, D)
  BY <1>3 DEF Grows
<1> HIDE DEF T, pick
<1>4. s \in T
  BY <1>1, <1>2, <1>31, SubsetInduction
<1>5. PICK b \in Nat : \A x \in s : x <= b
  BY <1>4 DEF T
<1>6. s \subseteq Nat
  OBVIOUS
<1>q. QED  BY <1>5, <1>6, MaxOf

\* what a fold over a set goes through, when I[s] holds its value after the elements s
SetUnrolls(f, base, pick, step, D) ==
    /\ f[{}] = base
    /\ \A s \in SUBSET D : s # {} /\ <<f[s \ {pick[s]}], pick[s]>> \in DOMAIN step =>
          f[s] = step[<<f[s \ {pick[s]}], pick[s]>>]
Invariant(I, base, pick, step, A, D) ==
    /\ base \in I[{}] /\ \A s \in SUBSET D : I[s] \subseteq A
    /\ \A s \in SUBSET D : s # {} => \A a \in I[s \ {pick[s]}] : step[<<a, pick[s]>>] \in I[s]

LEMMA SetUnrolled ==
    ASSUME NEW D, IsFiniteSet(D), NEW A, NEW base, NEW pick, Picks(pick, D),
           NEW step, DOMAIN step = A \X D, NEW f, SetUnrolls(f, base, pick, step, D),
           NEW I, Invariant(I, base, pick, step, A, D)
    PROVE  \A s \in SUBSET D : f[s] \in I[s]
<1> DEFINE T == {s \in SUBSET D : f[s] \in I[s]}
<1>1. {} \in T
  BY DEF SetUnrolls, Invariant
<1>2. ASSUME NEW s \in SUBSET D, s # {}, s \ {pick[s]} \in T PROVE s \in T
  <2> DEFINE r == s \ {pick[s]}
  <2>1. r \in SUBSET D /\ f[r] \in I[r] /\ pick[s] \in D
    BY <1>2 DEF Picks
  <2>2. f[r] \in A
    BY <2>1 DEF Invariant
  <2>3. f[s] = step[<<f[r], pick[s]>>]
    BY <1>2, <2>1, <2>2 DEF SetUnrolls
  <2>q. QED  BY <1>2, <2>1, <2>3 DEF Invariant
<1>21. Grows(T, pick, D)
  BY <1>2 DEF Grows
<1> HIDE DEF T
<1>3. \A s \in SUBSET D : s \in T
  BY <1>1, <1>21, SubsetInduction
<1>q. QED  BY <1>3 DEF T

----------------------------------------------------------------------------
(* totalTxSize: sums over finite sets of transactions. *)

SumOf(S) == MapThenSumSet(LAMBDA t : Size[t], S)

Sums(f, D) ==
    f = [s \in SUBSET D |->
           IF s = {} THEN 0 ELSE Size[CHOOSE x \in s : TRUE] + f[s \ {CHOOSE x \in s : TRUE}]]

LEMMA SumExists ==
    ASSUME NEW D, IsFiniteSet(D), D \subseteq Tx
    PROVE  \E f : Sums(f, D) /\ SumOf(D) = f[D]
<1> DEFINE pick == [s \in SUBSET D |-> CHOOSE x \in s : TRUE]
           step == [z \in Nat \X D |-> Size[z[2]] + z[1]]
<1>1. Picks(pick, D)
  BY DEF Picks
<1>2. Closed(step, Nat, D)
  BY PoolAssumption DEF Closed, PoolAssumption
<1>3. PICK g \in [SUBSET D -> Nat] : Solves(g, 0, pick, step, D)
  <2> HIDE DEF pick, step
  <2>q. QED  BY <1>1, <1>2, SubsetRecursion
<1>4. Sums(g, D)
  BY <1>1, <1>3 DEF Solves, Sums, Picks
<1>q. QED  BY <1>4 DEF SumOf, Sums, MapThenSumSet, MapThenFoldSet

LEMMA SumsAgree ==
    ASSUME NEW D, IsFiniteSet(D), NEW E \in SUBSET D, NEW f, Sums(f, D), NEW g, Sums(g, E)
    PROVE  f[E] = g[E]
<1> DEFINE T == {s \in SUBSET E : f[s] = g[s]}
           pick == [s \in SUBSET E |-> CHOOSE x \in s : TRUE]
<1>0. /\ \A s \in SUBSET E : f[s] = IF s = {} THEN 0 ELSE Size[pick[s]] + f[s \ {pick[s]}]
      /\ \A s \in SUBSET E : g[s] = IF s = {} THEN 0 ELSE Size[pick[s]] + g[s \ {pick[s]}]
  <2>1. \A s \in SUBSET E : pick[s] = (CHOOSE x \in s : TRUE) /\ s \in SUBSET D
    OBVIOUS
  <2>2. \A s \in SUBSET D : f[s] = IF s = {} THEN 0 ELSE Size[CHOOSE x \in s : TRUE]
                                   + f[s \ {CHOOSE x \in s : TRUE}]
    BY DEF Sums
  <2>3. \A s \in SUBSET E : g[s] = IF s = {} THEN 0 ELSE Size[CHOOSE x \in s : TRUE]
                                   + g[s \ {CHOOSE x \in s : TRUE}]
    BY DEF Sums
  <2> HIDE DEF pick
  <2>q. QED  BY <2>1, <2>2, <2>3
<1>1. Picks(pick, E) /\ IsFiniteSet(E)
  BY FS_Subset DEF Picks
<1> HIDE DEF pick
<1>2. {} \in T
  BY <1>0
<1>3. ASSUME NEW s \in SUBSET E, s # {}, s \ {pick[s]} \in T PROVE s \in T
  BY <1>0, <1>3
<1>31. Grows(T, pick, E)
  BY <1>3 DEF Grows
<1> HIDE DEF T
<1>4. \A s \in SUBSET E : s \in T
  BY <1>1, <1>2, <1>31, SubsetInduction
<1>q. QED  BY <1>4 DEF T

LEMMA SumUnfold ==
    ASSUME NEW D, IsFiniteSet(D), D \subseteq Tx
    PROVE  SumOf(D) = IF D = {} THEN 0 ELSE Size[CHOOSE x \in D : TRUE] + SumOf(D \ {CHOOSE x \in D : TRUE})
<1>1. PICK f : Sums(f, D) /\ SumOf(D) = f[D]
  BY SumExists
<1> DEFINE x == CHOOSE y \in D : TRUE
           E == D \ {x}
<1>2. f[D] = IF D = {} THEN 0 ELSE Size[x] + f[E]
  BY <1>1 DEF Sums
<1>3. E \in SUBSET D /\ E \subseteq Tx /\ IsFiniteSet(E)
  BY FS_Subset
<1> HIDE DEF x, E
<1>4. PICK g : Sums(g, E) /\ SumOf(E) = g[E]
  BY <1>3, SumExists
<1>5. f[E] = g[E]
  BY <1>1, <1>3, <1>4, SumsAgree
<1>q. QED  BY <1>1, <1>2, <1>4, <1>5 DEF x, E

\* the order in which the sum is made does not matter
LEMMA SumRemove ==
    ASSUME NEW D, IsFiniteSet(D), D \subseteq Tx
    PROVE  /\ SumOf(D) \in Nat /\ SumOf({}) = 0
           /\ \A x \in D : SumOf(D) = Size[x] + SumOf(D \ {x})
<1> DEFINE pick == [s \in SUBSET D |-> CHOOSE x \in s : TRUE]
           Fact(s) == SumOf(s) \in Nat /\ \A x \in s : SumOf(s) = Size[x] + SumOf(s \ {x})
           T == {s \in SUBSET D : SumOf(s) \in Nat}
<1>0. \A s \in SUBSET D : SumOf(s) = IF s = {} THEN 0 ELSE Size[pick[s]] + SumOf(s \ {pick[s]})
  <2> SUFFICES ASSUME NEW s \in SUBSET D
               PROVE  SumOf(s) = IF s = {} THEN 0 ELSE Size[pick[s]] + SumOf(s \ {pick[s]})
    OBVIOUS
  <2>1. IsFiniteSet(s) /\ s \subseteq Tx
    BY FS_Subset
  <2>2. pick[s] = (CHOOSE x \in s : TRUE)
    OBVIOUS
  <2> HIDE DEF pick
  <2>q. QED  BY <2>1, <2>2, SumUnfold
<1>1. Picks(pick, D)
  BY DEF Picks
<1>2. \A x \in D : Size[x] \in Nat
  BY PoolAssumption DEF PoolAssumption
<1> HIDE DEF pick
<1>3. SumOf({}) = 0
  BY <1>0
<1>31. \A s \in SUBSET D : SumOf(s) \in Nat
  <2>1. {} \in T
    BY <1>3
  <2>2. Grows(T, pick, D)
    BY <1>0, <1>1, <1>2 DEF Grows, Picks
  <2> HIDE DEF T
  <2>3. \A s \in SUBSET D : s \in T
    BY <1>1, <2>1, <2>2, SubsetInduction
  <2>q. QED  BY <2>3 DEF T
<1> DEFINE U == {n \in Nat : \A s \in SUBSET D : Cardinality(s) = n => Fact(s)}
<1>4. \A s \in SUBSET D : IsFiniteSet(s) /\ Cardinality(s) \in Nat
  BY FS_Subset, FS_CardinalityType
<1>5. 0 \in U
  <2> SUFFICES ASSUME NEW s \in SUBSET D, Cardinality(s) = 0 PROVE Fact(s)
    OBVIOUS
  <2>1. s = {}
    BY <1>4, FS_EmptySet
  <2>q. QED  BY <1>3, <2>1
<1>6. ASSUME NEW n \in Nat, n \in U PROVE n + 1 \in U
  <2> SUFFICES ASSUME NEW s \in SUBSET D, Cardinality(s) = n + 1 PROVE Fact(s)
    OBVIOUS
  <2>1. s # {}
    BY FS_EmptySet
  <2> DEFINE y == pick[s]
  <2>2. y \in s
    BY <1>1, <2>1 DEF Picks
  <2>3. \A x \in s : s \ {x} \in SUBSET D /\ Cardinality(s \ {x}) = n
    <3> SUFFICES ASSUME NEW x \in s PROVE Cardinality(s \ {x}) = n
      OBVIOUS
    <3>1. Cardinality(s \ {x}) = Cardinality(s) - 1
      BY <1>4, FS_RemoveElement
    <3>q. QED  BY <3>1
  <2>4. \A x \in s : Fact(s \ {x})
    BY <1>6, <2>3
  <2>5. SumOf(s) = Size[y] + SumOf(s \ {y}) /\ SumOf(s \ {y}) \in Nat
    BY <1>0, <2>1, <2>2, <2>4
  <2> HIDE DEF y
  <2>6. ASSUME NEW x \in s PROVE SumOf(s) = Size[x] + SumOf(s \ {x})
    <3>1. CASE x = y
      BY <2>5, <3>1
    <3>2. CASE x # y
      <4>1. x \in s \ {y} /\ y \in s \ {x}
        BY <2>2, <3>2
      <4>2. SumOf(s \ {y}) = Size[x] + SumOf((s \ {y}) \ {x})
        BY <2>2, <2>4, <4>1
      <4>3. SumOf(s \ {x}) = Size[y] + SumOf((s \ {x}) \ {y}) /\ SumOf(s \ {x}) \in Nat
        BY <2>4, <4>1
      <4>4. (s \ {y}) \ {x} = (s \ {x}) \ {y}
        OBVIOUS
      <4> DEFINE r == (s \ {x}) \ {y}
      <4>5. SumOf(s \ {y}) = Size[x] + SumOf(r) /\ SumOf(s \ {x}) = Size[y] + SumOf(r)
        BY <4>2, <4>3, <4>4
      <4>6. SumOf(r) \in Nat
        BY <1>31
      <4> HIDE DEF r
      <4>q. QED  BY <1>2, <2>2, <2>5, <4>5, <4>6
    <3>q. QED  BY <3>1, <3>2
  <2>7. SumOf(s) \in Nat
    BY <1>2, <2>2, <2>5
  <2>q. QED  BY <2>6, <2>7
<1> HIDE DEF U, Fact
<1>7. Nat \subseteq U
  BY <1>5, <1>6, Induction
<1>8. Fact(D)
  BY <1>4, <1>7 DEF U
<1>q. QED  BY <1>3, <1>8 DEF Fact

LEMMA SumAdd ==
    ASSUME NEW S, IsFiniteSet(S), S \subseteq Tx, NEW t \in Tx, t \notin S
    PROVE  SumOf(S \cup {t}) = SumOf(S) + Size[t]
<1> DEFINE D == S \cup {t}
           E == D \ {t}
<1>1. IsFiniteSet(D) /\ D \subseteq Tx /\ t \in D /\ E = S
  BY FS_AddElement
<1> HIDE DEF D, E
<1>2. SumOf(D) = Size[t] + SumOf(E)
  BY <1>1, SumRemove DEF E
<1>3. SumOf(S) \in Nat /\ Size[t] \in Nat
  BY SumRemove, PoolAssumption DEF PoolAssumption
<1>4. SumOf(D) = SumOf(S) + Size[t]
  BY <1>1, <1>2, <1>3
<1>q. QED  BY <1>4 DEF D

LEMMA SumMinus ==
    ASSUME NEW S, IsFiniteSet(S), S \subseteq Tx, NEW G \in SUBSET S
    PROVE  SumOf(S \ G) = SumOf(S) - SumOf(G)
<1> DEFINE pick == [s \in SUBSET S |-> CHOOSE x \in s : TRUE]
           T == {s \in SUBSET S : SumOf(S \ s) = SumOf(S) - SumOf(s)}
<1>1. Picks(pick, S)
  BY DEF Picks
<1>2. \A s \in SUBSET S : IsFiniteSet(s) /\ SumOf(s) \in Nat /\ SumOf({}) = 0
                          /\ \A x \in s : SumOf(s) = Size[x] + SumOf(s \ {x}) /\ Size[x] \in Nat
  <2> SUFFICES ASSUME NEW s \in SUBSET S
               PROVE  IsFiniteSet(s) /\ SumOf(s) \in Nat /\ SumOf({}) = 0
                      /\ \A x \in s : SumOf(s) = Size[x] + SumOf(s \ {x}) /\ Size[x] \in Nat
    OBVIOUS
  <2>1. IsFiniteSet(s) /\ s \subseteq Tx
    BY FS_Subset
  <2>2. \A x \in s : Size[x] \in Nat
    BY PoolAssumption DEF PoolAssumption
  <2>q. QED  BY <2>1, <2>2, SumRemove
<1> HIDE DEF pick
<1>3. {} \in T
  <2>1. S \ {} = S /\ {} \in SUBSET S /\ S \in SUBSET S
    OBVIOUS
  <2>q. QED  BY <1>2, <2>1
<1>4. ASSUME NEW s \in SUBSET S, s # {}, s \ {pick[s]} \in T PROVE s \in T
  <2> DEFINE x == pick[s]
             r == s \ {x}
  <2>1. x \in s /\ x \in S /\ r \in SUBSET S /\ S \ s \in SUBSET S /\ S \ r \in SUBSET S
    BY <1>1, <1>4 DEF Picks
  <2>2. SumOf(S \ r) = SumOf(S) - SumOf(r)
    BY <1>4
  <2>3. x \in S \ r /\ (S \ r) \ {x} = S \ s
    BY <2>1
  <2> HIDE DEF x, r
  <2>4. SumOf(S \ r) = Size[x] + SumOf(S \ s)
    BY <1>2, <2>1, <2>3
  <2>5. SumOf(s) = Size[x] + SumOf(r) /\ Size[x] \in Nat
    BY <1>2, <2>1 DEF r
  <2>6. SumOf(S) \in Nat /\ SumOf(r) \in Nat /\ SumOf(S \ s) \in Nat /\ SumOf(s) \in Nat
    BY <1>2, <2>1
  <2>q. QED  BY <2>2, <2>4, <2>5, <2>6
<1>5. Grows(T, pick, S)
  BY <1>4 DEF Grows
<1> HIDE DEF T
<1>6. G \in T
  BY <1>1, <1>3, <1>5, SubsetInduction
<1>q. QED  BY <1>6 DEF T

----------------------------------------------------------------------------
(* The pool's indexes. *)

PoolType == [tx : SUBSET Tx, next : [OutPoint -> Tx \cup {NoTx}], size : Int]

(***************************************************************************)
(* What the operations of CTxMemPool keep among themselves: the indexes    *)
(* are exact, there are no coinbases, and no input names an output that    *)
(* its transaction cannot have.                                            *)
(***************************************************************************)
PoolOK(mp) ==
    /\ mp \in PoolType /\ IsFiniteSet(mp.tx) /\ mp.tx \cap CoinBase = {}
    /\ \A o \in OutPoint : mp.next[o] # NoTx =>
          mp.next[o] \in mp.tx /\ o \in Inputs(mp.next[o])
    /\ \A t \in mp.tx : \A o \in Inputs(t) : mp.next[o] = t /\ o[2] < Outs[o[1]]
    /\ mp.size = SumOf(mp.tx)

LEMMA OutPoints ==
    ASSUME NEW t \in Tx
    PROVE  /\ \A o \in Inputs(t) : o \in OutPoint /\ o \in Tx \X Nat
           /\ NoTx \notin Tx
<1>1. Inputs(t) \subseteq Tx \X Nat
  BY InputsAll
<1>2. NoTx \notin Tx
  BY TxAssumption DEF TxAssumption, NoTx
<1>q. QED  BY <1>1, <1>2 DEF OutPoint

LEMMA EmptyOK == PoolOK(EmptyPool)
<1>1. SumOf({}) = 0 /\ IsFiniteSet({})
  BY FS_EmptySet, SumRemove
<1>2. EmptyPool \in PoolType /\ EmptyPool.tx = {} /\ EmptyPool.size = 0
      /\ \A o \in OutPoint : EmptyPool.next[o] = NoTx
  BY DEF EmptyPool, PoolType
<1>q. QED  BY <1>1, <1>2 DEF PoolOK

LEMMA WithoutOK ==
    ASSUME NEW mp, PoolOK(mp), NEW gone \in SUBSET mp.tx
    PROVE  PoolOK(Without(mp, gone)) /\ Without(mp, gone).tx = mp.tx \ gone
<1> DEFINE q == Without(mp, gone)
<1>1. /\ q.tx = mp.tx \ gone /\ q.size = mp.size - SumOf(gone)
      /\ q.next = [o \in OutPoint |-> IF \E t \in gone : o \in Inputs(t) THEN NoTx ELSE mp.next[o]]
      /\ q = [tx |-> q.tx, next |-> q.next, size |-> q.size]
  BY DEF Without, SumOf
<1> HIDE DEF q
<1>2. mp.tx \subseteq Tx /\ mp.next \in [OutPoint -> Tx \cup {NoTx}] /\ IsFiniteSet(mp.tx)
      /\ mp.size = SumOf(mp.tx)
  BY DEF PoolOK, PoolType
<1>3. q.size = SumOf(q.tx) /\ q.size \in Int
  <2>1. q.size = SumOf(q.tx)
    BY <1>1, <1>2, SumMinus
  <2>2. IsFiniteSet(q.tx) /\ q.tx \subseteq Tx
    BY <1>1, <1>2, FS_Subset
  <2>q. QED  BY <2>1, <2>2, SumRemove
<1>4. q \in PoolType /\ IsFiniteSet(q.tx) /\ q.tx \cap CoinBase = {}
  <2>1. q.next \in [OutPoint -> Tx \cup {NoTx}]
    BY <1>1, <1>2
  <2>2. IsFiniteSet(q.tx)
    BY <1>1, <1>2, FS_Subset
  <2>3. q.tx \in SUBSET Tx
    BY <1>1, <1>2
  <2>4. q \in PoolType
    BY <1>1, <1>3, <2>1, <2>3 DEF PoolType
  <2>q. QED  BY <1>1, <2>2, <2>4 DEF PoolOK
<1>5. ASSUME NEW o \in OutPoint, q.next[o] # NoTx
      PROVE  q.next[o] \in q.tx /\ o \in Inputs(q.next[o])
  <2>1. q.next[o] = mp.next[o] /\ ~ \E t \in gone : o \in Inputs(t)
    BY <1>1, <1>5
  <2>2. mp.next[o] \in mp.tx /\ o \in Inputs(mp.next[o])
    BY <1>5, <2>1 DEF PoolOK
  <2>q. QED  BY <1>1, <2>1, <2>2
<1>6. ASSUME NEW t \in q.tx, NEW o \in Inputs(t)
      PROVE  q.next[o] = t /\ o[2] < Outs[o[1]]
  <2>1. t \in mp.tx /\ t \notin gone /\ t \in Tx
    BY <1>1, <1>2, <1>6
  <2>2. o \in OutPoint
    BY <2>1, OutPoints
  <2>3. mp.next[o] = t /\ o[2] < Outs[o[1]]
    BY <2>1 DEF PoolOK
  <2>4. \A u \in gone : o \notin Inputs(u)
    BY <2>1, <2>3 DEF PoolOK
  <2>q. QED  BY <1>1, <2>2, <2>3, <2>4
<1>7. PoolOK(q)
  BY <1>3, <1>4, <1>5, <1>6 DEF PoolOK
<1>q. QED  BY <1>1, <1>7 DEF q

\* t may be added: it is not there, and nothing there spends what it spends
Addable(mp, t) ==
    /\ t \in Tx \ CoinBase /\ t \notin mp.tx
    /\ \A o \in Inputs(t) : mp.next[o] = NoTx /\ o[2] < Outs[o[1]]

LEMMA AddOK ==
    ASSUME NEW mp, PoolOK(mp), NEW t, Addable(mp, t)
    PROVE  PoolOK(AddUnchecked(mp, t)) /\ AddUnchecked(mp, t).tx = mp.tx \cup {t}
<1> DEFINE q == AddUnchecked(mp, t)
<1>0. t \in Tx \ CoinBase /\ t \notin mp.tx
  BY DEF Addable
<1>1. /\ q.tx = mp.tx \cup {t} /\ q.size = mp.size + Size[t]
      /\ q.next = [o \in OutPoint |-> IF o \in Inputs(t) THEN t ELSE mp.next[o]]
      /\ q = [tx |-> q.tx, next |-> q.next, size |-> q.size]
  BY DEF AddUnchecked
<1> HIDE DEF q
<1>2. mp.tx \subseteq Tx /\ mp.next \in [OutPoint -> Tx \cup {NoTx}] /\ IsFiniteSet(mp.tx)
      /\ mp.size = SumOf(mp.tx)
  BY DEF PoolOK, PoolType
<1>3. q.size = SumOf(q.tx) /\ q.size \in Int
  <2>1. q.size = SumOf(q.tx)
    BY <1>0, <1>1, <1>2, SumAdd
  <2>2. IsFiniteSet(q.tx) /\ q.tx \subseteq Tx
    BY <1>0, <1>1, <1>2, FS_AddElement
  <2>q. QED  BY <2>1, <2>2, SumRemove
<1>4. q \in PoolType /\ IsFiniteSet(q.tx) /\ q.tx \cap CoinBase = {}
  <2>1. q.next \in [OutPoint -> Tx \cup {NoTx}]
    BY <1>0, <1>1, <1>2
  <2>2. IsFiniteSet(q.tx)
    BY <1>1, <1>2, FS_AddElement
  <2>3. q.tx \in SUBSET Tx
    BY <1>0, <1>1, <1>2
  <2>4. q \in PoolType
    BY <1>1, <1>3, <2>1, <2>3 DEF PoolType
  <2>q. QED  BY <1>0, <1>1, <2>2, <2>4 DEF PoolOK
<1>5. ASSUME NEW o \in OutPoint, q.next[o] # NoTx
      PROVE  q.next[o] \in q.tx /\ o \in Inputs(q.next[o])
  BY <1>1, <1>5 DEF PoolOK
<1>6. ASSUME NEW u \in q.tx, NEW o \in Inputs(u)
      PROVE  q.next[o] = u /\ o[2] < Outs[o[1]]
  <2>0. o \in OutPoint
    BY <1>0, <1>1, <1>2, OutPoints
  <2>1. CASE u = t
    BY <1>1, <2>0, <2>1 DEF Addable
  <2>2. CASE u # t
    <3>1. u \in mp.tx
      BY <1>1, <2>2
    <3>2. mp.next[o] = u /\ o[2] < Outs[o[1]]
      BY <3>1 DEF PoolOK
    <3>3. u # NoTx
      BY <1>2, <3>1, OutPoints
    <3>4. o \notin Inputs(t)
      BY <3>2, <3>3 DEF Addable
    <3>q. QED  BY <1>1, <2>0, <3>2, <3>4
  <2>q. QED  BY <2>1, <2>2
<1>7. PoolOK(q)
  BY <1>3, <1>4, <1>5, <1>6 DEF PoolOK
<1>q. QED  BY <1>1, <1>7 DEF q

LEMMA SpendersOf ==
    ASSUME NEW mp, PoolOK(mp), NEW t \in Tx
    PROVE  Spenders(mp, t) = {u \in mp.tx : \E o \in Inputs(u) : o[1] = t}
<1>0. mp.tx \subseteq Tx
  BY DEF PoolOK, PoolType
<1>1. ASSUME NEW u \in Spenders(mp, t)
      PROVE  u \in mp.tx /\ \E o \in Inputs(u) : o[1] = t
  <2>1. PICK o \in OutPoint : o[1] = t /\ u = mp.next[o] /\ u # NoTx
    BY <1>1 DEF Spenders
  <2>q. QED  BY <2>1 DEF PoolOK
<1>2. ASSUME NEW u \in mp.tx, NEW o \in Inputs(u), o[1] = t
      PROVE  u \in Spenders(mp, t)
  <2>1. o \in OutPoint /\ mp.next[o] = u /\ o[2] < Outs[t] /\ u # NoTx
    BY <1>0, <1>2, OutPoints DEF PoolOK
  <2>q. QED  BY <1>2, <2>1 DEF Spenders
<1>q. QED  BY <1>1, <1>2

----------------------------------------------------------------------------
(* Removal: nothing is left that depends on what goes. *)

\* one round of the work list
Round(mp, R) == R \cup UNION {Spenders(mp, t) : t \in R \cap mp.tx}

Reaches(f, mp, S) ==
    f = [n \in 0 .. Cardinality(mp.tx) |-> IF n = 0 THEN S ELSE Round(mp, f[n - 1])]

LEMMA ReachExists ==
    ASSUME NEW mp, PoolOK(mp), NEW S \in SUBSET Tx
    PROVE  \E f : Reaches(f, mp, S) /\ WithSpenders(mp, S) = f[Cardinality(mp.tx)]
<1> DEFINE K == Cardinality(mp.tx)
           A == SUBSET Tx
           step == [z \in A \X (1 .. K) |-> Round(mp, z[1])]
<1>0. K \in Nat /\ mp.tx \subseteq Tx
  BY FS_CardinalityType DEF PoolOK, PoolType
<1> HIDE DEF K
<1>1. \A R \in SUBSET Tx : Round(mp, R) \in SUBSET Tx
  <2> SUFFICES ASSUME NEW R \in SUBSET Tx, NEW t \in R \cap mp.tx PROVE Spenders(mp, t) \subseteq Tx
    BY DEF Round
  <2>1. Spenders(mp, t) \subseteq mp.tx
    BY SpendersOf
  <2>q. QED  BY <1>0, <2>1
<1>2. StepOn(step, A, K)
  BY <1>1 DEF StepOn, Closed
<1>3. PICK g \in [SUBSET (1 .. K) -> A] : SolvesTo(g, S, step, K)
  <2> HIDE DEF step
  <2>1. S \in A
    OBVIOUS
  <2> HIDE DEF A
  <2>q. QED  BY <1>0, <1>2, <2>1, SequenceRecursion
<1>4. Unrolls(g, S, step, K)
  <2> HIDE DEF step
  <2>q. QED  BY <1>3 DEF SolvesTo, Unrolls
<1>5. PICK h : Runs(h, S, step, A, K)
  <2> HIDE DEF step
  <2>1. S \in A
    OBVIOUS
  <2> HIDE DEF A
  <2>q. QED  BY <1>0, <1>2, <1>4, <2>1, Unrolled
<1>6. \A k \in 1 .. K : h[k] = Round(mp, h[k - 1])
  <2> SUFFICES ASSUME NEW k \in 1 .. K PROVE h[k] = Round(mp, h[k - 1])
    OBVIOUS
  <2>1. h[k - 1] \in A
    BY <1>0, <1>5 DEF Runs
  <2>q. QED  BY <1>5, <2>1 DEF Runs
<1>7. h \in [0 .. K -> A] /\ h[0] = S
  BY <1>5 DEF Runs
<1>8. h = [n \in 0 .. K |-> IF n = 0 THEN S ELSE Round(mp, h[n - 1])]
  <2>1. ASSUME NEW n \in 0 .. K PROVE h[n] = IF n = 0 THEN S ELSE Round(mp, h[n - 1])
    <3>1. CASE n = 0
      BY <1>7, <3>1
    <3>2. CASE n # 0
      <4>1. n \in 1 .. K
        BY <1>0, <3>2
      <4>q. QED  BY <1>6, <3>2, <4>1
    <3>q. QED  BY <3>1, <3>2
  <2>q. QED  BY <1>7, <2>1
<1>9. Reaches(h, mp, S)
  BY <1>8 DEF Reaches, K
<1>q. QED  BY <1>9 DEF Reaches, WithSpenders, Round

\* everything that depends on S is found, in as many rounds as there are transactions
Found(W, mp, S) ==
    /\ S \subseteq W /\ W \subseteq S \cup mp.tx
    /\ \A t \in W \cap mp.tx : Spenders(mp, t) \subseteq W

LEMMA AllFound ==
    ASSUME NEW mp, PoolOK(mp), NEW S \in SUBSET Tx
    PROVE  Found(WithSpenders(mp, S), mp, S)
<1> DEFINE K == Cardinality(mp.tx)
<1>0. K \in Nat /\ mp.tx \subseteq Tx /\ IsFiniteSet(mp.tx)
  BY FS_CardinalityType DEF PoolOK, PoolType
<1>1. PICK f : Reaches(f, mp, S) /\ WithSpenders(mp, S) = f[K]
  BY ReachExists
<1> HIDE DEF K
<1>2. f[0] = S /\ \A k \in 1 .. K : f[k] = Round(mp, f[k - 1])
  BY <1>0, <1>1 DEF Reaches, K
<1> DEFINE Closed2(n) == \A t \in f[n] \cap mp.tx : Spenders(mp, t) \subseteq f[n]
           Fact(n) == /\ S \subseteq f[n] /\ f[n] \subseteq S \cup mp.tx
                      /\ Closed2(n) \/ Cardinality(f[n] \cap mp.tx) >= n
           T == {n \in 0 .. K : Fact(n)}
<1>3. \A R : IsFiniteSet(R \cap mp.tx) /\ Cardinality(R \cap mp.tx) \in Nat
  BY <1>0, FS_Subset, FS_CardinalityType
<1>4. \A t \in mp.tx : Spenders(mp, t) \subseteq mp.tx
  BY <1>0, SpendersOf
<1>5. 0 \in T
  <2>1. Cardinality(f[0] \cap mp.tx) >= 0
    BY <1>3
  <2>2. 0 \in 0 .. K
    BY <1>0
  <2>3. S \subseteq f[0] /\ f[0] \subseteq S \cup mp.tx
    BY <1>2
  <2>q. QED  BY <2>1, <2>2, <2>3
<1>6. ASSUME NEW n \in 1 .. K, n - 1 \in T PROVE n \in T
  <2> DEFINE R == f[n - 1]
             Q == f[n]
  <2>1. Fact(n - 1)
    BY <1>6
  <2>2. Q = R \cup UNION {Spenders(mp, t) : t \in R \cap mp.tx}
    BY <1>2 DEF Round
  <2>3. S \subseteq Q /\ Q \subseteq S \cup mp.tx /\ R \subseteq Q
    BY <1>4, <2>1, <2>2
  <2>4. CASE Closed2(n - 1)
    <3>1. Q = R
      BY <2>2, <2>4
    <3>q. QED  BY <1>0, <2>3, <2>4, <3>1
  <2>5. CASE ~Closed2(n - 1)
    <3>1. Cardinality(R \cap mp.tx) >= n - 1
      BY <2>1, <2>5
    <3>2. PICK u : u \in Q /\ u \notin R /\ u \in mp.tx
      <4>1. PICK t \in R \cap mp.tx : ~(Spenders(mp, t) \subseteq R)
        BY <2>5
      <4>2. PICK u \in Spenders(mp, t) : u \notin R
        BY <4>1
      <4>q. QED  BY <1>4, <2>2, <4>1, <4>2
    <3> HIDE DEF R, Q
    <3> DEFINE E == (R \cap mp.tx) \cup {u}
    <3>3. Cardinality(E) = Cardinality(R \cap mp.tx) + 1 /\ E \in SUBSET (Q \cap mp.tx)
      <4>1. u \notin R \cap mp.tx
        BY <3>2
      <4>q. QED  BY <1>3, <2>3, <3>2, <4>1, FS_AddElement
    <3> HIDE DEF E
    <3>4. Cardinality(E) <= Cardinality(Q \cap mp.tx)
      BY <1>3, <3>3, FS_Subset
    <3>5. Cardinality(Q \cap mp.tx) >= n
      <4>1. Cardinality(R \cap mp.tx) \in Nat /\ Cardinality(Q \cap mp.tx) \in Nat
        BY <1>3
      <4>q. QED  BY <3>1, <3>3, <3>4, <4>1
    <3>q. QED  BY <1>0, <2>3, <3>5 DEF Q
  <2>q. QED  BY <2>4, <2>5
<1> HIDE DEF T
<1>7. \A n \in 0 .. K : n \in T
  BY <1>0, <1>5, <1>6, InductionTo
<1> DEFINE W == f[K]
<1>8. Fact(K)
  BY <1>0, <1>7 DEF T
<1>9. \A t \in W \cap mp.tx : Spenders(mp, t) \subseteq W
  <2>1. CASE Closed2(K)
    BY <2>1
  <2>2. CASE Cardinality(W \cap mp.tx) >= K
    <3>1. Cardinality(W \cap mp.tx) <= Cardinality(mp.tx)
          /\ (Cardinality(mp.tx) = Cardinality(W \cap mp.tx) => mp.tx = W \cap mp.tx)
      BY <1>0, FS_Subset
    <3>2. mp.tx = W \cap mp.tx
      BY <1>0, <1>3, <2>2, <3>1 DEF K
    <3>q. QED  BY <1>4, <3>2
  <2>q. QED  BY <1>8, <2>1, <2>2
<1>q. QED  BY <1>1, <1>8, <1>9 DEF Found

(***************************************************************************)
(* q is what is left of mp when some transactions went with all that       *)
(* depends on them.                                                        *)
(***************************************************************************)
Cut(mp, q) ==
    /\ PoolOK(q) /\ q.tx \subseteq mp.tx
    /\ \A u \in q.tx : \A o \in Inputs(u) : o[1] \in mp.tx => o[1] \in q.tx

LEMMA CutTrans ==
    ASSUME NEW mp, NEW q, NEW r, Cut(mp, q), Cut(q, r)
    PROVE  Cut(mp, r)
BY DEF Cut

LEMMA RemoveCuts ==
    ASSUME NEW mp, PoolOK(mp), NEW t \in Tx
    PROVE  /\ Cut(mp, RemoveRecursive(mp, t)) /\ t \notin RemoveRecursive(mp, t).tx
           /\ \A u \in RemoveRecursive(mp, t).tx : \A o \in Inputs(u) : o[1] # t
<1> DEFINE start == {t} \cup (IF t \in mp.tx THEN {} ELSE Spenders(mp, t))
           W == WithSpenders(mp, start)
           q == Without(mp, W \cap mp.tx)
<1>0. mp.tx \subseteq Tx
  BY DEF PoolOK, PoolType
<1>1. \A u \in Tx : Spenders(mp, u) = {v \in mp.tx : \E o \in Inputs(v) : o[1] = u}
  BY SpendersOf
<1>2. start \in SUBSET Tx
  BY <1>0, <1>1
<1>3. RemoveRecursive(mp, t) = q
  BY DEF RemoveRecursive
<1> HIDE DEF start
<1>4. Found(W, mp, start)
  BY <1>2, AllFound
<1> HIDE DEF W
<1>5. PoolOK(q) /\ q.tx = mp.tx \ W
  <2> DEFINE gone == W \cap mp.tx
  <2>1. gone \in SUBSET mp.tx /\ mp.tx \ gone = mp.tx \ W
    OBVIOUS
  <2> HIDE DEF gone
  <2>2. PoolOK(Without(mp, gone)) /\ Without(mp, gone).tx = mp.tx \ gone
    BY <2>1, WithoutOK
  <2>q. QED  BY <2>1, <2>2 DEF gone
<1> HIDE DEF q
<1>6. t \in W /\ (t \notin mp.tx => Spenders(mp, t) \subseteq W)
  BY <1>4 DEF Found, start
<1>7. Spenders(mp, t) \subseteq W
  BY <1>4, <1>6 DEF Found
<1>8. ASSUME NEW u \in q.tx, NEW o \in Inputs(u)
      PROVE  o[1] # t /\ (o[1] \in mp.tx => o[1] \in q.tx)
  <2>1. u \in mp.tx /\ u \notin W /\ o[1] \in Tx
    BY <1>0, <1>5, OutPoints
  <2>2. u \in Spenders(mp, o[1])
    BY <1>1, <2>1
  <2>3. o[1] # t
    BY <1>7, <2>1, <2>2
  <2>4. o[1] \in mp.tx => o[1] \notin W
    BY <1>4, <2>1, <2>2 DEF Found
  <2>q. QED  BY <1>5, <2>3, <2>4
<1>q. QED  BY <1>3, <1>5, <1>6, <1>8 DEF Cut

\* a set of transactions goes, one after the other
RemoveAll(mp, S) == FoldSet(LAMBDA c, acc : RemoveRecursive(acc, c), mp, S)

LEMMA RemoveAllCuts ==
    ASSUME NEW mp, PoolOK(mp), NEW S \in SUBSET Tx, IsFiniteSet(S)
    PROVE  Cut(mp, RemoveAll(mp, S)) /\ RemoveAll(mp, S).tx \cap S = {}
<1> DEFINE A == {q \in PoolType : PoolOK(q)}
           pick == [s \in SUBSET S |-> CHOOSE x \in s : TRUE]
           step == [z \in A \X S |-> RemoveRecursive(z[1], z[2])]
           I == [s \in SUBSET S |-> {q \in A : Cut(mp, q) /\ q.tx \cap s = {}}]
<1>0. mp \in A /\ \A q : PoolOK(q) => q \in A
  BY DEF PoolOK
<1>1. Picks(pick, S) /\ \A s \in SUBSET S : pick[s] = (CHOOSE x \in s : TRUE)
  BY DEF Picks
<1>2. \A q \in A, t \in S : RemoveRecursive(q, t) \in A
  BY <1>0, RemoveCuts DEF Cut
<1>3. Closed(step, A, S) /\ DOMAIN step = A \X S
  BY <1>2 DEF Closed
<1> HIDE DEF A
<1>4. PICK g \in [SUBSET S -> A] : Solves(g, mp, pick, step, S)
  <2> HIDE DEF pick, step
  <2>q. QED  BY <1>0, <1>1, <1>3, SubsetRecursion
<1>5. g = [s \in SUBSET S |-> IF s = {} THEN mp
             ELSE RemoveRecursive(g[s \ {CHOOSE x \in s : TRUE}], CHOOSE x \in s : TRUE)]
  <2>1. ASSUME NEW s \in SUBSET S, s # {} PROVE g[s] = RemoveRecursive(g[s \ {pick[s]}], pick[s])
    <3>1. pick[s] \in S /\ s \ {pick[s]} \in SUBSET S /\ g[s \ {pick[s]}] \in A
      BY <1>1, <2>1 DEF Picks
    <3>2. g[s] = step[<<g[s \ {pick[s]}], pick[s]>>]
      BY <1>4, <2>1 DEF Solves
    <3> HIDE DEF pick
    <3>q. QED  BY <3>1, <3>2
  <2>2. g[{}] = mp
    BY <1>4 DEF Solves
  <2> HIDE DEF pick, step
  <2>q. QED  BY <1>1, <2>1, <2>2
<1>6. PICK f : /\ f = [s \in SUBSET S |-> IF s = {} THEN mp
                         ELSE RemoveRecursive(f[s \ {CHOOSE x \in s : TRUE}], CHOOSE x \in s : TRUE)]
               /\ RemoveAll(mp, S) = f[S]
  BY <1>5 DEF RemoveAll, FoldSet, MapThenFoldSet
<1>7. SetUnrolls(f, mp, pick, step, S)
  <2>1. f[{}] = mp
    BY <1>6
  <2>2. ASSUME NEW s \in SUBSET S, s # {}, <<f[s \ {pick[s]}], pick[s]>> \in DOMAIN step
        PROVE  f[s] = step[<<f[s \ {pick[s]}], pick[s]>>]
    <3>1. f[s] = RemoveRecursive(f[s \ {pick[s]}], pick[s])
      BY <1>1, <1>6, <2>2
    <3> HIDE DEF pick
    <3>q. QED  BY <2>2, <3>1
  <2> HIDE DEF pick, step
  <2>q. QED  BY <2>1, <2>2 DEF SetUnrolls
<1>8. Invariant(I, mp, pick, step, A, S)
  <2>1. mp \in I[{}]
    <3>1. Cut(mp, mp) /\ mp.tx \cap {} = {} /\ {} \in SUBSET S
      BY DEF Cut
    <3>q. QED  BY <1>0, <3>1
  <2>2. \A s \in SUBSET S : I[s] \subseteq A
    OBVIOUS
  <2>3. ASSUME NEW s \in SUBSET S, s # {}, NEW a \in I[s \ {pick[s]}]
        PROVE  step[<<a, pick[s]>>] \in I[s]
    <3> DEFINE x == pick[s]
               r == s \ {x}
               q == RemoveRecursive(a, x)
    <3>1. x \in s /\ x \in S /\ x \in Tx /\ r \in SUBSET S
      BY <1>1, <2>3 DEF Picks
    <3>2. a \in A /\ Cut(mp, a) /\ a.tx \cap r = {}
      BY <3>1
    <3>3. PoolOK(a)
      BY <3>2 DEF Cut
    <3> HIDE DEF x
    <3>4. Cut(a, q) /\ x \notin q.tx
      BY <3>1, <3>3, RemoveCuts
    <3>5. Cut(mp, q)
      BY <3>2, <3>4, CutTrans
    <3>6. q.tx \subseteq a.tx /\ q \in A
      BY <1>0, <3>4 DEF Cut
    <3>7. q.tx \cap s = {}
      BY <3>2, <3>4, <3>6
    <3>8. step[<<a, x>>] = q
      BY <3>1, <3>2
    <3> HIDE DEF q, step
    <3>9. step[<<a, x>>] \in I[s]
      BY <3>5, <3>6, <3>7, <3>8
    <3>q. QED  BY <3>9 DEF x
  <2> HIDE DEF I, pick, step
  <2>q. QED  BY <2>1, <2>2, <2>3 DEF Invariant
<1>9. f[S] \in I[S]
  <2> HIDE DEF I, pick, step
  <2>q. QED  BY <1>1, <1>3, <1>7, <1>8, SetUnrolled
<1>q. QED  BY <1>6, <1>9

LEMMA InputsFinite ==
    ASSUME NEW t \in Tx, NEW f
    PROVE  IsFiniteSet({f[o] : o \in Inputs(t)})
<1> DEFINE n == Len(Ins[t])
           T == {f[o] : o \in Inputs(t)}
           g == [i \in 1 .. n |-> f[Ins[t][i]]]
<1>1. n \in Nat /\ DOMAIN Ins[t] = 1 .. n
  BY InputsAll
<1>2. Inputs(t) = {Ins[t][i] : i \in 1 .. n}
  BY <1>1 DEF Inputs, Range
<1> HIDE DEF n
<1>3. T = {f[Ins[t][i]] : i \in 1 .. n}
  BY <1>2
<1>4. g \in Surjection(1 .. n, T)
  BY <1>3 DEF Surjection
<1> HIDE DEF T, g
<1>5. IsFiniteSet(T)
  BY <1>1, <1>4, FS_NatSurjection DEF ExistsSurjection
<1>q. QED  BY <1>5 DEF T

\* nothing in q spends what t spends
Clear(q, t) == \A u \in q.tx : \A o \in Inputs(u) : o \notin Inputs(t)

LEMMA ConflictsCut ==
    ASSUME NEW mp, PoolOK(mp), NEW t \in Tx, t \notin mp.tx
    PROVE  Cut(mp, RemoveConflicts(mp, t)) /\ Clear(RemoveConflicts(mp, t), t)
<1> DEFINE named == {mp.next[o] : o \in Inputs(t)}
           against == named \ {NoTx, t}
           q == RemoveConflicts(mp, t)
<1>1. IsFiniteSet(against)
  <2>1. IsFiniteSet(named)
    BY InputsFinite
  <2>q. QED  BY <2>1, FS_Subset
<1>2. against \in SUBSET Tx
  BY OutPoints DEF PoolOK, PoolType
<1>3. q = RemoveAll(mp, against)
  BY DEF RemoveConflicts, RemoveAll
<1> HIDE DEF q
<1>4. Cut(mp, q) /\ q.tx \cap against = {}
  <2> HIDE DEF against
  <2>q. QED  BY <1>1, <1>2, <1>3, RemoveAllCuts
<1>5. Clear(q, t)
  <2> SUFFICES ASSUME NEW u \in q.tx, NEW o \in Inputs(u), o \in Inputs(t) PROVE FALSE
    BY DEF Clear
  <2>1. u \in mp.tx /\ u \in Tx /\ u # NoTx
    BY <1>4, OutPoints DEF Cut, PoolOK, PoolType
  <2>2. mp.next[o] = u
    BY <2>1 DEF PoolOK
  <2>3. u \in against
    BY <2>1, <2>2
  <2>q. QED  BY <1>4, <2>3
<1>q. QED  BY <1>4, <1>5 DEF q

\* the transactions D are in a block: nothing of the pool is one of them, or against one of them
Cleared(mp, q, D) ==
    /\ PoolOK(q) /\ q.tx \subseteq mp.tx \ D
    /\ \A u \in q.tx : \A o \in Inputs(u) : /\ o \notin SpentBy(D)
                                            /\ o[1] \in mp.tx => o[1] \in q.tx \cup D

LEMMA RemoveOneClears ==
    ASSUME NEW mp, NEW q, NEW D, Cleared(mp, q, D), NEW t \in Tx,
           NEW E, E = D \cup {t}
    PROVE  Cleared(mp, RemoveConflicts(RemoveOne(q, t), t), E)
<1> DEFINE r == RemoveOne(q, t)
           x == RemoveConflicts(r, t)
<1>1. PoolOK(r) /\ r.tx = q.tx \ {t}
  <2> DEFINE gone == {t} \cap q.tx
  <2>1. gone \in SUBSET q.tx /\ q.tx \ gone = q.tx \ {t}
    OBVIOUS
  <2>2. r = Without(q, gone)
    BY DEF RemoveOne
  <2> HIDE DEF gone, r
  <2>q. QED  BY <2>1, <2>2, WithoutOK DEF Cleared
<1> HIDE DEF r
<1>2. Cut(r, x) /\ Clear(x, t)
  BY <1>1, ConflictsCut
<1> HIDE DEF x
<1>3. x.tx \subseteq mp.tx \ E /\ PoolOK(x)
  BY <1>1, <1>2 DEF Cut, Cleared
<1>4. ASSUME NEW u \in x.tx, NEW o \in Inputs(u)
      PROVE  o \notin SpentBy(E) /\ (o[1] \in mp.tx => o[1] \in x.tx \cup E)
  <2>1. u \in r.tx /\ u \in q.tx
    BY <1>1, <1>2 DEF Cut
  <2>2. o \notin Inputs(t)
    BY <1>2 DEF Clear
  <2>3. o \notin SpentBy(D) /\ (o[1] \in mp.tx => o[1] \in q.tx \cup D)
    BY <2>1 DEF Cleared
  <2>4. SpentBy(E) = SpentBy(D) \cup Inputs(t)
    BY DEF SpentBy
  <2>5. o[1] \in r.tx => o[1] \in x.tx
    BY <1>2 DEF Cut
  <2>q. QED  BY <1>1, <2>2, <2>3, <2>4, <2>5
<1>5. Cleared(mp, x, E)
  BY <1>3, <1>4 DEF Cleared
<1>q. QED  BY <1>5 DEF x, r

LEMMA BlockClears ==
    ASSUME NEW mp, PoolOK(mp), NEW b \in Block \ {Genesis}
    PROVE  Cleared(mp, RemoveForBlock(mp, b), Range(Body[b]))
<1> DEFINE s == Body[b]
           n == Len(s)
           A == {q \in PoolType : PoolOK(q)}
           Op(q, t) == RemoveConflicts(RemoveOne(q, t), t)
           step == [z \in A \X (1 .. n) |-> Op(z[1], s[z[2]])]
<1>0. n \in Nat /\ DOMAIN s = 1 .. n /\ \A k \in 1 .. n : s[k] \in Tx
  BY BodyFacts
<1>1. mp \in A /\ \A q : PoolOK(q) => q \in A
  BY DEF PoolOK
<1>2. ASSUME NEW q \in A, NEW t \in Tx PROVE Op(q, t) \in A
  <2>1. Cleared(q, q, {})
    BY DEF Cleared, SpentBy
  <2> DEFINE D == {}
             E == D \cup {t}
  <2> HIDE DEF E, D
  <2>2. Cleared(q, Op(q, t), E)
    BY <2>1, RemoveOneClears DEF E, D
  <2>q. QED  BY <1>1, <2>2 DEF Cleared
<1> HIDE DEF s, n, A, Op
<1>3. StepOn(step, A, n)
  BY <1>0, <1>2 DEF Closed, StepOn
<1>4. PICK g \in [SUBSET (1 .. n) -> A] : SolvesTo(g, mp, step, n)
  <2> HIDE DEF step
  <2>q. QED  BY <1>0, <1>1, <1>3, SequenceRecursion
<1>5. g = [x \in SUBSET DOMAIN s |-> IF x = {} THEN mp ELSE Op(g[x \ {Max(x)}], s[Max(x)])]
  BY <1>0, <1>4, MaxTo DEF SolvesTo
<1>6. PICK f : /\ f = [x \in SUBSET DOMAIN s |-> IF x = {} THEN mp ELSE Op(f[x \ {Max(x)}], s[Max(x)])]
               /\ FoldLeft(LAMBDA acc, t : Op(acc, t), mp, s) = f[DOMAIN s]
  BY <1>5 DEF FoldLeft, MapThenFoldSet
<1>7. Unrolls(f, mp, step, n)
  BY <1>0, <1>6, MaxTo DEF Unrolls
<1>8. PICK h : Runs(h, mp, step, A, n) /\ h[n] = f[1 .. n]
  <2> HIDE DEF step
  <2>q. QED  BY <1>0, <1>1, <1>3, <1>7, Unrolled
<1>9. \A k \in 1 .. n : h[k] = Op(h[k - 1], s[k])
  <2> SUFFICES ASSUME NEW k \in 1 .. n PROVE h[k] = Op(h[k - 1], s[k])
    OBVIOUS
  <2>1. h[k - 1] \in A
    BY <1>0, <1>8 DEF Runs
  <2>q. QED  BY <1>8, <2>1 DEF Runs
<1>10. RemoveForBlock(mp, b) = h[n] /\ h[0] = mp
  BY <1>0, <1>6, <1>8 DEF Runs, RemoveForBlock, Op, s
<1> DEFINE T == {k \in 0 .. n : Cleared(mp, h[k], BodyTo(b, k))}
<1>11. 0 \in T
  <2>1. BodyTo(b, 0) = {}
    BY DEF BodyTo
  <2>2. Cleared(mp, mp, BodyTo(b, 0))
    BY <2>1 DEF Cleared, SpentBy
  <2>q. QED  BY <1>0, <1>10, <2>2
<1>12. ASSUME NEW k \in 1 .. n, k - 1 \in T PROVE k \in T
  <2> DEFINE D == BodyTo(b, k - 1)
             E == BodyTo(b, k)
  <2>1. E = D \cup {s[k]}
    <3>1. 1 .. k = (1 .. (k - 1)) \cup {k}
      BY <1>0
    <3>q. QED  BY <3>1 DEF BodyTo, s
  <2>2. Cleared(mp, h[k - 1], D) /\ s[k] \in Tx /\ h[k] = Op(h[k - 1], s[k])
    BY <1>0, <1>9, <1>12
  <2> HIDE DEF D, E
  <2>3. Cleared(mp, h[k], E)
    BY <2>1, <2>2, RemoveOneClears DEF Op
  <2>q. QED  BY <1>0, <2>3 DEF E
<1> HIDE DEF T
<1>13. n \in T
  BY <1>0, <1>11, <1>12, InductionTo
<1>14. BodyTo(b, n) = Range(s)
  BY <1>0 DEF BodyTo, s, Range
<1>q. QED  BY <1>10, <1>13, <1>14 DEF T, s

----------------------------------------------------------------------------
(* The orphans: whichever transactions a message resolves, and whichever   *)
(* orphans LimitOrphanTxSize evicts, the two maps stay in step.            *)

OrphanTypeOK ==
    /\ orphans \in [Tx -> Peer \cup {NoPeer}]
    /\ byPrev = [p \in Tx |-> {t \in Orphans : p \in Prevs(t)}]

\* only finitely many transactions have come in
OrphansBounded == IsFiniteSet(Orphans) /\ Cardinality(Orphans) <= MaxOrphans

OrphanInv == OrphanTypeOK /\ OrphansBounded

LEMMA EraseOrphansKeeps ==
    ASSUME NEW gone, OrphanInv, EraseOrphans(gone)
    PROVE  OrphanInv'
<1>1. Orphans' = Orphans \ gone
  BY DEF EraseOrphans, OrphanInv, OrphanTypeOK, Orphans, IsOrphan
<1>2. orphans' \in [Tx -> Peer \cup {NoPeer}]
  BY DEF EraseOrphans, OrphanInv, OrphanTypeOK
<1>3. byPrev' = [p \in Tx |-> {t \in Orphans' : p \in Prevs(t)}]
  <2>1. byPrev' = [p \in Tx |-> byPrev[p] \ (gone \cap Orphans)]
    BY DEF EraseOrphans, Unindexed
  <2>2. \A p \in Tx : byPrev[p] \ (gone \cap Orphans) = {t \in Orphans' : p \in Prevs(t)}
    BY <1>1 DEF OrphanInv, OrphanTypeOK
  <2>q. QED  BY <2>1, <2>2
<1>4. OrphansBounded'
  <2>1. IsFiniteSet(Orphans') /\ Cardinality(Orphans') <= Cardinality(Orphans)
    BY <1>1, FS_Subset DEF OrphanInv, OrphansBounded
  <2>2. Cardinality(Orphans) \in Nat /\ Cardinality(Orphans') \in Nat
    BY <2>1, FS_CardinalityType DEF OrphanInv, OrphansBounded
  <2>q. QED  BY <2>1, <2>2, PoolAssumption DEF PoolAssumption, OrphanInv, OrphansBounded
<1>q. QED  BY <1>2, <1>3, <1>4 DEF OrphanInv, OrphanTypeOK

LEMMA StoreOrphanKeeps ==
    ASSUME NEW t \in Tx, NEW p \in Peer, OrphanInv, StoreOrphan(t, p)
    PROVE  OrphanInv'
<1> DEFINE all == Orphans \cup {t}
           held == IF IsOrphan(t) THEN orphans ELSE [orphans EXCEPT ![t] = p]
           named == [q \in Tx |-> IF ~IsOrphan(t) /\ q \in Prevs(t)
                                  THEN byPrev[q] \cup {t} ELSE byPrev[q]]
<1>1. PICK evicted \in SUBSET all :
        /\ Cardinality(all \ evicted) =
              (IF Cardinality(all) < MaxOrphans THEN Cardinality(all) ELSE MaxOrphans)
        /\ orphans' = [u \in Tx |-> IF u \in evicted THEN NoPeer ELSE held[u]]
        /\ byPrev' = Unindexed(named, evicted)
  BY DEF StoreOrphan
<1>2. held \in [Tx -> Peer \cup {NoPeer}] /\ \A u \in Tx : held[u] # NoPeer <=> u \in all
  BY PoolAssumption DEF PoolAssumption, OrphanInv, OrphanTypeOK, Orphans, IsOrphan
<1>3. \A q \in Tx : named[q] = {u \in all : q \in Prevs(u)}
  BY DEF OrphanInv, OrphanTypeOK, Orphans
<1> HIDE DEF held, named
<1>4. Orphans' = all \ evicted
  BY <1>1, <1>2 DEF Orphans, IsOrphan
<1>5. orphans' \in [Tx -> Peer \cup {NoPeer}]
  BY <1>1, <1>2
<1>6. byPrev' = [q \in Tx |-> {u \in Orphans' : q \in Prevs(u)}]
  <2>1. byPrev' = [q \in Tx |-> named[q] \ evicted]
    BY <1>1 DEF Unindexed
  <2>2. \A q \in Tx : named[q] \ evicted = {u \in Orphans' : q \in Prevs(u)}
    BY <1>3, <1>4
  <2>q. QED  BY <2>1, <2>2
<1>7. OrphansBounded'
  <2>1. IsFiniteSet(all)
    BY FS_AddElement DEF OrphanInv, OrphansBounded
  <2>2. IsFiniteSet(Orphans')
    BY <1>4, <2>1, FS_Subset
  <2>3. Cardinality(all) \in Nat /\ MaxOrphans \in Nat
    BY <2>1, FS_CardinalityType, PoolAssumption DEF PoolAssumption
  <2>4. Cardinality(Orphans') =
              (IF Cardinality(all) < MaxOrphans THEN Cardinality(all) ELSE MaxOrphans)
    BY <1>1, <1>4
  <2> HIDE DEF all
  <2>5. Cardinality(Orphans') <= MaxOrphans
    BY <2>3, <2>4
  <2>q. QED  BY <2>2, <2>5 DEF OrphansBounded
<1>q. QED  BY <1>5, <1>6, <1>7 DEF OrphanInv, OrphanTypeOK

LEMMA InitOrphans == Init => OrphanInv
<1> SUFFICES ASSUME Init PROVE OrphanInv
  OBVIOUS
<1>1. Orphans = {}
  BY DEF Init, Orphans, IsOrphan
<1>2. OrphanTypeOK
  BY <1>1 DEF Init, OrphanTypeOK
<1>3. OrphansBounded
  BY <1>1, FS_EmptySet, PoolAssumption DEF PoolAssumption, OrphansBounded
<1>q. QED  BY <1>2, <1>3 DEF OrphanInv

LEMMA NextOrphans == OrphanInv /\ [Next]_vars => OrphanInv'
<1> SUFFICES ASSUME OrphanInv, [Next]_vars PROVE OrphanInv'
  OBVIOUS
<1>1. ASSUME NEW p \in Peer, NEW t \in Tx, TxMessage(p, t) PROVE OrphanInv'
  <2>1. \/ \E gone : EraseOrphans(gone)
        \/ StoreOrphan(t, p)
    BY <1>1 DEF TxMessage
  <2>q. QED  BY <2>1, EraseOrphansKeeps, StoreOrphanKeeps
<1>2. ASSUME NEW p \in Peer, EraseOrphansFor(p) PROVE OrphanInv'
  BY <1>2, EraseOrphansKeeps DEF EraseOrphansFor
<1>3. ASSUME UNCHANGED <<orphans, byPrev>> PROVE OrphanInv'
  BY <1>3 DEF OrphanInv, OrphanTypeOK, OrphansBounded, Orphans, IsOrphan
<1>4. CASE (\E b \in Block \ {Genesis} : ConnectTip(b)) \/ DisconnectTip \/ UNCHANGED vars
  BY <1>3, <1>4 DEF ConnectTip, DisconnectTip, vars
<1>q. QED  BY <1>1, <1>2, <1>4 DEF Next

(***************************************************************************)
(* mapOrphanTransactionsByPrev names exactly the stored orphans, and there *)
(* are never more of them than -maxorphantx: AddOrphanTx, EraseOrphanTx,   *)
(* EraseOrphansFor and LimitOrphanTxSize keep the two maps in step.        *)
(***************************************************************************)
THEOREM OrphansAlwaysIndexed == Spec => []OrphansIndexed
<1>1. OrphanInv => OrphansIndexed
  BY DEF OrphanInv, OrphanTypeOK, OrphansBounded, OrphansIndexed
<1>q. QED  BY <1>1, InitOrphans, NextOrphans, PTL DEF Spec

----------------------------------------------------------------------------
(* AcceptToMemoryPool. *)

\* the pool could be mined at a height, on the coins cs
Minable(mp, cs, height) ==
    /\ PoolOK(mp)
    /\ \A t \in mp.tx : \A o \in Inputs(t) :
          o[1] \in mp.tx \/ (Available(cs, o) /\ ~Immature(cs[o[1]], height))

\* a parent of t is nowhere
Lacks(mp, cs, t) == \E p \in Prevs(t) \ mp.tx : cs[p].out = {}

LEMMA VerdictIs ==
    ASSUME NEW mp, NEW cs, NEW height, NEW t, NEW refused
    PROVE  LET v == Verdict(mp, cs, height, t, refused)
           IN  /\ v \in {"accepted", "missing", "refused", "invalid"}
               /\ v = "missing" => Lacks(mp, cs, t)
               /\ v = "invalid" => t \in CoinBase \cup Unsound
               /\ v = "accepted" =>
                     /\ t \notin CoinBase /\ t \notin mp.tx /\ cs[t].out = {}
                     /\ \A o \in Inputs(t) : mp.next[o] = NoTx
                     /\ \A o \in Inputs(t) : IF o[1] \in mp.tx THEN ~(o[2] >= Outs[o[1]])
                                             ELSE Available(cs, o) /\ ~Immature(cs[o[1]], height)
BY DEF Verdict, Lacks

LEMMA AcceptAdds ==
    ASSUME NEW mp, NEW cs, Normal(cs), NEW height, PoolOK(mp), NEW t \in Tx, NEW refused,
           Verdict(mp, cs, height, t, refused) = "accepted"
    PROVE  /\ Addable(mp, t) /\ PoolOK(AddUnchecked(mp, t))
           /\ AddUnchecked(mp, t).tx = mp.tx \cup {t}
<1>0. /\ t \notin CoinBase /\ t \notin mp.tx /\ cs[t].out = {}
      /\ \A o \in Inputs(t) : mp.next[o] = NoTx
      /\ \A o \in Inputs(t) : IF o[1] \in mp.tx THEN ~(o[2] >= Outs[o[1]])
                              ELSE Available(cs, o) /\ ~Immature(cs[o[1]], height)
  BY VerdictIs
<1>1. \A o \in Inputs(t) : o[2] < Outs[o[1]]
  <2> SUFFICES ASSUME NEW o \in Inputs(t) PROVE o[2] < Outs[o[1]]
    OBVIOUS
  <2>1. o[1] \in Tx /\ o[2] \in Nat
    BY OutPoints
  <2>2. Outs[o[1]] \in Nat
    BY <2>1, TxAssumption DEF TxAssumption
  <2>3. CASE o[1] \in mp.tx
    BY <1>0, <2>1, <2>2, <2>3
  <2>4. CASE o[1] \notin mp.tx
    <3>1. o[2] \in cs[o[1]].out
      BY <1>0, <2>4 DEF Available
    <3>2. cs[o[1]].out \subseteq 0 .. (Outs[o[1]] - 1)
      BY <2>1 DEF Normal
    <3>q. QED  BY <2>1, <2>2, <3>1, <3>2
  <2>q. QED  BY <2>3, <2>4
<1>2. Addable(mp, t)
  BY <1>0, <1>1 DEF Addable
<1>q. QED  BY <1>2, AddOK

LEMMA AcceptKeeps ==
    ASSUME NEW mp, NEW cs, Normal(cs), NEW height, Minable(mp, cs, height), NEW t \in Tx, NEW refused,
           Verdict(mp, cs, height, t, refused) = "accepted"
    PROVE  /\ Addable(mp, t) /\ Minable(AddUnchecked(mp, t), cs, height)
           /\ AddUnchecked(mp, t).tx = mp.tx \cup {t}
<1> DEFINE q == AddUnchecked(mp, t)
<1>0. /\ t \notin CoinBase /\ t \notin mp.tx /\ cs[t].out = {}
      /\ \A o \in Inputs(t) : mp.next[o] = NoTx
      /\ \A o \in Inputs(t) : IF o[1] \in mp.tx THEN ~(o[2] >= Outs[o[1]])
                              ELSE Available(cs, o) /\ ~Immature(cs[o[1]], height)
  BY VerdictIs
<1>2. Addable(mp, t)
  BY AcceptAdds DEF Minable
<1>3. PoolOK(q) /\ q.tx = mp.tx \cup {t}
  BY <1>2, AddOK DEF Minable
<1> HIDE DEF q
<1>4. ASSUME NEW u \in q.tx, NEW o \in Inputs(u)
      PROVE  o[1] \in q.tx \/ (Available(cs, o) /\ ~Immature(cs[o[1]], height))
  <2>1. CASE u = t
    BY <1>0, <1>3, <2>1
  <2>2. CASE u # t
    BY <1>3, <2>2 DEF Minable
  <2>q. QED  BY <2>1, <2>2
<1>5. Minable(q, cs, height)
  BY <1>3, <1>4 DEF Minable
<1>q. QED  BY <1>2, <1>3, <1>5 DEF q

----------------------------------------------------------------------------
(* The loop over vWorkQueue. *)

\* the peers that Misbehaving is called for
BadPeers == {orphans[o] : o \in Orphans \cap Unsound}
WorkAcc == [mp : PoolType, work : Seq(Tx), erase : SUBSET Tx, bad : SUBSET BadPeers]

\* w lists the transactions that came in with t0, each once
Listed(w, t0, mp) ==
    /\ \A i, j \in 1 .. Len(w) : w[i] = w[j] => i = j
    /\ \A i \in 1 .. Len(w) : w[i] \in (Orphans \cup {t0}) \ mempool.tx
    /\ \A u : u \in mp.tx <=> u \in mempool.tx \/ \E i \in 1 .. Len(w) : u = w[i]

LoopOK(a, t0) ==
    /\ a \in WorkAcc /\ Minable(a.mp, coins, NextHeight) /\ Listed(a.work, t0, a.mp)

\* the loop takes nothing back
Further(a, x) ==
    /\ a.mp.tx \subseteq x.mp.tx /\ a.erase \subseteq x.erase /\ a.bad \subseteq x.bad
    /\ Len(a.work) <= Len(x.work) /\ \A i \in 1 .. Len(a.work) : x.work[i] = a.work[i]

\* o is gone from the orphans, or passed over
Settled(x, o) == o \in x.erase \/ orphans[o] \in x.bad

LEMMA FurtherTrans ==
    ASSUME NEW a, NEW x, NEW y, a.work \in Seq(Tx), x.work \in Seq(Tx), y.work \in Seq(Tx),
           Further(a, x), Further(x, y)
    PROVE  Further(a, y)
<1>1. Len(a.work) \in Nat /\ Len(x.work) \in Nat /\ Len(y.work) \in Nat
  OBVIOUS
<1>2. \A i \in 1 .. Len(a.work) : i \in 1 .. Len(x.work) /\ y.work[i] = a.work[i]
  BY <1>1 DEF Further
<1>q. QED  BY <1>1, <1>2 DEF Further

LEMMA TryOrphanKeeps ==
    ASSUME Normal(coins), NEW t0 \in Tx, NEW a, LoopOK(a, t0), NEW o \in Orphans, o \notin CoinBase,
           NEW refused
    PROVE  LET x == TryOrphan(a, o, refused)
           IN  LoopOK(x, t0) /\ Further(a, x) /\ (Settled(x, o) \/ Lacks(a.mp, coins, o))
<1> DEFINE v == Verdict(a.mp, coins, NextHeight, o, refused)
           x == TryOrphan(a, o, refused)
<1>0. o \in Tx /\ orphans[o] # NoPeer
  BY DEF Orphans, IsOrphan
<1>1. /\ v \in {"accepted", "missing", "refused", "invalid"}
      /\ v = "missing" => Lacks(a.mp, coins, o)
      /\ v = "invalid" => o \in CoinBase \cup Unsound
      /\ v = "accepted" => o \notin a.mp.tx
  BY VerdictIs
<1>2. /\ a \in WorkAcc /\ a.work \in Seq(Tx) /\ a.mp \in PoolType /\ a.erase \in SUBSET Tx
      /\ a.bad \in SUBSET BadPeers /\ Len(a.work) \in Nat
  BY DEF LoopOK, WorkAcc
<1>3. Further(a, a)
  BY <1>2 DEF Further
<1>4. CASE orphans[o] \in a.bad
  <2>1. x = a
    BY <1>4 DEF TryOrphan
  <2>q. QED  BY <1>3, <1>4, <2>1 DEF Settled
<1>5. CASE orphans[o] \notin a.bad /\ v = "accepted"
  <2>1. x = [a EXCEPT !.mp = AddUnchecked(a.mp, o), !.work = Append(a.work, o), !.erase = a.erase \cup {o}]
    BY <1>5 DEF TryOrphan
  <2> DEFINE w == Append(a.work, o)
             q == AddUnchecked(a.mp, o)
             e == a.erase \cup {o}
  <2>2. w \in Seq(Tx) /\ Len(w) = Len(a.work) + 1 /\ w[Len(a.work) + 1] = o
        /\ \A i \in 1 .. Len(a.work) : w[i] = a.work[i]
    BY <1>0, <1>2
  <2>3. Minable(q, coins, NextHeight) /\ q.tx = a.mp.tx \cup {o}
    BY <1>0, <1>5, AcceptKeeps DEF LoopOK
  <2>4. q \in PoolType /\ e \in SUBSET Tx /\ o \in e
    BY <1>0, <1>2, <2>3 DEF Minable, PoolOK
  <2> HIDE DEF w, q, e
  <2>5. x.mp = q /\ x.work = w /\ x.erase = e /\ x.bad = a.bad /\ x \in WorkAcc
    BY <1>2, <2>1, <2>2, <2>4 DEF WorkAcc, w, q, e
  <2> HIDE DEF x
  <2>6. Listed(w, t0, q)
    <3>1. Listed(a.work, t0, a.mp)
      BY DEF LoopOK
    <3>2. \A i \in 1 .. Len(w) : i \in 1 .. Len(a.work) \/ i = Len(a.work) + 1
      BY <1>2, <2>2
    <3>3. o \notin a.mp.tx /\ o \notin mempool.tx /\ \A i \in 1 .. Len(a.work) : a.work[i] # o
      BY <1>1, <1>5, <3>1 DEF Listed
    <3>4. \A i, j \in 1 .. Len(w) : w[i] = w[j] => i = j
      BY <2>2, <3>1, <3>2, <3>3 DEF Listed
    <3>5. \A i \in 1 .. Len(w) : w[i] \in (Orphans \cup {t0}) \ mempool.tx
      BY <2>2, <3>1, <3>2, <3>3 DEF Listed
    <3>6. ASSUME NEW u
          PROVE  u \in q.tx <=> u \in mempool.tx \/ \E i \in 1 .. Len(w) : u = w[i]
      <4>1. u \in q.tx <=> u = o \/ u \in a.mp.tx
        BY <2>3
      <4>2. u \in a.mp.tx <=> u \in mempool.tx \/ \E i \in 1 .. Len(a.work) : u = a.work[i]
        BY <3>1 DEF Listed
      <4>3. Len(a.work) + 1 \in 1 .. Len(w) /\ \A i \in 1 .. Len(a.work) : i \in 1 .. Len(w)
        BY <1>2, <2>2
      <4>4. (\E i \in 1 .. Len(w) : u = w[i]) <=> u = o \/ \E i \in 1 .. Len(a.work) : u = a.work[i]
        BY <2>2, <3>2, <4>3
      <4>q. QED  BY <4>1, <4>2, <4>4
    <3>q. QED  BY <3>4, <3>5, <3>6 DEF Listed
  <2>7. LoopOK(x, t0)
    BY <2>3, <2>5, <2>6 DEF LoopOK
  <2>8. Further(a, x)
    BY <1>2, <2>2, <2>3, <2>5 DEF Further, e
  <2>9. Settled(x, o)
    BY <2>4, <2>5 DEF Settled
  <2>q. QED  BY <2>7, <2>8, <2>9 DEF x
<1>6. CASE orphans[o] \notin a.bad /\ v = "missing"
  <2>1. x = a
    BY <1>6 DEF TryOrphan
  <2>q. QED  BY <1>1, <1>3, <1>6, <2>1
<1>7. CASE orphans[o] \notin a.bad /\ v = "refused"
  <2>1. x = [a EXCEPT !.erase = a.erase \cup {o}]
    BY <1>7 DEF TryOrphan
  <2>2. x.mp = a.mp /\ x.work = a.work /\ x.erase = a.erase \cup {o} /\ x.bad = a.bad /\ x \in WorkAcc
    BY <1>0, <1>2, <2>1 DEF WorkAcc
  <2> HIDE DEF x
  <2>3. LoopOK(x, t0)
    BY <2>2 DEF LoopOK
  <2>4. Further(a, x) /\ Settled(x, o)
    BY <1>2, <2>2 DEF Further, Settled
  <2>q. QED  BY <2>3, <2>4 DEF x
<1>8. CASE orphans[o] \notin a.bad /\ v = "invalid"
  <2>1. x = [a EXCEPT !.erase = a.erase \cup {o}, !.bad = a.bad \cup {orphans[o]}]
    BY <1>8 DEF TryOrphan
  <2>2. orphans[o] \in BadPeers
    BY <1>1, <1>8 DEF BadPeers
  <2>3. x.mp = a.mp /\ x.work = a.work /\ x.erase = a.erase \cup {o} /\ x.bad = a.bad \cup {orphans[o]}
        /\ x \in WorkAcc
    BY <1>0, <1>2, <2>1, <2>2 DEF WorkAcc
  <2> HIDE DEF x
  <2>4. LoopOK(x, t0)
    BY <2>3 DEF LoopOK
  <2>5. Further(a, x) /\ Settled(x, o)
    BY <1>2, <2>3 DEF Further, Settled
  <2>q. QED  BY <2>4, <2>5 DEF x
<1>q. QED  BY <1>1, <1>4, <1>5, <1>6, <1>7, <1>8

LEMMA TryOrphansKeeps ==
    ASSUME OrphanInv, Normal(coins), NEW t0 \in Tx, NEW a, LoopOK(a, t0), NEW q \in Tx, NEW refused
    PROVE  LET x == TryOrphans(a, q, refused)
           IN  /\ LoopOK(x, t0) /\ Further(a, x)
               /\ \A o \in Orphans : q \in Prevs(o) => Settled(x, o) \/ Lacks(a.mp, coins, o)
<1> DEFINE D == byPrev[q]
           A == {y \in WorkAcc : LoopOK(y, t0)}
           pick == [s \in SUBSET D |-> Max(s)]
           step == [z \in A \X D |-> TryOrphan(z[1], z[2], refused)]
           I == [s \in SUBSET D |->
                   {y \in A : Further(a, y) /\ \A o \in s : Settled(y, o) \/ Lacks(a.mp, coins, o)}]
<1>0. D = {o \in Orphans : q \in Prevs(o)} /\ IsFiniteSet(D)
  <2>1. D = {o \in Orphans : q \in Prevs(o)}
    BY DEF OrphanInv, OrphanTypeOK
  <2>q. QED  BY <2>1, FS_Subset DEF OrphanInv, OrphansBounded
<1>1. \A o \in D : o \in Tx /\ o \in Orphans /\ o \notin CoinBase
  <2> SUFFICES ASSUME NEW o \in D PROVE o \in Tx /\ o \notin CoinBase
    BY <1>0
  <2>1. o \in Tx /\ q \in Prevs(o)
    BY <1>0 DEF Orphans
  <2>2. Ins[o] # <<>>
    BY <2>1 DEF Prevs, Inputs, Range
  <2>q. QED  BY <2>1, <2>2, TxAssumption DEF TxAssumption
<1>2. D \subseteq Nat
  BY <1>1, TxAssumption DEF TxAssumption
<1> HIDE DEF D
<1>3. Picks(pick, D) /\ \A s \in SUBSET D : pick[s] = Max(s)
  BY <1>0, <1>2, FiniteMax DEF Picks
<1>4. a \in A /\ \A y : LoopOK(y, t0) => y \in A
  BY DEF LoopOK
<1>5. \A y \in A, o \in D : /\ TryOrphan(y, o, refused) \in A /\ Further(y, TryOrphan(y, o, refused))
                            /\ Settled(TryOrphan(y, o, refused), o) \/ Lacks(y.mp, coins, o)
  <2> SUFFICES ASSUME NEW y \in A, NEW o \in D
               PROVE  /\ TryOrphan(y, o, refused) \in A /\ Further(y, TryOrphan(y, o, refused))
                      /\ Settled(TryOrphan(y, o, refused), o) \/ Lacks(y.mp, coins, o)
    OBVIOUS
  <2>1. LoopOK(y, t0) /\ o \in Orphans /\ o \notin CoinBase
    BY <1>1
  <2> HIDE DEF A
  <2>q. QED  BY <1>4, <2>1, TryOrphanKeeps
<1>6. \A y \in A : y.work \in Seq(Tx)
  BY DEF WorkAcc
<1>7. Closed(step, A, D) /\ DOMAIN step = A \X D
  BY <1>5 DEF Closed
<1> HIDE DEF A
<1>8. PICK g \in [SUBSET D -> A] : Solves(g, a, pick, step, D)
  <2> HIDE DEF pick, step
  <2>q. QED  BY <1>0, <1>3, <1>4, <1>7, SubsetRecursion
<1>9. g = [s \in SUBSET D |-> IF s = {} THEN a ELSE TryOrphan(g[s \ {Max(s)}], Max(s), refused)]
  <2>1. ASSUME NEW s \in SUBSET D, s # {} PROVE g[s] = TryOrphan(g[s \ {pick[s]}], pick[s], refused)
    <3>1. pick[s] \in D /\ s \ {pick[s]} \in SUBSET D /\ g[s \ {pick[s]}] \in A
      BY <1>3, <2>1 DEF Picks
    <3>2. g[s] = step[<<g[s \ {pick[s]}], pick[s]>>]
      BY <1>8, <2>1 DEF Solves
    <3> HIDE DEF pick
    <3>q. QED  BY <3>1, <3>2
  <2>2. g[{}] = a
    BY <1>8 DEF Solves
  <2> HIDE DEF pick, step
  <2>q. QED  BY <1>3, <2>1, <2>2
<1>10. PICK f : /\ f = [s \in SUBSET D |-> IF s = {} THEN a ELSE TryOrphan(f[s \ {Max(s)}], Max(s), refused)]
                /\ TryOrphans(a, q, refused) = f[D]
  BY <1>9 DEF TryOrphans, MapThenFoldSet, D
<1>11. SetUnrolls(f, a, pick, step, D)
  <2>1. f[{}] = a
    BY <1>10
  <2>2. ASSUME NEW s \in SUBSET D, s # {}, <<f[s \ {pick[s]}], pick[s]>> \in DOMAIN step
        PROVE  f[s] = step[<<f[s \ {pick[s]}], pick[s]>>]
    <3>1. f[s] = TryOrphan(f[s \ {pick[s]}], pick[s], refused)
      BY <1>3, <1>10, <2>2
    <3> HIDE DEF pick
    <3>q. QED  BY <2>2, <3>1
  <2> HIDE DEF pick, step
  <2>q. QED  BY <2>1, <2>2 DEF SetUnrolls
<1>12. Invariant(I, a, pick, step, A, D)
  <2>1. a \in I[{}]
    <3>1. Further(a, a) /\ {} \in SUBSET D
      BY <1>4, <1>6 DEF Further
    <3>q. QED  BY <1>4, <3>1
  <2>2. \A s \in SUBSET D : I[s] \subseteq A
    OBVIOUS
  <2>3. ASSUME NEW s \in SUBSET D, s # {}, NEW y \in I[s \ {pick[s]}]
        PROVE  step[<<y, pick[s]>>] \in I[s]
    <3> DEFINE o == pick[s]
               r == s \ {o}
               x == TryOrphan(y, o, refused)
    <3>1. o \in s /\ o \in D /\ r \in SUBSET D
      BY <1>3, <2>3 DEF Picks
    <3>2. y \in A /\ Further(a, y) /\ \A u \in r : Settled(y, u) \/ Lacks(a.mp, coins, u)
      BY <3>1
    <3> HIDE DEF o
    <3>3. x \in A /\ Further(y, x) /\ (Settled(x, o) \/ Lacks(y.mp, coins, o))
      BY <1>5, <3>1, <3>2
    <3>4. step[<<y, o>>] = x
      BY <3>1, <3>2
    <3> HIDE DEF x, step
    <3>5. Further(a, x)
      BY <1>4, <1>6, <3>2, <3>3, FurtherTrans
    <3>6. Settled(x, o) \/ Lacks(a.mp, coins, o)
      BY <3>2, <3>3 DEF Lacks, Further
    <3>7. \A u \in r : Settled(x, u) \/ Lacks(a.mp, coins, u)
      BY <3>2, <3>3 DEF Further, Settled
    <3>8. x \in I[s]
      BY <3>3, <3>5, <3>6, <3>7
    <3>q. QED  BY <3>4, <3>8 DEF o
  <2> HIDE DEF I, pick, step
  <2>q. QED  BY <2>1, <2>2, <2>3 DEF Invariant
<1>13. f[D] \in I[D]
  <2> HIDE DEF I, pick, step
  <2>1. \A s \in SUBSET D : f[s] \in I[s]
    BY <1>0, <1>3, <1>7, <1>11, <1>12, SetUnrolled
  <2>q. QED  BY <2>1
<1>14. LoopOK(f[D], t0) /\ Further(a, f[D]) /\ \A o \in D : Settled(f[D], o) \/ Lacks(a.mp, coins, o)
  BY <1>13 DEF A
<1>q. QED  BY <1>0, <1>10, <1>14

\* the loop over vWorkQueue: h[i] is what it has after the first i entries
WorkRun(h, t0, refused) ==
    LET n == Cardinality(Orphans) + 1
    IN  /\ \A i \in 0 .. n : LoopOK(h[i], t0)
        /\ h[0] = [mp |-> AddUnchecked(mempool, t0), work |-> <<t0>>, erase |-> {}, bad |-> {}]
        /\ \A i \in 1 .. n : h[i] = ProcessWork(h[i - 1], i, refused)
        /\ Resolved(t0, refused) = h[n]

LEMMA WorkRuns ==
    ASSUME OrphanInv, Normal(coins), Minable(mempool, coins, NextHeight), NEW t0 \in Tx, NEW refused,
           Verdict(mempool, coins, NextHeight, t0, refused) = "accepted"
    PROVE  \E h : WorkRun(h, t0, refused)
<1> DEFINE n == Cardinality(Orphans) + 1
           s == [i \in 1 .. Cardinality(Orphans) + 1 |-> i]
           A == {y \in WorkAcc : LoopOK(y, t0)}
           base == [mp |-> AddUnchecked(mempool, t0), work |-> <<t0>>, erase |-> {}, bad |-> {}]
           step == [z \in A \X (1 .. n) |-> ProcessWork(z[1], s[z[2]], refused)]
<1>0. n \in Nat /\ DOMAIN s = 1 .. n /\ \A i \in 1 .. n : s[i] = i /\ i \in Nat \ {0}
  BY FS_CardinalityType DEF OrphanInv, OrphansBounded
<1>1. \A y : LoopOK(y, t0) => y \in A
  BY DEF LoopOK
<1>2. base \in A
  <2> DEFINE q == AddUnchecked(mempool, t0)
             w == <<t0>>
  <2>1. Minable(q, coins, NextHeight) /\ q.tx = mempool.tx \cup {t0} /\ t0 \notin mempool.tx
    <3>1. Addable(mempool, t0) /\ Minable(q, coins, NextHeight) /\ q.tx = mempool.tx \cup {t0}
      BY AcceptKeeps
    <3>q. QED  BY <3>1 DEF Addable
  <2>2. q \in PoolType
    BY <2>1 DEF Minable, PoolOK
  <2>3. w \in Seq(Tx) /\ Len(w) = 1 /\ w[1] = t0
    OBVIOUS
  <2> HIDE DEF q, w
  <2>4. \A i \in 1 .. Len(w) : i = 1
    BY <2>3
  <2>5. \A u : (\E i \in 1 .. Len(w) : u = w[i]) <=> u = t0
    <3>1. 1 \in 1 .. Len(w)
      BY <2>3
    <3>q. QED  BY <2>3, <2>4, <3>1
  <2>6. Listed(w, t0, q)
    BY <2>1, <2>3, <2>4, <2>5 DEF Listed
  <2> HIDE DEF base
  <2>7. base.mp = q /\ base.work = w /\ base \in WorkAcc
    BY <2>2, <2>3 DEF WorkAcc, base, q, w
  <2>8. LoopOK(base, t0)
    BY <2>1, <2>6, <2>7 DEF LoopOK
  <2>q. QED  BY <1>1, <2>8
<1>3. ASSUME NEW y \in A, NEW i \in Nat \ {0} PROVE ProcessWork(y, i, refused) \in A
  <2>1. LoopOK(y, t0) /\ y.work \in Seq(Tx)
    BY DEF WorkAcc
  <2>2. CASE i > Len(y.work)
    BY <2>2 DEF ProcessWork
  <2>3. CASE ~(i > Len(y.work))
    <3>1. y.work[i] \in Tx
      BY <2>1, <2>3
    <3>2. LoopOK(TryOrphans(y, y.work[i], refused), t0)
      BY <2>1, <3>1, TryOrphansKeeps
    <3>q. QED  BY <1>1, <2>3, <3>2 DEF ProcessWork
  <2>q. QED  BY <2>2, <2>3
<1> HIDE DEF s, n, A, base
<1>4. StepOn(step, A, n)
  BY <1>0, <1>3 DEF Closed, StepOn
<1>5. PICK g \in [SUBSET (1 .. n) -> A] : SolvesTo(g, base, step, n)
  <2> HIDE DEF step
  <2>q. QED  BY <1>0, <1>2, <1>4, SequenceRecursion
<1>6. g = [x \in SUBSET DOMAIN s |->
             IF x = {} THEN base ELSE ProcessWork(g[x \ {Max(x)}], s[Max(x)], refused)]
  BY <1>0, <1>5, MaxTo DEF SolvesTo
<1>7. PICK f : /\ f = [x \in SUBSET DOMAIN s |->
                         IF x = {} THEN base ELSE ProcessWork(f[x \ {Max(x)}], s[Max(x)], refused)]
               /\ FoldLeft(LAMBDA a, i : ProcessWork(a, i, refused), base, s) = f[DOMAIN s]
  BY <1>6 DEF FoldLeft, MapThenFoldSet
<1>8. Unrolls(f, base, step, n)
  BY <1>0, <1>7, MaxTo DEF Unrolls
<1>9. PICK h : Runs(h, base, step, A, n) /\ h[n] = f[1 .. n]
  <2> HIDE DEF step
  <2>q. QED  BY <1>0, <1>2, <1>4, <1>8, Unrolled
<1>10. \A i \in 1 .. n : h[i] = ProcessWork(h[i - 1], i, refused)
  <2> SUFFICES ASSUME NEW i \in 1 .. n PROVE h[i] = ProcessWork(h[i - 1], s[i], refused)
    BY <1>0
  <2>1. h[i - 1] \in A
    BY <1>0, <1>9 DEF Runs
  <2>q. QED  BY <1>9, <2>1 DEF Runs
<1>11. Resolved(t0, refused) = h[n] /\ h[0] = base /\ h \in [0 .. n -> A]
  BY <1>0, <1>7, <1>9 DEF Runs, Resolved, base, s
<1>12. \A i \in 0 .. n : LoopOK(h[i], t0)
  BY <1>11 DEF A
<1>q. QED  BY <1>10, <1>11, <1>12 DEF WorkRun, n, base

\* a message leaves a pool that can be mined
LEMMA MessageKeeps ==
    ASSUME OrphanInv, Normal(coins), Minable(mempool, coins, NextHeight),
           NEW p \in Peer, NEW t \in Tx, TxMessage(p, t)
    PROVE  Minable(mempool', coins, NextHeight)
<1>1. PICK refused \in SUBSET Disliked :
         \/ /\ Verdict(mempool, coins, NextHeight, t, refused) = "accepted"
            /\ mempool' = Resolved(t, refused).mp
         \/ UNCHANGED mempool
  BY DEF TxMessage
<1>2. CASE UNCHANGED mempool
  BY <1>2
<1>3. CASE Verdict(mempool, coins, NextHeight, t, refused) = "accepted" /\ mempool' = Resolved(t, refused).mp
  <2> DEFINE n == Cardinality(Orphans) + 1
  <2>1. PICK h : WorkRun(h, t, refused)
    BY <1>3, WorkRuns
  <2>2. n \in 0 .. n
    BY FS_CardinalityType DEF OrphanInv, OrphansBounded
  <2>3. LoopOK(h[n], t) /\ Resolved(t, refused) = h[n]
    BY <2>1, <2>2 DEF WorkRun
  <2>q. QED  BY <1>3, <2>3 DEF LoopOK
<1>q. QED  BY <1>1, <1>2, <1>3

\* vWorkQueue is never longer than the orphans and the transaction itself
LEMMA WorkShort ==
    ASSUME OrphanInv, NEW a, NEW t0, LoopOK(a, t0)
    PROVE  Len(a.work) <= Cardinality(Orphans) + 1
<1> DEFINE w == a.work
           n == Len(w)
           S == Orphans \cup {t0}
           f == [i \in 1 .. n |-> w[i]]
<1>0. n \in Nat /\ IsFiniteSet(Orphans) /\ Cardinality(Orphans) \in Nat
  BY FS_CardinalityType DEF OrphanInv, OrphansBounded, LoopOK, WorkAcc
<1>1. IsFiniteSet(S) /\ Cardinality(S) <= Cardinality(Orphans) + 1
  <2>1. IsFiniteSet(S) /\ (Cardinality(S) = Cardinality(Orphans) \/ Cardinality(S) = Cardinality(Orphans) + 1)
    BY <1>0, FS_AddElement
  <2> DEFINE c == Cardinality(Orphans)
             d == Cardinality(S)
  <2> HIDE DEF c, d
  <2>2. c \in Nat /\ (d = c \/ d = c + 1)
    BY <1>0, <2>1 DEF c, d
  <2>3. d <= c + 1
    BY <2>2
  <2>q. QED  BY <2>1, <2>3 DEF c, d
<1>2. f \in Injection(1 .. n, S)
  BY DEF LoopOK, Listed, Injection, IsInjective
<1> HIDE DEF f, S, w
<1>3. Cardinality(1 .. n) <= Cardinality(S)
  BY <1>1, <1>2, FS_Injection
<1> HIDE DEF n
<1>4. Cardinality(1 .. n) = n
  <2>1. 1 \in Int /\ n \in Int /\ (IF 1 > n THEN 0 ELSE n - 1 + 1) = n
    BY <1>0
  <2>2. Cardinality(1 .. n) = IF 1 > n THEN 0 ELSE n - 1 + 1
    BY <2>1, FS_Interval
  <2>q. QED  BY <2>1, <2>2
<1>5. Cardinality(S) \in Nat
  BY <1>1, FS_CardinalityType
<1>q. QED  BY <1>0, <1>1, <1>3, <1>4, <1>5 DEF n, w

(***************************************************************************)
(* The orphan t is looked at with all its parents there when the last of   *)
(* them in vWorkQueue is worked on.                                        *)
(***************************************************************************)
LEMMA LoopResolves ==
    ASSUME OrphanInv, Normal(coins), Minable(mempool, coins, NextHeight), NEW t0 \in Tx, NEW refused,
           Verdict(mempool, coins, NextHeight, t0, refused) = "accepted",
           NEW t \in Orphans,
           Prevs(t) \cap (Resolved(t0, refused).mp.tx \ mempool.tx) # {},
           ~Lacks(Resolved(t0, refused).mp, coins, t)
    PROVE  t \in Resolved(t0, refused).erase \/ Suspect(orphans[t])
<1> DEFINE n == Cardinality(Orphans) + 1
           z == Resolved(t0, refused)
<1>1. PICK h : WorkRun(h, t0, refused)
  BY WorkRuns
<1>2. n \in Nat /\ n \in 0 .. n
  BY FS_CardinalityType DEF OrphanInv, OrphansBounded
<1>3. /\ \A i \in 0 .. n : LoopOK(h[i], t0)
      /\ \A i \in 1 .. n : h[i] = ProcessWork(h[i - 1], i, refused)
      /\ z = h[n]
  BY <1>1 DEF WorkRun
<1> HIDE DEF n, z
<1>4. \A i \in 0 .. n : h[i].work \in Seq(Tx) /\ Len(h[i].work) \in Nat
  BY <1>3 DEF LoopOK, WorkAcc
<1>5. ASSUME NEW i \in 1 .. n
      PROVE  /\ Further(h[i - 1], h[i])
             /\ i <= Len(h[i - 1].work) => \A o \in Orphans : h[i - 1].work[i] \in Prevs(o) =>
                   Settled(h[i], o) \/ Lacks(h[i - 1].mp, coins, o)
  <2> DEFINE y == h[i - 1]
  <2>1. LoopOK(y, t0) /\ y.work \in Seq(Tx) /\ h[i] = ProcessWork(y, i, refused)
    BY <1>2, <1>3, <1>4
  <2> HIDE DEF y
  <2>2. CASE i > Len(y.work)
    <3>1. h[i] = y /\ Further(y, y)
      BY <2>1, <2>2 DEF ProcessWork, Further
    <3>q. QED  BY <1>2, <2>1, <2>2, <3>1 DEF y
  <2>3. CASE ~(i > Len(y.work))
    <3> DEFINE q == y.work[i]
    <3>1. q \in Tx /\ h[i] = TryOrphans(y, q, refused)
      BY <2>1, <2>3 DEF ProcessWork
    <3> HIDE DEF q
    <3>2. /\ Further(y, h[i])
          /\ \A o \in Orphans : q \in Prevs(o) => Settled(h[i], o) \/ Lacks(y.mp, coins, o)
      BY <2>1, <3>1, TryOrphansKeeps
    <3>q. QED  BY <3>2 DEF y, q
  <2>q. QED  BY <2>2, <2>3
<1> DEFINE T == {k \in 0 .. n : Further(h[n - k], z)}
<1>6. 0 \in T
  BY <1>2, <1>3, <1>4 DEF Further
<1>7. ASSUME NEW k \in 1 .. n, k - 1 \in T PROVE k \in T
  <2> DEFINE j == n - (k - 1)
  <2>1. j \in 1 .. n /\ n - k = j - 1 /\ k \in 0 .. n /\ j - 1 \in 0 .. n /\ j \in 0 .. n
    BY <1>2
  <2>2. Further(h[j], z)
    BY <1>7
  <2> HIDE DEF j
  <2>3. Further(h[j - 1], h[j])
    BY <1>5, <2>1
  <2>4. Further(h[j - 1], z)
    BY <1>2, <1>3, <1>4, <2>1, <2>2, <2>3, FurtherTrans
  <2>q. QED  BY <2>1, <2>4
<1> HIDE DEF T
<1>8. \A k \in 0 .. n : k \in T
  BY <1>2, <1>6, <1>7, InductionTo
<1>9. \A i \in 0 .. n : Further(h[i], z)
  <2> SUFFICES ASSUME NEW i \in 0 .. n PROVE Further(h[i], z)
    OBVIOUS
  <2>1. n - i \in 0 .. n /\ n - (n - i) = i
    BY <1>2
  <2>2. Further(h[n - (n - i)], z)
    BY <1>8, <2>1 DEF T
  <2>q. QED  BY <2>1, <2>2
\* every entry is there before its turn comes
<1> DEFINE w == z.work
           m == Len(w)
<1>10. m \in Nat /\ m <= n /\ LoopOK(z, t0)
  BY <1>2, <1>3, <1>4, WorkShort DEF n
<1>11. \A i \in 1 .. m : i <= Len(h[i - 1].work)
  \* otherwise nothing would have been added from the i-th step on
  <2> SUFFICES ASSUME NEW i \in 1 .. m, i > Len(h[i - 1].work) PROVE FALSE
    BY <1>2, <1>4, <1>10
  <2> DEFINE U == {k \in 0 .. (n - i + 1) : h[i - 1 + k] = h[i - 1]}
  <2>0. i \in Nat \ {0} /\ i <= n /\ n - i + 1 \in Nat /\ i - 1 \in 0 .. n
    BY <1>2, <1>10
  <2>1. 0 \in U
    BY <2>0
  <2>2. ASSUME NEW k \in 1 .. (n - i + 1), k - 1 \in U PROVE k \in U
    <3> DEFINE j == i - 1 + k
    <3>1. j \in 1 .. n /\ j - 1 = i - 1 + (k - 1) /\ j >= i /\ k \in 0 .. (n - i + 1)
      BY <1>2, <2>0
    <3>2. h[j - 1] = h[i - 1]
      BY <2>2, <3>1
    <3> HIDE DEF j
    <3>3. h[j] = ProcessWork(h[i - 1], j, refused) /\ j > Len(h[i - 1].work)
      BY <1>3, <1>4, <2>0, <3>1, <3>2
    <3>4. h[j] = h[i - 1]
      BY <3>3 DEF ProcessWork
    <3>q. QED  BY <3>1, <3>4 DEF j
  <2> HIDE DEF U
  <2>3. n - i + 1 \in U
    <3> DEFINE N == n - i + 1
    <3>1. N \in Nat /\ N \in 0 .. N /\ \A k \in 1 .. N : k - 1 \in U => k \in U
      BY <2>0, <2>2
    <3> HIDE DEF N
    <3>2. \A k \in 0 .. N : k \in U
      BY <2>1, <3>1, InductionTo
    <3>q. QED  BY <3>1, <3>2 DEF N
  <2>4. h[n] = h[i - 1]
    <3>1. i - 1 + (n - i + 1) = n
      BY <1>2, <2>0
    <3>2. h[i - 1 + (n - i + 1)] = h[i - 1]
      BY <2>3 DEF U
    <3>q. QED  BY <3>1, <3>2
  <2>q. QED  BY <1>3, <1>4, <1>10, <2>0, <2>4
<1>12. \A u : u \in z.mp.tx <=> u \in mempool.tx \/ \E i \in 1 .. m : u = w[i]
  BY <1>10 DEF LoopOK, Listed
\* the last entry that t spends from
<1> DEFINE K == {i \in 1 .. m : w[i] \in Prevs(t)}
<1>13. PICK i \in K : \A j \in K : i >= j
  <2>1. PICK u : u \in Prevs(t) /\ u \in z.mp.tx /\ u \notin mempool.tx
    BY DEF z
  <2>2. K # {}
    BY <1>12, <2>1
  <2>3. K \subseteq Nat /\ \A j \in K : j <= m
    BY <1>10
  <2> HIDE DEF K
  <2>4. Max(K) \in K /\ \A j \in K : Max(K) >= j
    BY <1>10, <2>2, <2>3, MaxOf
  <2>q. QED  BY <2>4
<1> DEFINE y == h[i - 1]
<1>14. /\ i \in 1 .. m /\ w[i] \in Prevs(t) /\ i - 1 \in 0 .. n /\ i \in 1 .. n
       /\ i <= Len(y.work) /\ LoopOK(y, t0) /\ Further(y, z)
  BY <1>2, <1>3, <1>9, <1>10, <1>11, <1>13
<1> HIDE DEF y, K, w, m
<1>15. y.work[i] = w[i]
  BY <1>14, <1>10 DEF Further, w
<1>16. ~Lacks(y.mp, coins, t)
  <2> SUFFICES ASSUME NEW u \in Prevs(t) \ y.mp.tx, coins[u].out = {} PROVE FALSE
    BY DEF Lacks
  <2>1. u \in z.mp.tx
    BY DEF Lacks, z
  <2>2. \A x : x \in y.mp.tx <=> x \in mempool.tx \/ \E j \in 1 .. Len(y.work) : x = y.work[j]
    BY <1>14 DEF LoopOK, Listed
  <2>3. PICK j \in 1 .. m : u = w[j]
    BY <1>12, <2>1, <2>2
  <2>4. j \in 1 .. i
    BY <1>10, <1>13, <1>14, <2>3 DEF K
  <2>5. j \in 1 .. Len(y.work) /\ y.work[j] = w[j]
    <3>1. Len(y.work) \in Nat
      BY <1>4, <1>14 DEF y
    <3>2. j \in 1 .. Len(y.work)
      BY <1>14, <2>4, <3>1
    <3>q. QED  BY <1>14, <3>2 DEF Further, w
  <2>q. QED  BY <2>2, <2>3, <2>5
<1>17. Settled(h[i], t)
  BY <1>5, <1>14, <1>15, <1>16 DEF y
<1>18. t \in z.erase \/ orphans[t] \in z.bad
  <2>1. Further(h[i], z)
    BY <1>2, <1>9, <1>14
  <2>q. QED  BY <1>17, <2>1 DEF Settled, Further
<1>19. z.bad \subseteq BadPeers
  BY <1>10 DEF LoopOK, WorkAcc
<1>q. QED  BY <1>18, <1>19 DEF z, BadPeers, Suspect

----------------------------------------------------------------------------
(* Blocks and the pool. *)

LEMMA OrdinaryCoins ==
    ASSUME NEW p, p \notin CoinBase, NEW height
    PROVE  ~FromTx(p, height).cb
BY DEF FromTx

\* what a block leaves of the pool could be mined after it
LEMMA ConnectKeeps ==
    ASSUME NEW c, Normal(c), NEW b \in Block \ {Genesis}, Connects(c, b),
           NEW mp, Minable(mp, c, Height[b])
    PROVE  Minable(RemoveForBlock(mp, b), ConnectBlock(c, b).coins, Height[b] + 1)
<1> DEFINE D == Range(Body[b])
           H == Height[b]
           e == Applied(c, D, H)
           q == RemoveForBlock(mp, b)
<1>0. H \in Nat /\ H # 0 /\ PoolOK(mp)
  BY BodyFacts DEF Minable
<1>1. Cleared(mp, q, D)
  BY <1>0, BlockClears
<1>2. ConnectBlock(c, b).coins = e /\ \A t \in D : c[t] = NoCoins
  BY DEF Connects
<1> HIDE DEF D, H, q
<1>3. ASSUME NEW t \in q.tx, NEW o \in Inputs(t), o[1] \notin q.tx
      PROVE  Available(e, o) /\ ~Immature(e[o[1]], H + 1)
  <2> DEFINE p == o[1]
             n == o[2]
  <2>1. t \in Tx /\ t \in mp.tx /\ n < Outs[p]
    BY <1>1 DEF Cleared, PoolOK, PoolType
  <2>2. p \in Tx /\ n \in Nat /\ o = <<p, n>>
    BY <2>1, OutPoints
  <2>3. o \notin SpentBy(D) /\ (p \in mp.tx => p \in D)
    BY <1>1, <1>3 DEF Cleared
  <2>4. p \in mp.tx \/ (n \in c[p].out /\ ~Immature(c[p], H))
    BY <2>1 DEF Minable, Available, H
  <2>5. Outs[p] \in Nat /\ NoCoins.out = {}
    BY <2>2, TxAssumption DEF TxAssumption, NoCoins
  <2> DEFINE m == Mined(c, D, H)
  <2> HIDE DEF p, n
  <2>6. /\ e[p].out = {k \in m[p].out : <<p, k>> \notin SpentBy(D)}
        /\ e[p].out # {} => e[p].cb = m[p].cb /\ e[p].height = m[p].height
    BY <1>0, <2>2, AppliedFields
  <2> HIDE DEF e
  <2>7. CASE p \in D
    <3>1. p \in mp.tx
      BY <1>2, <2>4, <2>5, <2>7
    <3>2. p \notin CoinBase
      BY <1>0, <3>1 DEF PoolOK
    <3>3. m[p] = FromTx(p, H)
      BY <2>2, <2>7 DEF Mined
    <3>4. n \in m[p].out /\ ~m[p].cb
      <4>1. n \in 0 .. (Outs[p] - 1)
        BY <2>1, <2>2, <2>5
      <4>2. m[p].out = 0 .. (Outs[p] - 1)
        BY <3>3 DEF FromTx
      <4>3. ~m[p].cb
        BY <3>2, <3>3, OrdinaryCoins
      <4>q. QED  BY <4>1, <4>2, <4>3
    <3>5. n \in e[p].out /\ ~e[p].cb
      BY <2>2, <2>3, <2>6, <3>4
    <3>q. QED  BY <3>5 DEF Available, Immature, p, n
  <2>8. CASE p \notin D
    <3>1. n \in c[p].out /\ ~Immature(c[p], H)
      BY <2>3, <2>4, <2>8
    <3>2. m[p] = c[p]
      BY <2>2, <2>8 DEF Mined
    <3>3. n \in e[p].out /\ e[p].cb = c[p].cb /\ e[p].height = c[p].height
      BY <2>2, <2>3, <2>6, <3>1, <3>2
    <3>4. c[p].height \in Nat /\ Maturity \in Nat
      BY <2>2, TxAssumption DEF Normal, CoinsMap, CoinsType, TxAssumption
    <3>5. ~Immature(e[p], H + 1)
      BY <1>0, <3>1, <3>3, <3>4 DEF Immature
    <3>q. QED  BY <3>3, <3>5 DEF Available, p, n
  <2>q. QED  BY <2>7, <2>8
<1>4. Minable(q, e, H + 1)
  BY <1>1, <1>3 DEF Minable, Cleared
<1>q. QED  BY <1>2, <1>4 DEF q, H

(***************************************************************************)
(* While the transactions of a disconnected block are resurrected or       *)
(* thrown out, an input that is nowhere is of one whose turn comes.        *)
(***************************************************************************)
Waiting(mp, c, later) ==
    /\ PoolOK(mp)
    /\ \A t \in mp.tx : \A o \in Inputs(t) : o[1] \in mp.tx \/ Available(c, o) \/ o[1] \in later

ResurrectOne(mp, c, height, t, refused) ==
    IF Verdict(mp, c, height, t, refused) = "accepted" THEN AddUnchecked(mp, t) ELSE RemoveRecursive(mp, t)

LEMMA ResurrectOneKeeps ==
    ASSUME NEW c, Normal(c), NEW mp, NEW later, Waiting(mp, c, later), NEW height, NEW t \in Tx, NEW refused,
           NEW rest, \A x \in later : x \in rest \/ x = t
    PROVE  Waiting(ResurrectOne(mp, c, height, t, refused), c, rest)
<1>0. PoolOK(mp)
  BY DEF Waiting
<1>1. CASE Verdict(mp, c, height, t, refused) = "accepted"
  <2> DEFINE q == AddUnchecked(mp, t)
  <2>1. PoolOK(q) /\ q.tx = mp.tx \cup {t}
    BY <1>0, <1>1, AcceptAdds
  <2>2. \A o \in Inputs(t) : o[1] \in mp.tx \/ Available(c, o)
    BY <1>1, VerdictIs
  <2> HIDE DEF q
  <2>3. Waiting(q, c, rest)
    BY <2>1, <2>2 DEF Waiting
  <2>q. QED  BY <1>1, <2>3 DEF ResurrectOne, q
<1>2. CASE Verdict(mp, c, height, t, refused) # "accepted"
  <2> DEFINE q == RemoveRecursive(mp, t)
  <2>1. Cut(mp, q) /\ \A u \in q.tx : \A o \in Inputs(u) : o[1] # t
    BY <1>0, RemoveCuts
  <2> HIDE DEF q
  <2>2. Waiting(q, c, rest)
    BY <2>1 DEF Waiting, Cut
  <2>q. QED  BY <1>2, <2>2 DEF ResurrectOne, q
<1>q. QED  BY <1>1, <1>2

LEMMA ResurrectKeeps ==
    ASSUME NEW c, Normal(c), NEW b \in Block \ {Genesis}, NEW mp, Waiting(mp, c, Range(Body[b])), NEW refused
    PROVE  Waiting(Resurrect(mp, c, b, refused), c, {})
<1> DEFINE s == Body[b]
           n == Len(s)
           All == Range(s)
           A == {q \in PoolType : PoolOK(q)}
           Op(q, t) == ResurrectOne(q, c, Height[b], t, refused)
           step == [z \in A \X (1 .. n) |-> Op(z[1], s[z[2]])]
<1>0. n \in Nat /\ DOMAIN s = 1 .. n /\ (\A k \in 1 .. n : s[k] \in Tx) /\ All = {s[k] : k \in 1 .. n}
  BY BodyFacts
<1>1. mp \in A /\ \A q : PoolOK(q) => q \in A
  BY DEF PoolOK, Waiting
<1>2. ASSUME NEW q \in A, NEW t \in Tx PROVE Op(q, t) \in A
  <2> DEFINE later == UNION {Prevs(u) : u \in q.tx}
  <2>1. Waiting(q, c, later)
    BY DEF Waiting, Prevs
  <2> HIDE DEF later
  <2>2. Waiting(Op(q, t), c, later)
    BY <2>1, ResurrectOneKeeps
  <2>q. QED  BY <1>1, <2>2 DEF Waiting
<1>o. \A q, t : Op(q, t) = ResurrectOne(q, c, Height[b], t, refused)
  OBVIOUS
<1> HIDE DEF s, n, A, Op, All
<1>3. StepOn(step, A, n)
  BY <1>0, <1>2 DEF Closed, StepOn
<1>4. PICK g \in [SUBSET (1 .. n) -> A] : SolvesTo(g, mp, step, n)
  <2> HIDE DEF step
  <2>q. QED  BY <1>0, <1>1, <1>3, SequenceRecursion
<1>5. g = [x \in SUBSET DOMAIN s |-> IF x = {} THEN mp ELSE Op(g[x \ {Max(x)}], s[Max(x)])]
  BY <1>0, <1>4, MaxTo DEF SolvesTo
<1>6. PICK f : /\ f = [x \in SUBSET DOMAIN s |-> IF x = {} THEN mp ELSE Op(f[x \ {Max(x)}], s[Max(x)])]
               /\ FoldLeft(LAMBDA acc, t : Op(acc, t), mp, s) = f[DOMAIN s]
  BY <1>5 DEF FoldLeft, MapThenFoldSet
<1>7. Unrolls(f, mp, step, n)
  BY <1>0, <1>6, MaxTo DEF Unrolls
<1>8. PICK h : Runs(h, mp, step, A, n) /\ h[n] = f[1 .. n]
  <2> HIDE DEF step
  <2>q. QED  BY <1>0, <1>1, <1>3, <1>7, Unrolled
<1>9. \A k \in 1 .. n : h[k] = Op(h[k - 1], s[k])
  <2> SUFFICES ASSUME NEW k \in 1 .. n PROVE h[k] = Op(h[k - 1], s[k])
    OBVIOUS
  <2>1. h[k - 1] \in A
    BY <1>0, <1>8 DEF Runs
  <2>q. QED  BY <1>8, <2>1 DEF Runs
<1>10. Resurrect(mp, c, b, refused) = h[n] /\ h[0] = mp
  BY <1>0, <1>6, <1>8 DEF Runs, Resurrect, ResurrectOne, Op, s
<1> DEFINE To(k) == {s[i] : i \in (k + 1) .. n}
           T == {k \in 0 .. n : Waiting(h[k], c, To(k))}
<1>11. 0 \in T
  <2>1. To(0) = All
    BY <1>0
  <2>2. Waiting(mp, c, To(0))
    BY <2>1 DEF All, s
  <2>q. QED  BY <1>0, <1>10, <2>2
<1>12. ASSUME NEW k \in 1 .. n, k - 1 \in T PROVE k \in T
  <2> DEFINE later == To(k - 1)
             rest == To(k)
  <2>1. \A x \in later : x \in rest \/ x = s[k]
    <3>1. \A i \in ((k - 1) + 1) .. n : i \in (k + 1) .. n \/ i = k
      BY <1>0
    <3>q. QED  BY <3>1
  <2>2. Waiting(h[k - 1], c, later) /\ s[k] \in Tx /\ h[k] = Op(h[k - 1], s[k])
    BY <1>0, <1>9, <1>12
  <2> HIDE DEF later, rest
  <2>3. Waiting(h[k], c, rest)
    BY <1>o, <2>1, <2>2, ResurrectOneKeeps
  <2>q. QED  BY <1>0, <2>3 DEF rest
<1>13. To(n) = {}
  BY <1>0
<1> HIDE DEF T
<1>14. n \in T
  BY <1>0, <1>11, <1>12, InductionTo
<1>15. Waiting(h[n], c, To(n))
  BY <1>14 DEF T
<1>q. QED  BY <1>10, <1>13, <1>15

\* nothing is left that a disconnected block leaves without its inputs
LEMMA DisconnectWaits ==
    ASSUME NEW c, Normal(c), NEW b \in Block \ {Genesis}, Connects(c, b),
           NEW mp, Minable(mp, ConnectBlock(c, b).coins, Height[b] + 1)
    PROVE  Waiting(mp, c, Range(Body[b]))
<1> DEFINE D == Range(Body[b])
           H == Height[b]
           e == Applied(c, D, H)
           m == Mined(c, D, H)
<1>0. H \in Nat /\ H # 0 /\ mp.tx \subseteq Tx /\ ConnectBlock(c, b).coins = e
  BY BodyFacts DEF Minable, PoolOK, PoolType, Connects
<1> HIDE DEF D, H
<1>1. ASSUME NEW t \in mp.tx, NEW o \in Inputs(t), o[1] \notin mp.tx, o[1] \notin D
      PROVE  Available(c, o)
  <2>1. o[1] \in Tx
    BY <1>0, OutPoints
  <2>2. o[2] \in e[o[1]].out
    BY <1>0, <1>1 DEF Minable, Available
  <2>3. e[o[1]].out \subseteq m[o[1]].out
    <3> DEFINE p == o[1]
    <3>1. p \in Tx
      BY <2>1
    <3> HIDE DEF p, m
    <3>2. e[p].out = {n \in m[p].out : <<p, n>> \notin SpentBy(D)}
      BY <1>0, <3>1, AppliedFields DEF m
    <3>q. QED  BY <3>2 DEF p
  <2>4. m[o[1]] = c[o[1]]
    BY <1>1, <2>1 DEF Mined
  <2>q. QED  BY <2>2, <2>3, <2>4 DEF Available
<1>q. QED  BY <1>1 DEF Waiting, Minable, D

LEMMA CoinbaseSpendsGo ==
    ASSUME NEW c, NEW mp, Waiting(mp, c, {}), NEW height
    PROVE  Minable(RemoveCoinbaseSpends(mp, c, height), c, height)
<1> DEFINE bad == {t \in mp.tx : \E p \in Prevs(t) \ mp.tx : c[p].out = {} \/ Immature(c[p], height)}
           q == RemoveCoinbaseSpends(mp, c, height)
<1>1. PoolOK(mp) /\ mp.tx \subseteq Tx /\ IsFiniteSet(mp.tx)
  BY DEF Waiting, PoolOK, PoolType
<1>2. bad \in SUBSET Tx /\ IsFiniteSet(bad)
  BY <1>1, FS_Subset
<1>3. q = RemoveAll(mp, bad)
  BY DEF RemoveCoinbaseSpends, RemoveAll
<1>4. \A t \in mp.tx : \A o \in Inputs(t) : o[1] \in mp.tx \/ ~Immature(c[o[1]], height) \/ t \in bad
  BY DEF Prevs
<1> HIDE DEF bad, q
<1>5. Cut(mp, q) /\ q.tx \cap bad = {}
  BY <1>1, <1>2, <1>3, RemoveAllCuts
<1>6. Minable(q, c, height)
  BY <1>4, <1>5 DEF Minable, Waiting, Cut
<1>q. QED  BY <1>6 DEF q

(***************************************************************************)
(* The invariant: the coins are those of the chain, the orphans are        *)
(* indexed, and the pool could be mined on them.                           *)
(***************************************************************************)
PoolInv == ChainInv /\ OrphanInv /\ Minable(mempool, coins, NextHeight)

LEMMA InitPool == Init => PoolInv
<1> SUFFICES ASSUME Init PROVE PoolInv
  OBVIOUS
<1>1. ChainInv /\ OrphanInv
  BY InitChain, InitOrphans
<1>2. mempool.tx = {} /\ PoolOK(mempool)
  BY EmptyOK DEF Init, EmptyPool
<1>q. QED  BY <1>1, <1>2 DEF PoolInv, Minable

LEMMA ConnectPool ==
    ASSUME PoolInv, NEW b \in Block \ {Genesis}, ConnectTip(b)
    PROVE  Minable(mempool', coins', NextHeight')
<1>1. /\ ChainInv' /\ Connects(coins, b) /\ Parent[b] = TipOf(chain)
      /\ coins' = ConnectBlock(coins, b).coins
  BY ConnectChain DEF PoolInv
<1>2. Normal(coins) /\ Linked(chain)
  BY UnspentNormal DEF PoolInv, ChainInv
<1>3. chain' = Append(chain, b) /\ mempool' = RemoveForBlock(mempool, b)
  BY DEF ConnectTip
<1>4. TipOf(Append(chain, b)) = b /\ Height[b] = Len(chain) + 1 /\ Height[TipOf(chain)] = Len(chain)
  BY <1>1, <1>2, LinkedMore, LinkedHeights
<1>5. NextHeight = Height[b]
  BY <1>4 DEF NextHeight, Tip, TipOf
<1>6. NextHeight' = Height[b] + 1
  BY <1>3, <1>4 DEF NextHeight, Tip, TipOf
<1>7. Minable(mempool, coins, Height[b])
  BY <1>5 DEF PoolInv
<1>8. Minable(RemoveForBlock(mempool, b), ConnectBlock(coins, b).coins, Height[b] + 1)
  BY <1>1, <1>2, <1>7, ConnectKeeps
<1>q. QED  BY <1>1, <1>3, <1>6, <1>8

\* the pool after the resurrection, whatever policy refuses
LEMMA TipWaits ==
    ASSUME PoolInv, chain # <<>>, NEW refused
    PROVE  LET c == DisconnectBlock(coins, Tip, undo[Tip]).coins
           IN  c = Unspent(Front(chain)) /\ Waiting(Resurrect(mempool, c, Tip, refused), c, {})
<1> DEFINE c == Unspent(Front(chain))
           b == Tip
<1>1. TipBack(c)
  BY TipGoesBack DEF PoolInv
<1>2. /\ Normal(c) /\ b \in Block \ {Genesis} /\ Connects(c, b) /\ coins = ConnectBlock(c, b).coins
      /\ DisconnectBlock(coins, b, undo[b]) = [coins |-> c, clean |-> TRUE]
  BY <1>1 DEF TipBack
<1>3. Minable(mempool, ConnectBlock(c, b).coins, Height[b] + 1)
  BY <1>2 DEF PoolInv, NextHeight
<1>4. DisconnectBlock(coins, b, undo[b]).coins = c
  BY <1>2
<1> HIDE DEF c, b
<1>5. Waiting(mempool, c, Range(Body[b]))
  BY <1>2, <1>3, DisconnectWaits
<1>6. Waiting(Resurrect(mempool, c, b, refused), c, {})
  BY <1>2, <1>5, ResurrectKeeps
<1>q. QED  BY <1>4, <1>6 DEF c, b

LEMMA DisconnectPool ==
    ASSUME PoolInv, DisconnectTip
    PROVE  Minable(mempool', coins', NextHeight')
<1> DEFINE c == DisconnectBlock(coins, Tip, undo[Tip]).coins
           b == Tip
<1>1. PICK refused \in SUBSET Disliked : mempool' = RemoveCoinbaseSpends(Resurrect(mempool, c, b, refused), c, Height[b])
  BY DEF DisconnectTip
<1>2. chain # <<>> /\ chain' = Front(chain) /\ coins' = c
  BY DEF DisconnectTip
<1>3. Waiting(Resurrect(mempool, c, b, refused), c, {})
  BY <1>2, TipWaits
<1>4. NextHeight' = Height[b]
  <2>1. Linked(chain)
    BY DEF PoolInv, ChainInv
  <2>2. /\ Linked(Front(chain)) /\ Len(Front(chain)) = Len(chain) - 1 /\ Len(chain) \in Nat
        /\ TipOf(chain) = b
    BY <1>2, <2>1, LinkedLess DEF Tip
  <2>3. Height[TipOf(Front(chain))] = Len(chain) - 1 /\ Height[TipOf(chain)] = Len(chain)
    BY <2>1, <2>2, LinkedHeights
  <2>4. NextHeight' = Height[TipOf(Front(chain))] + 1
    BY <1>2 DEF NextHeight, Tip, TipOf
  <2>q. QED  BY <2>2, <2>3, <2>4
<1> HIDE DEF c, b
<1>5. Minable(mempool', c, Height[b])
  BY <1>1, <1>3, CoinbaseSpendsGo
<1>q. QED  BY <1>2, <1>4, <1>5

LEMMA NextPool == PoolInv /\ [Next]_vars => PoolInv'
<1> SUFFICES ASSUME PoolInv, [Next]_vars PROVE PoolInv'
  OBVIOUS
<1>0. ChainInv' /\ OrphanInv'
  BY NextChain, NextOrphans DEF PoolInv
<1> SUFFICES Minable(mempool', coins', NextHeight')
  BY <1>0 DEF PoolInv
<1>1. ASSUME NEW p \in Peer, NEW t \in Tx, TxMessage(p, t) PROVE Minable(mempool', coins', NextHeight')
  <2>1. chain' = chain /\ coins' = coins
    BY <1>1 DEF TxMessage
  <2>2. NextHeight' = NextHeight
    BY <2>1 DEF NextHeight, Tip
  <2>3. Normal(coins)
    BY UnspentNormal DEF PoolInv, ChainInv
  <2>4. Minable(mempool', coins, NextHeight)
    BY <1>1, <2>3, MessageKeeps DEF PoolInv
  <2>q. QED  BY <2>1, <2>2, <2>4
<1>2. ASSUME NEW p \in Peer, EraseOrphansFor(p) PROVE Minable(mempool', coins', NextHeight')
  BY <1>2 DEF EraseOrphansFor, PoolInv, NextHeight, Tip
<1>3. ASSUME NEW b \in Block \ {Genesis}, ConnectTip(b) PROVE Minable(mempool', coins', NextHeight')
  BY <1>3, ConnectPool
<1>4. CASE DisconnectTip
  BY <1>4, DisconnectPool
<1>5. CASE UNCHANGED vars
  BY <1>5 DEF vars, PoolInv, NextHeight, Tip
<1>q. QED  BY <1>1, <1>2, <1>3, <1>4, <1>5 DEF Next

LEMMA PoolAlways == Spec => []PoolInv
BY InitPool, NextPool, PTL DEF Spec

(***************************************************************************)
(* The assertion in removeCoinbaseSpends never fails: whatever is          *)
(* resurrected when the tip is disconnected and whatever policy refuses,   *)
(* every input of the pool is in the pool or among the coins, since        *)
(* DisconnectTip removes what is not resurrected with its dependants, also *)
(* when it is not in the pool itself.                                      *)
(***************************************************************************)
THEOREM ParentsNeverLost == Spec => []NoLostParents
<1>1. PoolInv => NoLostParents
  <2> SUFFICES ASSUME PoolInv, chain # <<>>, NEW refused \in SUBSET Disliked
               PROVE  LET d == DisconnectBlock(coins, Tip, undo[Tip])
                          mp == Resurrect(mempool, d.coins, Tip, refused)
                      IN  \A t \in mp.tx : \A o \in Inputs(t) : o[1] \in mp.tx \/ Available(d.coins, o)
    BY DEF NoLostParents
  <2> DEFINE c == DisconnectBlock(coins, Tip, undo[Tip]).coins
             mp == Resurrect(mempool, c, Tip, refused)
  <2>1. Waiting(mp, c, {})
    BY TipWaits
  <2> HIDE DEF c, mp
  <2>2. \A t \in mp.tx : \A o \in Inputs(t) : o[1] \in mp.tx \/ Available(c, o)
    BY <2>1 DEF Waiting
  <2>q. QED  BY <2>2 DEF c, mp
<1>q. QED  BY <1>1, PoolAlways, PTL

\* every step of the specification does what OrphansResolved says
LEMMA StepResolves ==
    ASSUME PoolInv, [Next]_vars, NEW t \in Orphans, UNCHANGED chain,
           Prevs(t) \cap (mempool'.tx \ mempool.tx) # {},
           \A p \in Prevs(t) : p \in mempool'.tx \/ coins[p].out # {}
    PROVE  orphans'[t] = NoPeer \/ Suspect(orphans[t])
<1>0. mempool' # mempool /\ Linked(chain) /\ t \in Tx
  BY DEF PoolInv, ChainInv, Orphans
<1>1. ASSUME NEW p \in Peer, NEW u \in Tx, TxMessage(p, u) PROVE orphans'[t] = NoPeer \/ Suspect(orphans[t])
  <2>1. PICK refused \in SUBSET Disliked :
           /\ Verdict(mempool, coins, NextHeight, u, refused) = "accepted"
           /\ mempool' = Resolved(u, refused).mp
           /\ EraseOrphans(Resolved(u, refused).erase)
    BY <1>0, <1>1 DEF TxMessage
  <2> DEFINE z == Resolved(u, refused)
  <2>2. ~Lacks(z.mp, coins, t) /\ Prevs(t) \cap (z.mp.tx \ mempool.tx) # {}
    BY <2>1 DEF Lacks
  <2>3. Normal(coins) /\ OrphanInv /\ Minable(mempool, coins, NextHeight)
    BY UnspentNormal DEF PoolInv, ChainInv
  <2>4. t \in z.erase \/ Suspect(orphans[t])
    BY <2>1, <2>2, <2>3, LoopResolves
  <2> HIDE DEF z
  <2>5. t \in z.erase => orphans'[t] = NoPeer
    BY <1>0, <2>1 DEF EraseOrphans, z
  <2>q. QED  BY <2>4, <2>5
<1>2. ASSUME NEW p \in Peer, EraseOrphansFor(p) PROVE FALSE
  BY <1>0, <1>2 DEF EraseOrphansFor
<1>3. ASSUME NEW b \in Block \ {Genesis}, ConnectTip(b) PROVE FALSE
  <2>1. Append(chain, b) = chain /\ chain \in Seq(Block \ {Genesis})
    BY <1>0, <1>3 DEF ConnectTip, Linked
  <2>2. Len(Append(chain, b)) = Len(chain) + 1 /\ Len(chain) \in Nat
    BY <2>1
  <2>q. QED  BY <2>1, <2>2
<1>4. CASE DisconnectTip
  <2>1. Front(chain) = chain /\ chain # <<>>
    BY <1>4 DEF DisconnectTip
  <2>2. Len(Front(chain)) = Len(chain) - 1 /\ Len(chain) \in Nat
    BY <1>0, <2>1, LinkedLess
  <2>q. QED  BY <2>1, <2>2
<1>5. CASE UNCHANGED vars
  BY <1>0, <1>5 DEF vars
<1>q. QED  BY <1>1, <1>2, <1>3, <1>4, <1>5 DEF Next

(***************************************************************************)
(* The loop of the "tx" message over vWorkQueue leaves no orphan behind    *)
(* that waited for a transaction of this message and has all its parents,  *)
(* however the orphans depend on one another and in whatever order their   *)
(* parents come in: it is accepted or erased, unless its peer was caught.  *)
(***************************************************************************)
THEOREM OrphansAlwaysResolved == Spec => OrphansResolved
<1>1. PoolInv /\ [Next]_vars =>
        [\A t \in Orphans :
            (/\ UNCHANGED chain
             /\ Prevs(t) \cap (mempool'.tx \ mempool.tx) # {}
             /\ \A p \in Prevs(t) : p \in mempool'.tx \/ coins[p].out # {})
            => orphans'[t] = NoPeer \/ Suspect(orphans[t])]_vars
  BY StepResolves
<1>q. QED  BY <1>1, PoolAlways, PTL DEF Spec, OrphansResolved

----------------------------------------------------------------------------
(* The pool and the chain have nothing in common. *)

(***************************************************************************)
(* A coinbase names the height of its block (BIP34, ContextualCheckBlock), *)
(* so none is in blocks of two heights.                                    *)
(***************************************************************************)
HeightInCoinbase ==
    \A b1, b2 \in Block \ {Genesis} : Body[b1][1] = Body[b2][1] => Height[b1] = Height[b2]

\* a transaction of a block spends from those before it, or from the coins
LEMMA BlockOrdered ==
    ASSUME NEW c, Normal(c), NEW b \in Block \ {Genesis}, ConnectBlock(c, b).ok
    PROVE  \A k \in 1 .. Len(Body[b]) : \A o \in Inputs(Body[b][k]) :
              o[1] \in BodyTo(b, k - 1) \/ Available(c, o)
<1> DEFINE n == Len(Body[b])
<1>0. c \in CoinsMap /\ n \in Nat
  BY BodyFacts DEF Normal
<1>1. PICK h : ConnectRun(h, c, b)
  BY <1>0, ConnectRuns
<1>2. Connecting(h, c, b)
  BY <1>1, ConnectingLoop
<1>3. \A k \in 1 .. n : InputsGood(h[k - 1].coins, Body[b][k], Height[b])
  BY <1>0, <1>1, AllConnected
<1> SUFFICES ASSUME NEW k \in 1 .. n, NEW o \in Inputs(Body[b][k]), ~Available(c, o)
             PROVE  o[1] \in BodyTo(b, k - 1)
  OBVIOUS
<1>4. k \in 0 .. n /\ Body[b][k] \in BodyTo(b, k)
  BY <1>0 DEF BodyTo
<1>5. o[1] \in Range(Body[b]) /\ o[1] \notin Range(Body[b]) \ BodyTo(b, k)
  BY <1>2, <1>4 DEF Connecting
<1>6. o[1] \in BodyTo(b, k)
  BY <1>5
<1>7. o[1] # Body[b][k]
  <2>1. h[k - 1].coins[Body[b][k]] = NoCoins
    BY <1>2 DEF Connecting
  <2>2. o[2] \in h[k - 1].coins[o[1]].out
    BY <1>3 DEF InputsGood, Available
  <2>q. QED  BY <2>1, <2>2 DEF NoCoins
<1>8. PICK i \in 1 .. k : o[1] = Body[b][i]
  BY <1>6 DEF BodyTo
<1>9. i \in 1 .. (k - 1)
  BY <1>0, <1>7, <1>8
<1>q. QED  BY <1>8, <1>9 DEF BodyTo

\* a transaction that is no coinbase has an input
LEMMA InputOf ==
    ASSUME NEW t \in Tx \ CoinBase
    PROVE  \E o : o \in Inputs(t)
<1>1. Ins[t] \in Seq(Tx \X Nat) /\ Ins[t] # <<>>
  BY TxAssumption DEF TxAssumption
<1>2. 1 \in DOMAIN Ins[t]
  BY <1>1
<1>3. Ins[t][1] \in Inputs(t)
  BY <1>2 DEF Inputs, Range
<1>q. QED  BY <1>3

\* t is in the i-th block of s
In(s, i, t) == t \in Range(Body[s[i]])

\* p is in s before the k-th transaction of the i-th block
Before(s, i, k, p) == p \in BodyTo(s[i], k - 1) \/ \E j \in 1 .. (i - 1) : In(s, j, p)

\* every transaction is in a chain once, and what it spends comes before it
Once(s) ==
    /\ \A i, j \in 1 .. Len(s) : \A t \in Tx : In(s, i, t) /\ In(s, j, t) => i = j
    /\ \A i \in 1 .. Len(s) : \A k \in 1 .. Len(Body[s[i]]) :
          \A o \in Inputs(Body[s[i]][k]) : Before(s, i, k, o[1])

LEMMA InPlace ==
    ASSUME NEW s, Linked(s), NEW i \in 1 .. Len(s), NEW t
    PROVE  In(s, i, t) <=> \E k \in 1 .. Len(Body[s[i]]) : t = Body[s[i]][k]
<1>1. s[i] \in Block \ {Genesis}
  BY LinkedHeights
<1>2. Range(Body[s[i]]) = {Body[s[i]][k] : k \in 1 .. Len(Body[s[i]])}
  BY <1>1, BodyFacts
<1>q. QED  BY <1>2 DEF In

LEMMA BeforeIn ==
    ASSUME NEW s, Linked(s), NEW i \in 1 .. Len(s), NEW k \in 1 .. Len(Body[s[i]]), NEW p, Before(s, i, k, p)
    PROVE  \E j \in 1 .. i : In(s, j, p)
<1>0. Len(s) \in Nat /\ s[i] \in Block \ {Genesis}
  BY LinkedHeights
<1>1. Len(Body[s[i]]) \in Nat
  BY <1>0, BodyFacts
<1>2. CASE p \in BodyTo(s[i], k - 1)
  <2>1. PICK l \in 1 .. (k - 1) : p = Body[s[i]][l]
    BY <1>2 DEF BodyTo
  <2>2. l \in 1 .. Len(Body[s[i]])
    BY <1>1
  <2>3. In(s, i, p)
    BY <2>1, <2>2, InPlace
  <2>4. i \in 1 .. i
    BY <1>0
  <2>q. QED  BY <2>3, <2>4
<1>3. CASE \E j \in 1 .. (i - 1) : In(s, j, p)
  BY <1>0, <1>3
<1>q. QED  BY <1>2, <1>3 DEF Before

LEMMA UnspentIn ==
    ASSUME NEW s, Linked(s), NEW o \in Tx \X Nat, Available(Unspent(s), o)
    PROVE  \E j \in 1 .. Len(s) : /\ In(s, j, o[1])
                                  /\ \A i \in 1 .. Len(s) : \A t : i >= j /\ In(s, i, t) => o \notin Inputs(t)
<1> DEFINE p == o[1]
           n == o[2]
<1>0. p \in Tx /\ o = <<p, n>> /\ n \in Unspent(s)[p].out
  BY DEF Available
<1> HIDE DEF p, n
<1>1. HeightsOf(s, p) # {} /\ Left(s, p) # {} /\ Unspent(s)[p].out = Left(s, p)
  <2>1. CASE HeightsOf(s, p) # {} /\ Left(s, p) # {}
    <3> DEFINE l == Left(s, p)
               m == Max(HeightsOf(s, p))
    <3>1. Unspent(s)[p] = [out |-> l, cb |-> p \in CoinBase, height |-> m]
      BY <1>0, <2>1, UnspentIs
    <3> HIDE DEF l, m
    <3>2. Unspent(s)[p].out = l
      BY <3>1
    <3>q. QED  BY <2>1, <3>2 DEF l
  <2>2. CASE ~(HeightsOf(s, p) # {} /\ Left(s, p) # {})
    <3>1. Unspent(s)[p] = NoCoins
      BY <1>0, <2>2, UnspentIs
    <3>2. Unspent(s)[p].out = {}
      BY <3>1 DEF NoCoins
    <3>q. QED  BY <1>0, <3>2
  <2>q. QED  BY <2>1, <2>2
<1> DEFINE j == Max(HeightsOf(s, p))
<1>2. j \in HeightsOf(s, p) /\ j \in 1 .. Len(s)
  BY <1>1, HeightsMax
<1>3. /\ Range(s) = {s[i] : i \in 1 .. Len(s)} /\ \A i \in 1 .. Len(s) : Height[s[i]] = i
      /\ Len(s) \in Nat
  BY LinkedHeights
<1>4. \A u \in Since(s, j) : o \notin Inputs(u)
  BY <1>0, <1>1 DEF Left
<1> HIDE DEF j
<1>5. In(s, j, p)
  BY <1>2, <1>3 DEF HeightsOf, In
<1>6. ASSUME NEW i \in 1 .. Len(s), NEW t, i >= j, In(s, i, t) PROVE o \notin Inputs(t)
  <2>1. s[i] \in Range(s) /\ Height[s[i]] >= j
    BY <1>3, <1>6
  <2>2. t \in Since(s, j)
    BY <1>6, <2>1 DEF Since, In
  <2>q. QED  BY <1>4, <2>2
<1>q. QED  BY <1>2, <1>5, <1>6 DEF p

\* what is spent in the chain is not among the coins
LEMMA SpentGone ==
    ASSUME NEW s, Linked(s), Once(s), NEW i \in 1 .. Len(s), NEW t, In(s, i, t), NEW o \in Inputs(t)
    PROVE  /\ ~Available(Unspent(s), o) /\ t \in Tx /\ o \in Tx \X Nat
           /\ \E k \in 1 .. Len(Body[s[i]]) : t = Body[s[i]][k] /\ Before(s, i, k, o[1])
<1>0. Len(s) \in Nat /\ s[i] \in Block \ {Genesis}
  BY LinkedHeights
<1>1. PICK k \in 1 .. Len(Body[s[i]]) : t = Body[s[i]][k]
  BY InPlace
<1>2. t \in Tx
  BY <1>0, <1>1, BodyFacts
<1>3. o \in Tx \X Nat
  BY <1>2, OutPoints
<1>4. Before(s, i, k, o[1])
  BY <1>1 DEF Once
<1>5. PICK j \in 1 .. i : In(s, j, o[1])
  BY <1>4, BeforeIn
<1>6. ASSUME Available(Unspent(s), o) PROVE FALSE
  <2>1. PICK l \in 1 .. Len(s) : /\ In(s, l, o[1])
                                 /\ \A x \in 1 .. Len(s) : \A u : x >= l /\ In(s, x, u) => o \notin Inputs(u)
    BY <1>3, <1>6, UnspentIn
  <2>2. ~(i >= l)
    BY <2>1
  <2>3. j \in 1 .. Len(s) /\ o[1] \in Tx
    BY <1>0, <1>3
  <2>4. l = j
    BY <1>5, <2>1, <2>3 DEF Once
  <2>q. QED  BY <1>0, <2>2, <2>4
<1>q. QED  BY <1>1, <1>2, <1>3, <1>4, <1>6

\* a block that connects brings nothing that the chain has
LEMMA BlockNew ==
    ASSUME HeightInCoinbase, NEW s, Linked(s), Once(s), NEW b \in Block \ {Genesis}, Parent[b] = TipOf(s),
           ConnectBlock(Unspent(s), b).ok, NEW i \in 1 .. Len(s), NEW t \in Range(Body[b])
    PROVE  ~In(s, i, t)
<1> DEFINE n == Len(Body[b])
           T == {k \in 1 .. n : \E j \in 1 .. Len(s) : In(s, j, Body[b][k])}
<1>0. /\ n \in Nat /\ \A k \in 1 .. n : Body[b][k] \in Tx /\ (Body[b][k] \in CoinBase <=> k = 1)
      /\ Range(Body[b]) = {Body[b][k] : k \in 1 .. n}
  BY BodyFacts
<1> SUFFICES ASSUME T # {} PROVE FALSE
  BY <1>0
<1>1. PICK k \in T : \A l \in T : k <= l
  <2>1. T \subseteq Nat
    OBVIOUS
  <2> HIDE DEF T
  <2>q. QED  BY <2>1, LeastNat
<1> DEFINE u == Body[b][k]
<1>2. PICK j \in 1 .. Len(s) : In(s, j, u)
  BY <1>1
<1>3. PICK l \in 1 .. Len(Body[s[j]]) : u = Body[s[j]][l]
  BY <1>2, InPlace
<1>4. /\ Height[b] = Len(s) + 1 /\ Len(s) \in Nat /\ Height[s[j]] = j /\ s[j] \in Block \ {Genesis}
  BY LinkedMore, LinkedHeights
<1>5. k \in 1 .. n /\ u \in Tx
  BY <1>0, <1>1
<1>6. CASE k = 1
  <2>1. u \in CoinBase
    BY <1>0, <1>5, <1>6
  <2>2. l = 1
    BY <1>3, <1>4, <2>1, BodyFacts
  <2>3. Body[b][1] = Body[s[j]][1]
    BY <1>3, <1>6, <2>2
  <2>4. Height[b] = Height[s[j]]
    BY <1>4, <2>3 DEF HeightInCoinbase
  <2>q. QED  BY <1>4, <2>4
<1>7. CASE k # 1
  <2>1. u \in Tx \ CoinBase
    BY <1>0, <1>5, <1>7
  <2>2. PICK o : o \in Inputs(u)
    BY <2>1, InputOf
  <2>3. /\ ~Available(Unspent(s), o)
        /\ \E m \in 1 .. Len(Body[s[j]]) : u = Body[s[j]][m] /\ Before(s, j, m, o[1])
    BY <1>2, <2>2, SpentGone
  <2>4. Normal(Unspent(s))
    BY UnspentNormal
  <2>5. o[1] \in BodyTo(b, k - 1)
    BY <1>5, <2>2, <2>3, <2>4, BlockOrdered
  <2>6. PICK x \in 1 .. (k - 1) : o[1] = Body[b][x]
    BY <2>5 DEF BodyTo
  <2>7. PICK y \in 1 .. j : In(s, y, o[1])
    BY <2>3, BeforeIn
  <2>8. y \in 1 .. Len(s)
    BY <1>4
  <2>9. x \in 1 .. n /\ x < k
    BY <1>0, <1>5
  <2>10. x \in T
    BY <2>6, <2>7, <2>8, <2>9
  <2>q. QED  BY <1>1, <1>5, <2>9, <2>10
<1>q. QED  BY <1>6, <1>7

LEMMA OnceMore ==
    ASSUME HeightInCoinbase, NEW s, Linked(s), Once(s), NEW b \in Block \ {Genesis}, Parent[b] = TipOf(s),
           ConnectBlock(Unspent(s), b).ok
    PROVE  Once(Append(s, b))
<1> DEFINE r == Append(s, b)
           N == Len(s) + 1
<1>0. /\ Linked(r) /\ Len(r) = N /\ Len(s) \in Nat /\ s \in Seq(Block \ {Genesis}) /\ Normal(Unspent(s))
  BY LinkedMore, LinkedHeights, UnspentNormal DEF Linked
<1>1. r[N] = b /\ \A i \in 1 .. Len(s) : r[i] = s[i]
  BY <1>0
<1>2. \A i \in 1 .. N : i = N \/ i \in 1 .. Len(s)
  BY <1>0
<1> HIDE DEF r, N
<1>3. \A i \in 1 .. Len(s) : \A t : In(r, i, t) <=> In(s, i, t)
  BY <1>1 DEF In
<1>4. \A t : In(r, N, t) <=> t \in Range(Body[b])
  BY <1>1 DEF In
<1>5. \A i \in 1 .. Len(s) : \A t \in Range(Body[b]) : ~In(s, i, t)
  BY BlockNew
<1>6. ASSUME NEW i \in 1 .. N, NEW j \in 1 .. N, NEW t \in Tx, In(r, i, t), In(r, j, t) PROVE i = j
  <2>1. CASE i = N /\ j = N
    BY <2>1
  <2>2. CASE i # N /\ j = N
    BY <1>2, <1>3, <1>4, <1>5, <1>6, <2>2
  <2>3. CASE i = N /\ j # N
    BY <1>2, <1>3, <1>4, <1>5, <1>6, <2>3
  <2>4. CASE i # N /\ j # N
    BY <1>2, <1>3, <1>6, <2>4 DEF Once
  <2>q. QED  BY <2>1, <2>2, <2>3, <2>4
<1>7. ASSUME NEW i \in 1 .. N, NEW k \in 1 .. Len(Body[r[i]]), NEW o \in Inputs(Body[r[i]][k])
      PROVE  Before(r, i, k, o[1])
  <2>1. CASE i # N
    <3>1. i \in 1 .. Len(s) /\ r[i] = s[i]
      BY <1>1, <1>2, <2>1
    <3>2. Before(s, i, k, o[1])
      BY <1>7, <3>1 DEF Once
    <3>3. \A j \in 1 .. (i - 1) : j \in 1 .. Len(s)
      BY <1>0, <3>1
    <3>q. QED  BY <1>3, <3>1, <3>2, <3>3 DEF Before
  <2>2. CASE i = N
    <3>1. r[i] = b
      BY <1>1, <2>2
    <3>2. o[1] \in BodyTo(b, k - 1) \/ Available(Unspent(s), o)
      BY <1>0, <1>7, <3>1, BlockOrdered
    <3>3. CASE o[1] \in BodyTo(b, k - 1)
      BY <3>1, <3>3 DEF Before
    <3>4. CASE Available(Unspent(s), o)
      <4>1. Body[b][k] \in Tx
        BY <1>7, <3>1, BodyFacts
      <4>2. o \in Tx \X Nat
        BY <1>7, <3>1, <4>1, OutPoints
      <4>3. PICK j \in 1 .. Len(s) : In(s, j, o[1])
        BY <3>4, <4>2, UnspentIn
      <4>4. j \in 1 .. (i - 1)
        BY <1>0, <2>2 DEF N
      <4>q. QED  BY <1>3, <4>3, <4>4 DEF Before
    <3>q. QED  BY <3>2, <3>3, <3>4
  <2>q. QED  BY <2>1, <2>2
<1>8. Once(r)
  BY <1>0, <1>6, <1>7 DEF Once
<1>q. QED  BY <1>8 DEF r

LEMMA OnceLess ==
    ASSUME NEW s, Linked(s), s # <<>>, Once(s)
    PROVE  Once(Front(s))
<1> DEFINE r == Front(s)
<1>0. Len(r) = Len(s) - 1 /\ Len(s) \in Nat /\ \A i \in 1 .. Len(s) - 1 : r[i] = s[i]
  BY LinkedLess
<1> HIDE DEF r
<1>1. \A i \in 1 .. Len(r) : i \in 1 .. Len(s) /\ r[i] = s[i] /\ \A t : In(r, i, t) <=> In(s, i, t)
  BY <1>0 DEF In
<1>2. \A i, j \in 1 .. Len(r) : \A t \in Tx : In(r, i, t) /\ In(r, j, t) => i = j
  BY <1>1 DEF Once
<1>3. ASSUME NEW i \in 1 .. Len(r), NEW k \in 1 .. Len(Body[r[i]]), NEW o \in Inputs(Body[r[i]][k])
      PROVE  Before(r, i, k, o[1])
  <2>1. Before(s, i, k, o[1])
    BY <1>1, <1>3 DEF Once
  <2>2. \A j \in 1 .. (i - 1) : j \in 1 .. Len(r)
    BY <1>0
  <2>q. QED  BY <1>1, <2>1, <2>2 DEF Before
<1>4. Once(r)
  BY <1>2, <1>3 DEF Once
<1>q. QED  BY <1>4 DEF r

(***************************************************************************)
(* The first transaction of the chain that were in a pool that can be      *)
(* mined would spend from an earlier one that is not.                      *)
(***************************************************************************)
LEMMA PoolNew ==
    ASSUME NEW s, Linked(s), Once(s), NEW mp, NEW height, Minable(mp, Unspent(s), height),
           NEW t \in mp.tx
    PROVE  Unspent(s)[t] = NoCoins
<1> DEFINE S == {i \in 1 .. Len(s) : \E u \in mp.tx : In(s, i, u)}
<1>0. mp.tx \subseteq Tx \ CoinBase /\ Len(s) \in Nat
  BY LinkedHeights DEF Minable, PoolOK, PoolType
<1>1. S = {}
  <2> SUFFICES ASSUME S # {} PROVE FALSE
    OBVIOUS
  <2>1. PICK i \in S : \A j \in S : i <= j
    <3>1. S \subseteq Nat
      OBVIOUS
    <3> HIDE DEF S
    <3>q. QED  BY <3>1, LeastNat
  <2> DEFINE B == Body[s[i]]
             K == {k \in 1 .. Len(B) : B[k] \in mp.tx}
  <2>2. i \in 1 .. Len(s)
    OBVIOUS
  <2>3. K # {}
    BY <2>1, <2>2, InPlace
  <2>4. PICK k \in K : \A l \in K : k <= l
    <3>1. K \subseteq Nat
      OBVIOUS
    <3> HIDE DEF K
    <3>q. QED  BY <2>3, <3>1, LeastNat
  <2>5. k \in 1 .. Len(B) /\ B[k] \in mp.tx /\ B[k] \in Tx \ CoinBase
    BY <1>0, <2>4
  <2>6. In(s, i, B[k])
    BY <2>2, <2>5, InPlace
  <2>7. PICK o : o \in Inputs(B[k])
    BY <2>5, InputOf
  <2>8. ~Available(Unspent(s), o)
    BY <2>2, <2>6, <2>7, SpentGone
  <2>9. o[1] \in mp.tx
    BY <2>5, <2>7, <2>8 DEF Minable
  <2>10. Before(s, i, k, o[1])
    BY <2>2, <2>5, <2>7 DEF Once
  <2>11. Len(B) \in Nat
    BY <2>2, LinkedHeights, BodyFacts
  <2>12. CASE o[1] \in BodyTo(s[i], k - 1)
    <3>1. PICK l \in 1 .. (k - 1) : o[1] = B[l]
      BY <2>12 DEF BodyTo
    <3>2. l \in K /\ l < k
      BY <2>5, <2>9, <2>11, <3>1
    <3>q. QED  BY <2>4, <2>5, <2>11, <3>2
  <2>13. CASE \E j \in 1 .. (i - 1) : In(s, j, o[1])
    <3>1. PICK j \in 1 .. (i - 1) : In(s, j, o[1])
      BY <2>13
    <3>2. j \in S /\ j < i
      BY <1>0, <2>2, <2>9, <3>1
    <3>q. QED  BY <1>0, <2>1, <2>2, <3>2
  <2>q. QED  BY <2>10, <2>12, <2>13 DEF Before
<1>2. \A i \in 1 .. Len(s) : ~In(s, i, t)
  BY <1>1
<1>3. HeightsOf(s, t) = {}
  BY <1>2, LinkedHeights DEF HeightsOf, In
<1>q. QED  BY <1>0, <1>3, UnspentIs

LEMMA OnceAlways ==
    ASSUME HeightInCoinbase
    PROVE  Spec => [](PoolInv /\ Once(chain))
<1>1. Init => Once(chain)
  <2>1. Len(<<>>) = 0
    OBVIOUS
  <2>q. QED  BY <2>1 DEF Init, Once
<1>2. PoolInv /\ Once(chain) /\ [Next]_vars => Once(chain)'
  <2> SUFFICES ASSUME PoolInv, Once(chain), [Next]_vars PROVE Once(chain')
    OBVIOUS
  <2>0. Linked(chain) /\ coins = Unspent(chain)
    BY DEF PoolInv, ChainInv
  <2>1. ASSUME NEW p \in Peer, NEW t \in Tx, TxMessage(p, t) PROVE chain' = chain
    BY <2>1 DEF TxMessage
  <2>2. ASSUME NEW p \in Peer, EraseOrphansFor(p) PROVE chain' = chain
    BY <2>2 DEF EraseOrphansFor
  <2>3. ASSUME NEW b \in Block \ {Genesis}, ConnectTip(b) PROVE Once(chain')
    <3>1. chain' = Append(chain, b) /\ Parent[b] = TipOf(chain) /\ ConnectBlock(Unspent(chain), b).ok
      BY <2>0, <2>3 DEF ConnectTip, Tip, TipOf
    <3>q. QED  BY <2>0, <3>1, OnceMore
  <2>4. CASE DisconnectTip
    <3>1. chain' = Front(chain) /\ chain # <<>>
      BY <2>4 DEF DisconnectTip
    <3>q. QED  BY <2>0, <3>1, OnceLess
  <2>5. CASE UNCHANGED vars
    BY <2>5 DEF vars
  <2>q. QED  BY <2>1, <2>2, <2>3, <2>4, <2>5 DEF Next
<1>q. QED  BY <1>1, <1>2, InitPool, NextPool, PTL DEF Spec

\* what of PoolChecked needs nothing of the coinbases
LEMMA PoolInvChecks == PoolInv => TypeOK /\ PoolIndexed /\ PoolMinable
<1> SUFFICES ASSUME PoolInv PROVE TypeOK /\ PoolIndexed /\ PoolMinable
  OBVIOUS
<1>1. /\ Linked(chain) /\ coins = Unspent(chain) /\ Normal(coins)
      /\ DOMAIN undo \subseteq Block \ {Genesis}
  BY UnspentNormal DEF PoolInv, ChainInv
<1>2. PoolOK(mempool)
  BY DEF PoolInv, Minable
<1>3. TypeOK
  <2>1. byPrev \in [Tx -> SUBSET Tx] /\ orphans \in [Tx -> Peer \cup {NoPeer}]
    BY DEF PoolInv, OrphanInv, OrphanTypeOK, Orphans
  <2>2. mempool \in [tx : SUBSET Tx, next : [OutPoint -> Tx \cup {NoTx}], size : Int]
    BY <1>2 DEF PoolOK, PoolType
  <2>3. coins \in [Tx -> CoinsType] /\ \A t \in Tx : coins[t].out = {} => coins[t] = NoCoins
    BY <1>1 DEF Normal, CoinsMap
  <2>4. chain \in Seq(Block \ {Genesis})
    BY <1>1 DEF Linked
  <2>q. QED  BY <1>1, <2>1, <2>2, <2>3, <2>4 DEF TypeOK
<1>4. PoolIndexed
  BY <1>2 DEF PoolOK, PoolIndexed, SumOf
<1>5. PoolMinable
  BY <1>2 DEF PoolInv, Minable, PoolOK, PoolMinable
<1>q. QED  BY <1>3, <1>4, <1>5

(***************************************************************************)
(* The indexes of the pool are always exact, totalTxSize included, and     *)
(* everything in it could be mined on the tip: no message, orphan, block   *)
(* or reorganisation leaves a transaction in it whose input is spent, gone *)
(* or an immature coinbase.                                                *)
(***************************************************************************)
THEOREM PoolAlwaysMinable == Spec => [](TypeOK /\ PoolIndexed /\ PoolMinable)
BY PoolInvChecks, PoolAlways, PTL

(***************************************************************************)
(* All that CTxMemPool::check asserts always holds when coinbases name the *)
(* height of their block.  Only the last part, that the pool repeats       *)
(* nothing that is among the coins, depends on it: a coinbase that is      *)
(* mined again when it is spent lets the transactions that spent it come   *)
(* again as well.                                                          *)
(***************************************************************************)
THEOREM PoolAlwaysChecked == HeightInCoinbase => (Spec => []PoolChecked)
<1> SUFFICES ASSUME HeightInCoinbase PROVE Spec => []PoolChecked
  OBVIOUS
<1>1. PoolInv /\ Once(chain) => PoolChecked
  <2> SUFFICES ASSUME PoolInv, Once(chain) PROVE PoolChecked
    OBVIOUS
  <2>1. Linked(chain) /\ coins = Unspent(chain) /\ Minable(mempool, coins, NextHeight)
    BY DEF PoolInv, ChainInv
  <2>2. \A t \in mempool.tx : Unspent(chain)[t] = NoCoins
    BY <2>1, PoolNew
  <2>q. QED  BY <2>1, <2>2, PoolInvChecks DEF PoolChecked, PoolApartFromCoins
<1>q. QED  BY <1>1, OnceAlways, PTL

===============================================================================
