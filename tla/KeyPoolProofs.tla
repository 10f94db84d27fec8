----------------------------- MODULE KeyPoolProofs -----------------------------
(***************************************************************************)
(* Proofs about KeyPool, for every set of threads, size of the pool and    *)
(* bound on the keys.  What makes the properties inductive: the file, or   *)
(* its copy while CDB::Rewrite has removed it, says the same as the memory *)
(* (FileWhole); a key is on record under one index at most, the one that   *)
(* its holder has (KeyPlaces); and until an index is written while it is   *)
(* reserved, a reserved index keeps its record and is not in setKeyPool    *)
(* (Reserved).  TypeOK says that the bound on the keys is never passed, so *)
(* it needs the progress of the two loops that make keys (LoopBounds).     *)
(***************************************************************************)
EXTENDS KeyPool, FiniteSetTheorems, TLAPS

----------------------------------------------------------------------------
(* The inductive invariant *)

\* The file that holds the wallet: while CDB::Rewrite has removed it, its copy.
Current == IF op.pc = "removed" THEN copy ELSE file

Pending == IF op.key = 0 THEN 0 ELSE 1

\* A file is a record of four kinds of records.
IsFile(f) ==
    /\ f = [plain |-> f.plain, crypted |-> f.crypted, master |-> f.master, pool |-> f.pool]
    /\ f.pool = [i \in DOMAIN f.pool |-> f.pool[i]]

Files == IsFile(file) /\ IsFile(copy) /\ (file = NoFile <=> op.pc = "removed")

\* The file says the same as the memory.
FileWhole(f) ==
    /\ f # NoFile
    /\ f.plain = {} \/ f.crypted = {}
    /\ f.master <=> f.crypted # {}
    /\ f.master <=> crypted
    /\ keys = KeysIn(f)
    /\ Range(f.pool) \subseteq KeysIn(f)

\* The copy is made once, by the rewrite that ends the only encryption.
CopyOnce ==
    /\ op.pc \in {"free", "fill"} /\ old = {} => copy = NoFile
    /\ op.pc \in {"erase", "renew", "rewrite"} => copy = NoFile
    /\ op.pc \notin {"free", "fill"} => old # {}
    /\ op.pc = "copied" => copy = file

\* Keys are numbered as they are made, and no index passes the number of keys.
Numbered ==
    /\ keys \cup given \subseteq 1 .. made
    /\ setKeyPool \cup DOMAIN Current.pool \subseteq 1 .. made - Pending
    /\ \A t \in Thread : held[t].index \in 0 .. made - Pending
    /\ \A t \in Holders : held[t].index # 0 /\ held[t].key # 0

\* How far the loops of TopUpKeyPool and NewKeyPool may still go.
LoopBounds ==
    /\ op.key # 0 => op.pc \in {"fill", "renew"} /\ op.key = made
    /\ op.pc = "fill" => made - Pending + Target + 1 - Cardinality(setKeyPool) <= MaxKey
    /\ op.pc = "erase" => made + Target <= MaxKey
    /\ op.pc = "renew" => /\ made - Pending + Target - Cardinality(setKeyPool) <= MaxKey
                          /\ Cardinality(setKeyPool) + Pending <= Target
                          /\ setKeyPool = 1 .. Cardinality(setKeyPool)

\* Where the keys are: used, reserved, on record under one index, or just made.
KeyPlaces ==
    /\ given \subseteq keys \cup KeysIn(copy)
    /\ \A t \in Holders : held[t].key \in keys
    /\ \A i, j \in DOMAIN Current.pool : Current.pool[i] = Current.pool[j] => i = j
    /\ Range(Current.pool) \cap given = {}
    /\ \A t \in Holders : \A i \in DOMAIN Current.pool :
          Current.pool[i] = held[t].key => i = held[t].index
    /\ op.key # 0 => /\ op.key \in keys \ (given \cup Range(Current.pool))
                     /\ \A t \in Thread : held[t].key # op.key

\* Until an index is written while it is reserved.
Reserved ==
    ~mixed => /\ \A t \in Holders : /\ held[t].index \in DOMAIN Current.pool
                                    /\ Current.pool[held[t].index] = held[t].key
                                    /\ held[t].index \notin setKeyPool
              /\ \A s, t \in Holders : s # t => held[s].index # held[t].index
              /\ op.pc # "erase" => setKeyPool \subseteq DOMAIN Current.pool

IInv == /\ TypeOK /\ Files /\ FileWhole(Current) /\ CopyOnce
        /\ Numbered /\ LoopBounds /\ KeyPlaces /\ Reserved
----------------------------------------------------------------------------
(* Numbers and sets of indexes *)

\* A set of natural numbers that is not empty has a least element.
LEMMA LeastNatural ==
  ASSUME NEW S \in SUBSET Nat, S # {}
  PROVE  \E x \in S : \A y \in S : x <= y
<1> DEFINE Less == {p \in Nat \X Nat : p[1] < p[2]}
<1>1. IsWellFoundedOn(Less, Nat) BY NatLessThanWellFounded DEF OpToRel
<1>2. PICK x \in S : \A y \in S : <<y, x>> \notin Less
  <2> HIDE DEF Less
  <2> QED BY <1>1, WFMin
<1>3. \A y \in S : x <= y
  <2> TAKE y \in S
  <2>1. x \in Nat /\ y \in Nat /\ ~(y < x) BY <1>2
  <2> QED BY <2>1
<1> QED BY <1>3

LEMMA MinInSet ==
  ASSUME NEW S \in SUBSET Nat, S # {}
  PROVE  Min(S) \in S
BY LeastNatural DEF Min

LEMMA MaxInSet ==
  ASSUME NEW n \in Nat, NEW S \in SUBSET (0 .. n), S # {}
  PROVE  Max(S) \in S /\ \A y \in S : y <= Max(S)
<1> DEFINE U == {u \in 0 .. n : \A y \in S : y <= u}
<1>1. U \in SUBSET Nat /\ n \in U OBVIOUS
<1>2. PICK m \in U : \A u \in U : m <= u
  <2> HIDE DEF U
  <2> QED BY <1>1, LeastNatural
<1>3. m \in S
  <2> SUFFICES ASSUME m \notin S PROVE FALSE OBVIOUS
  <2>1. PICK y \in S : TRUE OBVIOUS
  <2>2. m # 0 BY <2>1
  <2>3. m - 1 \in U BY <2>2
  <2> QED BY <1>2, <2>3
<1>4. \A y \in S : m >= y OBVIOUS
<1> QED BY <1>3, <1>4 DEF Max

LEMMA IndexesFinite ==
  ASSUME NEW n \in Nat, NEW S \in SUBSET (1 .. n)
  PROVE  IsFiniteSet(S) /\ Cardinality(S) \in 0 .. n
<1>1. IsFiniteSet(1 .. n) /\ Cardinality(1 .. n) = n BY FS_Interval
<1>2. IsFiniteSet(S) /\ Cardinality(S) <= Cardinality(1 .. n) BY <1>1, FS_Subset
<1> QED BY <1>1, <1>2, FS_CardinalityType

----------------------------------------------------------------------------
(* The operators on a file *)

LEMMA EmptyFiles ==
  /\ IsFile(NewFile) /\ NewFile.plain = {} /\ NewFile.crypted = {}
  /\ NewFile.master = FALSE /\ DOMAIN NewFile.pool = {}
  /\ IsFile(NoFile) /\ NoFile.plain = {0} /\ NoFile.crypted = {}
  /\ NoFile.master = FALSE /\ DOMAIN NoFile.pool = {}
BY DEF IsFile, NewFile, NoFile

LEMMA WriteKeyFacts ==
  ASSUME NEW f, IsFile(f), NEW k
  PROVE  LET g == WriteKey(f, k)
         IN /\ IsFile(g) /\ g.pool = f.pool /\ g.master = f.master
            /\ g.plain = IF crypted THEN f.plain ELSE f.plain \cup {k}
            /\ g.crypted = IF crypted THEN f.crypted \cup {k} ELSE f.crypted
BY DEF IsFile, WriteKey

LEMMA ErasedFacts ==
  ASSUME NEW f, IsFile(f), NEW index
  PROVE  LET g == Erased(f, index)
         IN /\ IsFile(g) /\ g.master = f.master /\ g.plain = f.plain /\ g.crypted = f.crypted
            /\ DOMAIN g.pool = DOMAIN f.pool \ {index}
            /\ \A i \in DOMAIN g.pool : g.pool[i] = f.pool[i]
BY DEF IsFile, Erased, Restrict

LEMMA EncryptedFacts ==
  ASSUME NEW f, IsFile(f)
  PROVE  LET g == EncryptedFile(f)
         IN /\ IsFile(g) /\ g.master /\ g.plain = {} /\ g.crypted = keys
            /\ g.pool = f.pool
BY DEF IsFile, EncryptedFile

LEMMA AddToPoolFacts ==
  ASSUME NEW index, IsFile(file), AddToPool(index)
  PROVE  /\ IsFile(file') /\ file'.master = file.master
         /\ file'.plain = file.plain /\ file'.crypted = file.crypted
         /\ DOMAIN file'.pool = DOMAIN file.pool \cup {index}
         /\ file'.pool[index] = op.key
         /\ \A i \in DOMAIN file.pool : i # index => file'.pool[i] = file.pool[i]
BY DEF IsFile, AddToPool

----------------------------------------------------------------------------
(* Each action preserves the invariant. *)

LEMMA InitOK == Init => IInv
<1> SUFFICES ASSUME Init PROVE IInv OBVIOUS
<1> USE KeyPoolAssumption, EmptyFiles DEF Init, Free
<1>1. TypeOK
  <2>1. held \in [Thread -> [index : 0 .. MaxKey, key : 0 .. MaxKey]] BY DEF Nothing
  <2>2. op \in [pc  : {"free", "fill", "erase", "renew", "rewrite", "copied", "removed"},
                who : Thread \cup {Nobody}, key : 0 .. MaxKey]
    OBVIOUS
  <2>3. Range(file.pool) \subseteq Key BY DEF Range
  <2> QED BY <2>1, <2>2, <2>3 DEF TypeOK, Key
<1>2. Files BY DEF Files
<1>3. FileWhole(Current) BY DEF FileWhole, Current, KeysIn, Range
<1>4. CopyOnce BY DEF CopyOnce
<1>5. Numbered BY DEF Numbered, Current, Holders, Nothing, Pending
<1>6. LoopBounds BY DEF LoopBounds
<1>7. KeyPlaces BY DEF KeyPlaces, Current, Holders, Nothing, KeysIn, Range
<1>8. Reserved BY DEF Reserved, Current, Holders, Nothing
<1> QED BY <1>1, <1>2, <1>3, <1>4, <1>5, <1>6, <1>7, <1>8 DEF IInv

\* What an index set of the state says of its size.
LEMMA PoolFinite ==
  ASSUME IInv
  PROVE  /\ IsFiniteSet(setKeyPool)
         /\ Cardinality(setKeyPool) \in Nat
         /\ made - Pending \in Nat
         /\ Cardinality(setKeyPool) <= made - Pending
<1>1. made - Pending \in Nat
  BY DEF IInv, TypeOK, LoopBounds, Pending, Key
<1>2. setKeyPool \in SUBSET (1 .. made - Pending) BY DEF IInv, Numbered
<1> QED BY <1>1, <1>2, IndexesFinite

LEMMA StartFillOK ==
  ASSUME IInv, NEW t \in Thread \cup {Nobody}, StartFill(t)
  PROVE  IInv'
<1> USE KeyPoolAssumption DEF IInv, StartFill, memory, ghosts, Free
<1>f. /\ op' = [pc |-> "fill", who |-> t, key |-> 0] /\ op.key = 0 /\ op.pc = "free"
      /\ Current = file /\ Current' = file' /\ Pending = 0 /\ Pending' = 0
  BY DEF Current, Pending
<1> USE <1>f
<1>1. TypeOK' BY DEF TypeOK
<1>2. Files' BY DEF Files
<1>3. FileWhole(Current)' BY DEF FileWhole
<1>4. CopyOnce' BY DEF CopyOnce
<1>5. Numbered' BY DEF Numbered, Holders
<1>6. LoopBounds' BY DEF LoopBounds, TypeOK
<1>7. KeyPlaces' BY DEF KeyPlaces, Holders
<1>8. Reserved' BY DEF Reserved, Holders
<1> QED BY <1>1, <1>2, <1>3, <1>4, <1>5, <1>6, <1>7, <1>8

\* GenerateNewKey in either loop: the key is in the wallet and not yet in the pool.
LEMMA GenerateNewKeyOK ==
  ASSUME IInv, GenerateNewKey, op.pc \in {"fill", "renew"}, op.key = 0, made + 1 <= MaxKey,
         op.pc = "renew" => Cardinality(setKeyPool) < Target,
         UNCHANGED <<crypted, unlocked, setKeyPool, held, copy, ghosts>>
  PROVE  IInv'
<1> USE KeyPoolAssumption DEF IInv, ghosts
<1>t. TypeOK /\ made \in Nat /\ made' = made + 1 /\ made' # 0
  BY DEF TypeOK, GenerateNewKey
<1>f. /\ op' = [pc |-> op.pc, who |-> op.who, key |-> made']
      /\ keys' = keys \cup {made'}
      /\ Current = file /\ Current' = file' /\ Pending = 0 /\ Pending' = 1
      /\ op.pc \notin {"removed", "copied", "rewrite", "erase", "free"}
  BY <1>t DEF Current, Pending, GenerateNewKey, TypeOK
<1>w. /\ IsFile(file') /\ file'.pool = file.pool /\ file'.master = file.master
      /\ file'.plain = IF crypted THEN file.plain ELSE file.plain \cup {made'}
      /\ file'.crypted = IF crypted THEN file.crypted \cup {made'} ELSE file.crypted
  BY WriteKeyFacts DEF GenerateNewKey, Files
<1>1. TypeOK' BY <1>t, <1>f, <1>w, EmptyFiles DEF TypeOK, Key, Range, FileWhole
<1>2. Files' BY <1>t, <1>f, <1>w, EmptyFiles DEF Files, FileWhole, TypeOK, Key
<1>3. FileWhole(Current)' BY <1>t, <1>f, <1>w, <1>2 DEF FileWhole, KeysIn, Files
<1>4. CopyOnce' BY <1>t, <1>f DEF CopyOnce
<1>5. Numbered' BY <1>t, <1>f, <1>w DEF Numbered, Holders
<1>6. LoopBounds' BY <1>t, <1>f, PoolFinite DEF LoopBounds
<1>7. KeyPlaces'
  <2>1. \A t \in Thread : held[t].key # made' 
    BY <1>t DEF KeyPlaces, Numbered, Holders, TypeOK, Nothing
  <2> QED BY <1>t, <1>f, <1>w, <2>1 DEF KeyPlaces, Holders, Numbered, FileWhole, Range, KeysIn
<1>8. Reserved' BY <1>f, <1>w DEF Reserved, Holders
<1> QED BY <1>1, <1>2, <1>3, <1>4, <1>5, <1>6, <1>7, <1>8

LEMMA FillNewKeyOK == ASSUME IInv, FillNewKey PROVE IInv'
<1>1. made + 1 <= MaxKey
  BY PoolFinite, KeyPoolAssumption DEF FillNewKey, Short, IInv, LoopBounds, TypeOK, Pending
<1> QED BY <1>1, GenerateNewKeyOK DEF FillNewKey

LEMMA RenewKeyOK == ASSUME IInv, RenewKey PROVE IInv'
<1>1. made + 1 <= MaxKey
  BY PoolFinite, KeyPoolAssumption DEF RenewKey, IInv, LoopBounds, TypeOK, Pending
<1> QED BY <1>1, GenerateNewKeyOK DEF RenewKey

\* WritePool in either loop, under an index that setKeyPool does not have.
LEMMA AddToPoolOK ==
  ASSUME IInv, op.pc \in {"fill", "renew"}, op.key # 0,
         NEW index \in 1 .. made, index \notin setKeyPool, AddToPool(index),
         op.pc = "renew" => index = Cardinality(setKeyPool) + 1,
         UNCHANGED <<keys, crypted, unlocked, held, copy, made, given, old>>
  PROVE  IInv'
<1> USE KeyPoolAssumption DEF IInv
<1>t. TypeOK /\ made \in Nat /\ op.key = made /\ op.key \in Key BY DEF TypeOK, LoopBounds, Key
<1>f. /\ op' = [pc |-> op.pc, who |-> op.who, key |-> 0]
      /\ setKeyPool' = setKeyPool \cup {index}
      /\ mixed' = (mixed \/ \E t \in Thread : held[t].index = index)
      /\ Current = file /\ Current' = file' /\ Pending = 1 /\ Pending' = 0
      /\ op.pc \notin {"removed", "copied", "rewrite", "erase", "free"}
  BY <1>t DEF Current, Pending, AddToPool, TypeOK
<1>w. /\ IsFile(file') /\ file'.master = file.master
      /\ file'.plain = file.plain /\ file'.crypted = file.crypted
      /\ DOMAIN file'.pool = DOMAIN file.pool \cup {index}
      /\ file'.pool[index] = op.key
      /\ \A i \in DOMAIN file.pool : i # index => file'.pool[i] = file.pool[i]
  BY AddToPoolFacts DEF Files
<1>1. TypeOK'
  <2>1. mixed' \in BOOLEAN BY <1>t, <1>f DEF TypeOK
  <2>2. file # NoFile /\ DOMAIN file'.pool \subseteq Key /\ Range(file'.pool) \subseteq Key
    BY <1>t, <1>f, <1>w DEF TypeOK, Key, Range, FileWhole
  <2> QED BY <1>t, <1>f, <1>w, <2>1, <2>2 DEF TypeOK, Key
<1>2. Files' BY <1>t, <1>f, <1>w, EmptyFiles DEF Files, FileWhole, TypeOK, Key
<1>3. FileWhole(Current)' BY <1>f, <1>w, <1>2 DEF FileWhole, KeysIn, Files, Range, KeyPlaces
<1>4. CopyOnce' BY <1>f DEF CopyOnce
<1>5. Numbered' BY <1>t, <1>f, <1>w DEF Numbered, Holders, TypeOK
<1>6. LoopBounds'
  <2>1. Cardinality(setKeyPool') = Cardinality(setKeyPool) + 1
    BY PoolFinite, FS_AddElement, <1>f
  <2>2. op.pc = "renew" => setKeyPool' = 1 .. Cardinality(setKeyPool) + 1
    BY <1>f, PoolFinite DEF LoopBounds
  <2>3. CASE op.pc = "fill" BY <1>t, <1>f, <2>1, <2>3, PoolFinite DEF LoopBounds
  <2>4. CASE op.pc = "renew"
    <3>1. Cardinality(setKeyPool) + 1 <= Target BY <1>f, <2>4 DEF LoopBounds
    <3>2. setKeyPool' = 1 .. Cardinality(setKeyPool') BY <2>1, <2>2, <2>4
    <3>3. (made - Pending + Target - Cardinality(setKeyPool) <= MaxKey)'
      BY <1>t, <1>f, <2>1, <2>4, PoolFinite DEF LoopBounds
    <3>4. (Cardinality(setKeyPool) + Pending <= Target)' BY <1>f, <2>1, <3>1, PoolFinite
    <3> QED BY <1>f, <2>4, <3>2, <3>3, <3>4 DEF LoopBounds
  <2> QED BY <2>3, <2>4
<1>7. KeyPlaces' BY <1>f, <1>w DEF KeyPlaces, Holders, Range, KeysIn
<1>8. Reserved' BY <1>f, <1>w DEF Reserved, Holders
<1> QED BY <1>1, <1>2, <1>3, <1>4, <1>5, <1>6, <1>7, <1>8

LEMMA FillWriteOK == ASSUME IInv, FillWrite PROVE IInv'
<1>1. NextIndex \in 1 .. made /\ NextIndex \notin setKeyPool
  <2>1. setKeyPool \in SUBSET (0 .. made - 1) /\ made \in Nat /\ made - 1 \in Nat /\ 0 \notin setKeyPool
    BY DEF FillWrite, IInv, Numbered, TypeOK, LoopBounds, Pending
  <2>2. CASE setKeyPool = {} BY <2>1, <2>2 DEF NextIndex
  <2>3. CASE setKeyPool # {}
    <3>1. Max(setKeyPool) \in setKeyPool /\ \A y \in setKeyPool : y <= Max(setKeyPool)
      BY <2>1, <2>3, MaxInSet
    <3>2. PICK m \in 0 .. made - 1 : m = Max(setKeyPool) BY <2>1, <3>1
    <3>3. m + 1 \notin setKeyPool BY <2>1, <3>1, <3>2
    <3> QED BY <2>1, <2>3, <3>2, <3>3 DEF NextIndex
  <2> QED BY <2>2, <2>3
<1>2. op.pc # "renew" BY DEF FillWrite
<1> QED BY <1>1, <1>2, AddToPoolOK DEF FillWrite

LEMMA RenewWriteOK == ASSUME IInv, RenewWrite PROVE IInv'
<1> DEFINE index == Cardinality(setKeyPool) + 1
<1>1. index \in 1 .. made BY PoolFinite DEF RenewWrite, IInv, TypeOK, Pending
<1>2. index \notin setKeyPool BY PoolFinite DEF RenewWrite, IInv, LoopBounds
<1> QED BY <1>1, <1>2, AddToPoolOK DEF RenewWrite

\* The rest of ReserveKeyFromKeyPool, when no key is waiting to be written.
LEMMA TakeFirstOK ==
  ASSUME IInv, NEW t, op.pc \in {"free", "fill"}, op.key = 0, op' = Free,
         (t \in Thread /\ TakeFirst(t)) \/ UNCHANGED <<setKeyPool, held>>,
         UNCHANGED <<keys, crypted, unlocked, file, copy, made, ghosts>>
  PROVE  IInv'
<1> USE KeyPoolAssumption DEF IInv, ghosts
<1>f. /\ op'.pc = "free" /\ op'.who = Nobody /\ op'.key = 0
      /\ Current = file /\ Current' = file' /\ Pending = 0 /\ Pending' = 0
  BY DEF Current, Pending, Free
<1>g. \/ setKeyPool' \subseteq setKeyPool /\ held' = held
      \/ \E index \in setKeyPool :
            /\ t \in Thread
            /\ index \in DOMAIN file.pool /\ file.pool[index] \in keys
            /\ setKeyPool' = setKeyPool \ {index}
            /\ held' = [held EXCEPT ![t] = [index |-> index, key |-> file.pool[index]]]
  <2>1. CASE setKeyPool = {} BY <2>1 DEF TakeFirst
  <2>2. CASE setKeyPool # {}
    <3>1. setKeyPool \in SUBSET Nat BY DEF Numbered
    <3>2. Min(setKeyPool) \in setKeyPool BY <2>2, <3>1, MinInSet
    <3> QED BY <3>2 DEF TakeFirst, TakenOut
  <2> QED BY <2>1, <2>2
<1>1. TypeOK'
  <2>1. setKeyPool' \subseteq Key /\ held' \in [Thread -> [index : 0 .. MaxKey, key : 0 .. MaxKey]]
    <3>1. ASSUME NEW index \in setKeyPool, t \in Thread, file.pool[index] \in keys
          PROVE  [held EXCEPT ![t] = [index |-> index, key |-> file.pool[index]]]
                    \in [Thread -> [index : 0 .. MaxKey, key : 0 .. MaxKey]]
      <4>1. setKeyPool \subseteq 0 .. MaxKey /\ keys \subseteq 0 .. MaxKey BY DEF TypeOK, Key
      <4>2. index \in 0 .. MaxKey /\ file.pool[index] \in 0 .. MaxKey BY <3>1, <4>1
      <4> QED BY <4>2 DEF TypeOK
    <3> QED BY <1>g, <3>1 DEF TypeOK
  <2>2. op' \in [pc  : {"free", "fill", "erase", "renew", "rewrite", "copied", "removed"},
                 who : Thread \cup {Nobody}, key : 0 .. MaxKey] BY DEF Free
  <2> QED BY <2>1, <2>2 DEF TypeOK
<1>2. Files' BY <1>f DEF Files
<1>3. FileWhole(Current)' BY <1>f DEF FileWhole
<1>4. CopyOnce' BY <1>f DEF CopyOnce
<1>5. CASE setKeyPool' \subseteq setKeyPool /\ held' = held
  <2>1. Numbered' BY <1>f, <1>5 DEF Numbered, Holders
  <2>2. LoopBounds' BY <1>f DEF LoopBounds
  <2>3. KeyPlaces' BY <1>f, <1>5 DEF KeyPlaces, Holders
  <2>4. Reserved' BY <1>f, <1>5 DEF Reserved, Holders
  <2> QED BY <1>1, <1>2, <1>3, <1>4, <2>1, <2>2, <2>3, <2>4
<1>6. ASSUME NEW index \in setKeyPool, t \in Thread,
             index \in DOMAIN file.pool, file.pool[index] \in keys,
             setKeyPool' = setKeyPool \ {index},
             held' = [held EXCEPT ![t] = [index |-> index, key |-> file.pool[index]]]
      PROVE  IInv'
  <2>1. /\ held'[t].index = index /\ held'[t].key = file.pool[index]
        /\ \A s \in Thread \ {t} : held'[s] = held[s]
    BY <1>6 DEF TypeOK
  <2>2. Holders' \subseteq Holders \cup {t} BY <2>1 DEF Holders
  <2>3. Numbered' BY <1>f, <1>6, <2>1, <2>2 DEF Numbered, TypeOK, Key
  <2>4. LoopBounds' BY <1>f DEF LoopBounds
  <2>5. KeyPlaces' BY <1>f, <1>6, <2>1, <2>2 DEF KeyPlaces, FileWhole, Range
  <2>6. Reserved' BY <1>f, <1>6, <2>1, <2>2 DEF Reserved
  <2> QED BY <1>1, <1>2, <1>3, <1>4, <2>3, <2>4, <2>5, <2>6
<1> QED BY <1>g, <1>5, <1>6

LEMMA FillDoneOK == ASSUME IInv, FillDone PROVE IInv'
<1>1. op.who = Nobody \/ op.who \in Thread BY DEF IInv, TypeOK
<1> QED BY <1>1, TakeFirstOK DEF FillDone

LEMMA ReserveLockedOK == ASSUME IInv, NEW t \in Thread, ReserveLocked(t) PROVE IInv'
  BY TakeFirstOK DEF ReserveLocked, Free

LEMMA KeepOK == ASSUME IInv, NEW t \in Thread, Keep(t) PROVE IInv'
<1> USE KeyPoolAssumption DEF IInv
<1>f. /\ Current = file /\ Current' = file' /\ Pending' = Pending
      /\ UNCHANGED <<keys, crypted, unlocked, setKeyPool, op, copy, made, old, mixed>>
      /\ given' = given \cup {held[t].key}
      /\ t \in Holders /\ op.pc \notin {"copied", "removed"}
  BY DEF Keep, memory, Current, Pending, Holders
<1>h. /\ held' \in [Thread -> [index : 0 .. MaxKey, key : 0 .. MaxKey]]
      /\ Holders \subseteq Thread /\ Holders' = Holders \ {t}
      /\ \A s \in Thread \ {t} : held'[s] = held[s]
      /\ held'[t].index = 0 /\ held'[t].key = 0
  BY DEF Keep, TypeOK, Holders, Nothing
<1>w. /\ IsFile(file') /\ file'.master = file.master
      /\ file'.plain = file.plain /\ file'.crypted = file.crypted
      /\ DOMAIN file'.pool = DOMAIN file.pool \ {held[t].index}
      /\ \A i \in DOMAIN file'.pool : file'.pool[i] = file.pool[i]
  BY ErasedFacts DEF Keep, KeptFile, Files
<1>k. held[t].key \in keys /\ held[t].key # 0 BY <1>f DEF KeyPlaces, Numbered
<1>1. TypeOK'
  <2>1. file # NoFile /\ DOMAIN file'.pool \subseteq Key /\ Range(file'.pool) \subseteq Key
    BY <1>f, <1>w DEF TypeOK, Range, FileWhole
  <2> QED BY <1>f, <1>h, <1>w, <1>k, <2>1 DEF TypeOK
<1>2. Files' BY <1>f, <1>w, EmptyFiles DEF Files, FileWhole, TypeOK, Key
<1>3. FileWhole(Current)' BY <1>f, <1>w, <1>2 DEF FileWhole, KeysIn, Files, Range
<1>4. CopyOnce' BY <1>f DEF CopyOnce
<1>5. Numbered' BY <1>f, <1>h, <1>w, <1>k, PoolFinite DEF Numbered
<1>6. LoopBounds' BY <1>f DEF LoopBounds
<1>7. KeyPlaces' BY <1>f, <1>h, <1>w, <1>k DEF KeyPlaces, Range
<1>8. Reserved' BY <1>f, <1>h, <1>w DEF Reserved
<1> QED BY <1>1, <1>2, <1>3, <1>4, <1>5, <1>6, <1>7, <1>8

LEMMA ReturnOK == ASSUME IInv, NEW t \in Thread, Return(t) PROVE IInv'
<1> USE KeyPoolAssumption DEF IInv
<1>f. /\ Current = file /\ Current' = file' /\ Pending' = Pending
      /\ UNCHANGED <<keys, crypted, unlocked, op, file, copy, made, given, old, mixed>>
      /\ setKeyPool' = setKeyPool \cup {held[t].index}
      /\ t \in Holders /\ op.pc = "free"
  BY DEF Return, ghosts, Current, Pending, Holders, Free
<1>h. /\ held' \in [Thread -> [index : 0 .. MaxKey, key : 0 .. MaxKey]]
      /\ Holders \subseteq Thread /\ Holders' = Holders \ {t}
      /\ \A s \in Thread \ {t} : held'[s] = held[s]
      /\ held'[t].index = 0 /\ held'[t].key = 0
  BY DEF Return, TypeOK, Holders, Nothing
<1>1. TypeOK' BY <1>f, <1>h DEF TypeOK, Numbered, Key
<1>2. Files' BY <1>f DEF Files
<1>3. FileWhole(Current)' BY <1>f DEF FileWhole
<1>4. CopyOnce' BY <1>f DEF CopyOnce
<1>5. Numbered' BY <1>f, <1>h, PoolFinite DEF Numbered
<1>6. LoopBounds' BY <1>f DEF LoopBounds
<1>7. KeyPlaces' BY <1>f, <1>h DEF KeyPlaces
<1>8. Reserved' BY <1>f, <1>h DEF Reserved
<1> QED BY <1>1, <1>2, <1>3, <1>4, <1>5, <1>6, <1>7, <1>8

LEMMA EncryptWalletOK == ASSUME IInv, EncryptWallet PROVE IInv'
<1> USE KeyPoolAssumption DEF IInv
<1>f. /\ Current = file /\ Current' = file' /\ Pending = 0 /\ Pending' = 0
      /\ UNCHANGED <<keys, setKeyPool, held, copy, made, given, mixed>>
      /\ crypted' = TRUE /\ unlocked' = TRUE /\ old = {} /\ old' = keys /\ keys # {}
      /\ op.pc = "free" /\ op.key = 0 /\ op' = [pc |-> "erase", who |-> Nobody, key |-> 0]
      /\ made + Target <= MaxKey
  BY DEF EncryptWallet, Current, Pending, Free
<1>w. /\ IsFile(file') /\ file'.master /\ file'.plain = {} /\ file'.crypted = keys
      /\ file'.pool = file.pool
  BY EncryptedFacts DEF EncryptWallet, Files
<1>1. TypeOK'
  <2>1. /\ file # NoFile /\ file' # NoFile /\ file'.master \in BOOLEAN
        /\ DOMAIN file.pool \subseteq Key /\ Range(file.pool) \subseteq Key
    BY <1>f, <1>w, EmptyFiles DEF TypeOK, FileWhole, EncryptWallet, EncryptedFile
  <2> QED BY <1>f, <1>w, <2>1 DEF TypeOK
<1>2. Files' BY <1>f, <1>w, EmptyFiles DEF Files
<1>3. FileWhole(Current)' BY <1>f, <1>w, <1>2 DEF FileWhole, KeysIn, Files
<1>4. CopyOnce' BY <1>f DEF CopyOnce
<1>5. Numbered' BY <1>f, <1>w DEF Numbered, Holders
<1>6. LoopBounds' BY <1>f DEF LoopBounds
<1>7. KeyPlaces' BY <1>f, <1>w DEF KeyPlaces, Holders
<1>8. Reserved' BY <1>f, <1>w DEF Reserved, Holders
<1> QED BY <1>1, <1>2, <1>3, <1>4, <1>5, <1>6, <1>7, <1>8

LEMMA EraseOldOK == ASSUME IInv, EraseOld PROVE IInv'
<1> USE KeyPoolAssumption DEF IInv
<1>f. /\ Current = file /\ Current' = file' /\ Pending' = Pending
      /\ UNCHANGED <<keys, crypted, unlocked, setKeyPool, held, op, copy, made, given, old, mixed>>
      /\ op.pc = "erase"
  BY DEF EraseOld, memory, ghosts, Current, Pending
<1>w. PICK index \in setKeyPool :
      /\ IsFile(file') /\ file'.master = file.master
      /\ file'.plain = file.plain /\ file'.crypted = file.crypted
      /\ DOMAIN file'.pool = DOMAIN file.pool \ {index}
      /\ \A i \in DOMAIN file'.pool : file'.pool[i] = file.pool[i]
  BY ErasedFacts DEF EraseOld, Files
<1>1. TypeOK'
  <2>1. file # NoFile /\ DOMAIN file'.pool \subseteq Key /\ Range(file'.pool) \subseteq Key
    BY <1>f, <1>w DEF TypeOK, Range, FileWhole
  <2> QED BY <1>f, <1>w, <2>1 DEF TypeOK
<1>2. Files' BY <1>f, <1>w, EmptyFiles DEF Files, FileWhole, TypeOK, Key
<1>3. FileWhole(Current)' BY <1>f, <1>w, <1>2 DEF FileWhole, KeysIn, Files, Range
<1>4. CopyOnce' BY <1>f DEF CopyOnce
<1>5. Numbered' BY <1>f, <1>w DEF Numbered, Holders
<1>6. LoopBounds' BY <1>f DEF LoopBounds
<1>7. KeyPlaces' BY <1>f, <1>w DEF KeyPlaces, Range, Holders
<1>8. Reserved' BY <1>f, <1>w DEF Reserved, Holders
<1> QED BY <1>1, <1>2, <1>3, <1>4, <1>5, <1>6, <1>7, <1>8

LEMMA ErasedAllOK == ASSUME IInv, ErasedAll PROVE IInv'
<1> USE KeyPoolAssumption DEF IInv
<1>f. /\ Current = file /\ Current' = file' /\ Pending = 0 /\ Pending' = 0
      /\ UNCHANGED <<keys, crypted, unlocked, held, file, copy, made, given, old, mixed>>
      /\ setKeyPool' = {} /\ op.pc = "erase" /\ op' = [pc |-> "renew", who |-> op.who, key |-> 0]
  BY DEF ErasedAll, ghosts, Current, Pending, TypeOK, LoopBounds
<1>1. TypeOK' BY <1>f DEF TypeOK
<1>2. Files' BY <1>f DEF Files
<1>3. FileWhole(Current)' BY <1>f DEF FileWhole
<1>4. CopyOnce' BY <1>f DEF CopyOnce
<1>5. Numbered' BY <1>f DEF Numbered, Holders
<1>6. LoopBounds' BY <1>f, FS_EmptySet DEF LoopBounds, TypeOK
<1>7. KeyPlaces' BY <1>f DEF KeyPlaces, Holders
<1>8. Reserved' BY <1>f DEF Reserved, Holders
<1> QED BY <1>1, <1>2, <1>3, <1>4, <1>5, <1>6, <1>7, <1>8

LEMMA RenewDoneOK == ASSUME IInv, RenewDone PROVE IInv'
<1> USE KeyPoolAssumption DEF IInv
<1>f. /\ Current = file /\ Current' = file' /\ Pending = 0 /\ Pending' = 0
      /\ UNCHANGED <<keys, crypted, setKeyPool, held, file, copy, made, given, old, mixed>>
      /\ unlocked' = FALSE
      /\ op.pc = "renew" /\ op' = [pc |-> "rewrite", who |-> op.who, key |-> 0]
  BY DEF RenewDone, ghosts, Current, Pending, TypeOK
<1>1. TypeOK'
  <2>1. unlocked' \in BOOLEAN BY <1>f
  <2>2. op' \in [pc  : {"free", "fill", "erase", "renew", "rewrite", "copied", "removed"},
                 who : Thread \cup {Nobody}, key : 0 .. MaxKey] BY <1>f DEF TypeOK
  <2> QED BY <1>f, <2>1, <2>2 DEF TypeOK
<1>2. Files' BY <1>f DEF Files
<1>3. FileWhole(Current)' BY <1>f DEF FileWhole
<1>4. CopyOnce' BY <1>f DEF CopyOnce
<1>5. Numbered' BY <1>f DEF Numbered, Holders
<1>6. LoopBounds' BY <1>f DEF LoopBounds
<1>7. KeyPlaces' BY <1>f DEF KeyPlaces, Holders
<1>8. Reserved' BY <1>f DEF Reserved, Holders
<1> QED BY <1>1, <1>2, <1>3, <1>4, <1>5, <1>6, <1>7, <1>8

\* A step of CDB::Rewrite: the current file is the same one before and after.
LEMMA RewriteOK ==
  ASSUME IInv, RewriteCopy \/ RewriteRemove \/ RewriteRename
  PROVE  IInv'
<1> USE KeyPoolAssumption DEF IInv
<1>k. op.key = 0 BY DEF RewriteCopy, RewriteRemove, RewriteRename, LoopBounds
<1>f. /\ Current' = Current /\ Pending = 0 /\ Pending' = 0 /\ op'.key = 0
      /\ UNCHANGED <<keys, crypted, unlocked, setKeyPool, held, made, given, old, mixed>>
      /\ op.pc \in {"rewrite", "copied", "removed"} /\ op'.pc \in {"copied", "removed", "free"}
      /\ Current = file \/ Current = copy
  BY <1>k DEF RewriteCopy, RewriteRemove, RewriteRename, memory, ghosts, Current, Pending,
              TypeOK, CopyOnce, Free
<1>c. /\ op'.pc \in {"free", "copied"} => file' = Current
      /\ op'.pc \in {"copied", "removed"} => copy' = Current
      /\ op'.pc = "removed" => file' = NoFile
      /\ op'.pc = "free" => copy' = NoFile
      /\ op.pc = "rewrite" => copy = NoFile
      /\ op.pc # "rewrite" => copy = Current
  BY DEF RewriteCopy, RewriteRemove, RewriteRename, Current, TypeOK, CopyOnce, Free
<1>d. op' \in [pc  : {"free", "copied", "removed"}, who : Thread \cup {Nobody}, key : {0}]
  BY <1>f, <1>k DEF RewriteCopy, RewriteRemove, RewriteRename, TypeOK, Free
<1>1. TypeOK'
  <2>1. op' \in [pc  : {"free", "fill", "erase", "renew", "rewrite", "copied", "removed"},
                 who : Thread \cup {Nobody}, key : 0 .. MaxKey] BY <1>d
  <2>2. file' \in {file, copy, NoFile} /\ copy' \in {file, copy, NoFile}
    BY <1>f, <1>c
  <2> QED BY <1>f, <2>1, <2>2 DEF TypeOK
<1>2. Files' BY <1>f, <1>c, EmptyFiles DEF Files, FileWhole
<1>3. FileWhole(Current)' BY <1>f DEF FileWhole
<1>4. CopyOnce' BY <1>f, <1>c DEF CopyOnce
<1>5. Numbered' BY <1>f DEF Numbered, Holders
<1>6. LoopBounds' BY <1>f DEF LoopBounds
<1>7. KeyPlaces'
  <2>1. given \subseteq keys
    BY <1>c, EmptyFiles DEF KeyPlaces, KeysIn, FileWhole
  <2> QED BY <1>f, <2>1 DEF KeyPlaces, Holders
<1>8. Reserved' BY <1>f DEF Reserved, Holders
<1> QED BY <1>1, <1>2, <1>3, <1>4, <1>5, <1>6, <1>7, <1>8

\* FillThrows, Unlock and Lock, which change neither keys nor the pool.
LEMMA LockingOK ==
  ASSUME IInv, FillThrows \/ Unlock \/ Lock
  PROVE  IInv'
<1> USE KeyPoolAssumption DEF IInv
<1>f. /\ Current = file /\ Current' = file' /\ op'.key = op.key /\ Pending' = Pending
      /\ op.pc \in {"free", "fill"} /\ op'.pc \in {op.pc, "free"}
      /\ UNCHANGED <<keys, crypted, setKeyPool, held, file, copy, made, given, old, mixed>>
  BY DEF FillThrows, Unlock, Lock, memory, ghosts, Current, Pending, Free
<1>1. TypeOK'
  <2>1. op' \in [pc  : {"free", "fill", "erase", "renew", "rewrite", "copied", "removed"},
                 who : Thread \cup {Nobody}, key : 0 .. MaxKey]
    BY DEF FillThrows, Unlock, Lock, TypeOK, Free
  <2>2. unlocked' \in BOOLEAN
    <3>1. unlocked' = unlocked \/ unlocked' = TRUE \/ unlocked' = FALSE
      BY Zenon DEF FillThrows, Unlock, Lock, memory
    <3> QED BY <3>1 DEF TypeOK
  <2> QED BY <1>f, <2>1, <2>2 DEF TypeOK
<1>2. Files' BY <1>f DEF Files
<1>3. FileWhole(Current)' BY <1>f DEF FileWhole
<1>4. CopyOnce' BY <1>f DEF CopyOnce
<1>5. Numbered' BY <1>f DEF Numbered, Holders
<1>6. LoopBounds'
  <2>1. CASE FillThrows BY <2>1, <1>f DEF LoopBounds, FillThrows, Free
  <2>2. CASE Unlock \/ Lock
    <3>1. op' = op BY <2>2 DEF Unlock, Lock
    <3> QED BY <1>f, <3>1 DEF LoopBounds
  <2> QED BY <2>1, <2>2
<1>7. KeyPlaces' BY <1>f DEF KeyPlaces, Holders
<1>8. Reserved' BY <1>f DEF Reserved, Holders
<1> QED BY <1>1, <1>2, <1>3, <1>4, <1>5, <1>6, <1>7, <1>8

LEMMA RestartOK == ASSUME IInv, Restart PROVE IInv'
<1> USE KeyPoolAssumption DEF IInv
<1>f. /\ Current' = file' /\ Pending' = 0 /\ op'.key = 0 /\ op'.pc = "free"
      /\ file' = IF file = NoFile THEN NewFile ELSE file
      /\ keys' = KeysIn(file') /\ crypted' = (file'.crypted # {}) /\ unlocked' = FALSE
      /\ setKeyPool' = DOMAIN file'.pool /\ mixed' = FALSE
      /\ UNCHANGED <<copy, made, given, old>>
      /\ Holders' = {}
  BY DEF Restart, Current, Pending, Free, Holders
<1>n. file = NoFile <=> op.pc = "removed" BY DEF Files
<1>w. /\ file' # NoFile
      /\ file'.plain = {} \/ file'.crypted = {}
      /\ file'.master <=> file'.crypted # {}
      /\ Range(file'.pool) \subseteq KeysIn(file')
      /\ file'.plain \subseteq Key /\ file'.crypted \subseteq Key /\ file'.master \in BOOLEAN
      /\ DOMAIN file'.pool \subseteq Key /\ Range(file'.pool) \subseteq Key
      /\ IsFile(file')
  <2>1. CASE file = NoFile
    <3>1. NewFile # NoFile BY EmptyFiles
    <3> QED BY <1>f, <2>1, <3>1, EmptyFiles DEF Range
  <2>2. CASE file # NoFile
    BY <1>f, <1>n, <2>2 DEF FileWhole, Current, Files, TypeOK
  <2> QED BY <2>1, <2>2
<1>1. TypeOK'
  <2>1. op' \in [pc  : {"free", "fill", "erase", "renew", "rewrite", "copied", "removed"},
                 who : Thread \cup {Nobody}, key : 0 .. MaxKey]
    BY DEF Restart, Free
  <2>2. held' \in [Thread -> [index : 0 .. MaxKey, key : 0 .. MaxKey]]
    BY DEF Restart, Nothing
  <2>3. keys' \subseteq Key BY <1>f, <1>w DEF KeysIn
  <2> QED BY <1>f, <1>w, <2>1, <2>2, <2>3 DEF TypeOK
<1>2. Files' BY <1>f, <1>w DEF Files
<1>3. FileWhole(Current)' BY <1>f, <1>w DEF FileWhole
<1>4. CopyOnce' BY <1>f DEF CopyOnce, TypeOK
<1>5. Numbered'
  <2>1. made \in Nat /\ made - Pending <= made BY PoolFinite DEF TypeOK, Pending
  <2>2. keys' \subseteq keys
    BY <1>f, <1>n, EmptyFiles DEF KeysIn, FileWhole, Current
  <2>3. setKeyPool' \subseteq DOMAIN Current.pool BY <1>f, <1>n, EmptyFiles DEF Current
  <2>4. \A t \in Thread : held'[t].index = 0 BY DEF Restart, Nothing
  <2> QED BY <1>f, <2>1, <2>2, <2>3, <2>4, PoolFinite DEF Numbered
<1>6. LoopBounds' BY <1>f DEF LoopBounds
<1>7. KeyPlaces'
  <2>1. given \subseteq keys' \cup KeysIn(copy)
    <3>1. CASE op.pc = "removed" BY <1>f, <3>1 DEF KeyPlaces, FileWhole, Current
    <3>2. CASE op.pc # "removed" BY <1>f, <1>n, <3>2 DEF KeyPlaces, FileWhole, Current
    <3> QED BY <3>1, <3>2
  <2>2. \/ DOMAIN file'.pool = {}
        \/ file' = Current
    BY <1>f, <1>n, EmptyFiles DEF Current
  <2> QED BY <1>f, <2>1, <2>2 DEF KeyPlaces, Range, KeysIn
<1>8. Reserved' BY <1>f DEF Reserved
<1> QED BY <1>1, <1>2, <1>3, <1>4, <1>5, <1>6, <1>7, <1>8

LEMMA NextOK == IInv /\ [Next]_vars => IInv'
<1> SUFFICES ASSUME IInv, [Next]_vars PROVE IInv' OBVIOUS
<1>1. CASE UNCHANGED vars
  <2> USE <1>1 DEF vars, memory, ghosts
  <2>1. TypeOK' BY DEF IInv, TypeOK
  <2>2. Files' BY DEF IInv, Files
  <2>3. Current' = Current /\ Pending' = Pending /\ Holders' = Holders
    BY DEF Current, Pending, Holders
  <2>4. FileWhole(Current)' BY <2>3 DEF IInv, FileWhole
  <2>5. CopyOnce' BY DEF IInv, CopyOnce
  <2>6. Numbered' BY <2>3 DEF IInv, Numbered
  <2>7. LoopBounds' BY <2>3 DEF IInv, LoopBounds
  <2>8. KeyPlaces' BY <2>3 DEF IInv, KeyPlaces
  <2>9. Reserved' BY <2>3 DEF IInv, Reserved
  <2> QED BY <2>1, <2>2, <2>4, <2>5, <2>6, <2>7, <2>8, <2>9 DEF IInv
<1>2. CASE Next
  BY <1>2, StartFillOK, FillNewKeyOK, FillWriteOK, FillDoneOK, ReserveLockedOK, KeepOK, ReturnOK,
     EncryptWalletOK, EraseOldOK, ErasedAllOK, RenewKeyOK, RenewWriteOK, RenewDoneOK,
     RewriteOK, LockingOK, RestartOK DEF Next
<1> QED BY <1>1, <1>2

----------------------------------------------------------------------------
(* The theorems *)

(***************************************************************************)
(* The invariant holds in every state: at each write to wallet.dat, at     *)
(* each step of the encryption and after each restart.                     *)
(***************************************************************************)
THEOREM KeyPoolInvariant == Spec => []IInv
  BY InitOK, NextOK, PTL DEF Spec

(***************************************************************************)
(* Wherever the process dies, in a loop of TopUpKeyPool or NewKeyPool, in  *)
(* the encryption or between the steps of CDB::Rewrite, every key that was *)
(* used or reserved is in wallet.dat or wallet.dat.rewrite, with the       *)
(* master key that it needs.                                               *)
(***************************************************************************)
THEOREM KeysAlwaysSaved == Spec => []KeysSaved
<1>1. IInv => KeysSaved
  <2> SUFFICES ASSUME IInv PROVE KeysSaved OBVIOUS
  <2>1. keys \subseteq KeysIn(file) \cup KeysIn(copy) BY DEF IInv, FileWhole, Current
  <2> QED BY <2>1 DEF IInv, KeyPlaces, KeysSaved
<1> QED BY <1>1, KeyPoolInvariant, PTL

(***************************************************************************)
(* The file never holds plain keys beside encrypted ones, and is encrypted *)
(* exactly when the wallet in memory is, with the same keys.               *)
(***************************************************************************)
THEOREM FileEncryptedWhole == Spec => []EncryptedWhole
<1>1. IInv => EncryptedWhole
  BY DEF IInv, EncryptedWhole, FileWhole, Files, Current
<1> QED BY <1>1, KeyPoolInvariant, PTL

(***************************************************************************)
(* Two threads never have the same key of the pool and a used key is not   *)
(* given out again, unless NewKeyPool or TopUpKeyPool wrote an index that  *)
(* was reserved.                                                           *)
(***************************************************************************)
THEOREM KeysUsedOnce == Spec => []KeysApart
<1>1. IInv => KeysApart
  <2> SUFFICES ASSUME IInv, ~mixed PROVE UsedOnce BY DEF KeysApart
  <2>1. \A t \in Holders : /\ held[t].key \in Range(Current.pool)
                           /\ held[t].index \notin setKeyPool
    BY DEF IInv, Reserved, Range
  <2>2. \A s, t \in Holders : s # t => held[s].key # held[t].key
    BY DEF IInv, Reserved, KeyPlaces
  <2>3. file # NoFile => Range(file.pool) \cap given = {}
    BY DEF IInv, KeyPlaces, Files, Current
  <2> QED BY <2>1, <2>2, <2>3 DEF UsedOnce, IInv, KeyPlaces
<1> QED BY <1>1, KeyPoolInvariant, PTL

(***************************************************************************)
(* Of the two exceptions of ReserveKeyFromKeyPool, "unknown key in key     *)
(* pool" is never thrown: every record is of a key that the wallet has.    *)
(* "read failed" is not thrown as long as no index has been written while  *)
(* it was reserved (~mixed); after that the record of an index of          *)
(* setKeyPool may be gone, and it is (UsedOnce).                           *)
(***************************************************************************)
THEOREM PoolAlwaysUsable == Spec => []PoolUsable
<1>1. IInv => PoolUsable
  <2> SUFFICES ASSUME IInv PROVE PoolUsable OBVIOUS
  <2>1. PoolKeysKnown BY DEF IInv, PoolKeysKnown, FileWhole, Files, Current
  <2>2. PoolReadable BY DEF IInv, PoolReadable, Reserved, Current
  <2> QED BY <2>1, <2>2 DEF PoolUsable, IInv
<1> QED BY <1>1, KeyPoolInvariant, PTL
===============================================================================
