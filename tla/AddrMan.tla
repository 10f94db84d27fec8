-------------------------------- MODULE AddrMan --------------------------------
(***************************************************************************)
(* The address manager of addrman.cpp and addrman.h: addresses in the      *)
(* "new" and "tried" tables, their reference counts and indexes, and what  *)
(* Serialize and Unserialize make of them across a restart.                *)
(*                                                                         *)
(* Every operation runs under cs.  The hash functions that choose buckets  *)
(* and positions are constants; so is nKey, which is saved with the        *)
(* tables.  Times, counts of attempts and the tests on them (IsTerrible,   *)
(* fresh information, the stochastic test of Add_) are choices.  Ports are *)
(* left out: an address with another port is looked up and left alone.     *)
(***************************************************************************)
EXTENDS Integers, SequencesExt

CONSTANTS
    Addr, Source,
    Bucket,       \* ADDRMAN_NEW_BUCKET_COUNT of them, numbered
    Slots,        \* ADDRMAN_BUCKET_SIZE
    GetNewBucket,    \* [Addr \X Source -> Bucket]
    GetNewPosition,  \* [Addr \X Bucket -> 1 .. Slots]
    TriedSlot, GetTriedSlot,   \* the slots of the tried table, bucket and position in one
    MaxRefs,      \* ADDRMAN_NEW_BUCKETS_PER_ADDRESS
    MaxId         \* bound: ids handed out between two restarts

ASSUME AddrManAssumption ==
    /\ Bucket \subseteq Nat /\ IsFiniteSet(Bucket) /\ Slots \in Nat \ {0}
    /\ GetNewBucket \in [Addr \X Source -> Bucket]
    /\ GetNewPosition \in [Addr \X Bucket -> 1 .. Slots]
    /\ GetTriedSlot \in [Addr -> TriedSlot]
    /\ MaxRefs \in Nat \ {0} /\ MaxId \in Nat

Nobody == -1

VARIABLES
    man,    \* the CAddrMan
    disk    \* peers.dat

addrVars == <<man, disk>>

NewSlot == Bucket \X (1 .. Slots)
Id      == 0 .. (MaxId - 1)

Info == [addr : Addr, source : Source, ref : Int, tried : BOOLEAN, rnd : Nat]

\* Clear()
Empty == [info |-> <<>>, addr |-> [a \in Addr |-> Nobody], random |-> <<>>,
          new |-> [s \in NewSlot |-> Nobody], tried |-> [s \in TriedSlot |-> Nobody],
          nNew |-> 0, nTried |-> 0, ids |-> 0]

Typed(m) ==
    /\ m.ids \in 0 .. MaxId
    /\ DOMAIN m.info \subseteq 0 .. (m.ids - 1) /\ \A i \in DOMAIN m.info : m.info[i] \in Info
    /\ m.addr \in [Addr -> Id \cup {Nobody}]
    /\ m.random \in Seq(DOMAIN m.info)
    /\ m.new \in [NewSlot -> DOMAIN m.info \cup {Nobody}]
    /\ m.tried \in [TriedSlot -> DOMAIN m.info \cup {Nobody}]
    /\ m.nNew \in Nat /\ m.nTried \in Nat

----------------------------------------------------------------------------
(* The parts that operations are made of. *)

Position(a, b) == <<b, GetNewPosition[a, b]>>

Create(m, a, s) ==
    [m EXCEPT !.info = [i \in DOMAIN @ \cup {m.ids} |->
                           IF i = m.ids
                           THEN [addr |-> a, source |-> s, ref |-> 0, tried |-> FALSE,
                                 rnd |-> Len(m.random) + 1]
                           ELSE @[i]],
              !.addr[a] = m.ids, !.random = Append(@, m.ids), !.ids = @ + 1]

SwapRandom(m, p, q) ==
    [m EXCEPT !.random = [@ EXCEPT ![p] = m.random[q], ![q] = m.random[p]],
              !.info = [i \in DOMAIN @ |->
                           IF i = m.random[p] THEN [@[i] EXCEPT !.rnd = q]
                           ELSE IF i = m.random[q] THEN [@[i] EXCEPT !.rnd = p] ELSE @[i]]]

Delete(m, i) ==
    LET s == SwapRandom(m, m.info[i].rnd, Len(m.random))
    IN  [s EXCEPT !.random = Front(@), !.addr[m.info[i].addr] = Nobody,
                  !.info = [j \in DOMAIN @ \ {i} |-> @[j]], !.nNew = @ - 1]

ForgetSlot(m, slot) ==  \* mutant: the reference count is left alone
    IF m.new[slot] = Nobody THEN m ELSE [m EXCEPT !.new[slot] = Nobody]

DeleteAnyway(m, slot) ==  \* mutant: an entry is deleted although other buckets refer to it
    IF m.new[slot] = Nobody THEN m ELSE Delete([m EXCEPT !.new[slot] = Nobody], m.new[slot])

ClearNew(m, slot) ==
    LET i == m.new[slot]
        c == [m EXCEPT !.new[slot] = Nobody, !.info[i].ref = @ - 1]
    IN  IF i = Nobody THEN m ELSE IF c.info[i].ref = 0 THEN Delete(c, i) ELSE c

\* references that MakeTried takes out of the new table
NewSlotsOf(m, i) == {s \in NewSlot : m.new[s] = i /\ s = Position(m.info[i].addr, s[1])}

\* the entry that has to make room goes back to the new table
Evict(m, i) ==
    LET e == m.info[i]
        slot == Position(e.addr, GetNewBucket[e.addr, e.source])
        c == ClearNew([m EXCEPT !.info[i].tried = FALSE,
                                !.tried[GetTriedSlot[e.addr]] = Nobody, !.nTried = @ - 1], slot)
    IN  [c EXCEPT !.info[i].ref = 1, !.new[slot] = i, !.nNew = @ + 1]

MakeTried(m, i) ==
    LET from == NewSlotsOf(m, i)
        out  == [m EXCEPT !.new = [s \in NewSlot |-> IF s \in from THEN Nobody ELSE @[s]],
                          !.info[i].ref = @ - Cardinality(from), !.nNew = @ - 1]
        slot == GetTriedSlot[m.info[i].addr]
        room == IF out.tried[slot] = Nobody THEN out ELSE Evict(out, out.tried[slot])
    IN  [room EXCEPT !.tried[slot] = i, !.nTried = @ + 1, !.info[i].tried = TRUE]

----------------------------------------------------------------------------
(* The operations. *)

(***************************************************************************)
(* Add_, when the tests on times let it go on.  terrible: IsTerrible says  *)
(* so of the entry that is in the way.                                     *)
(***************************************************************************)
Add(a, s, terrible) ==
    LET known == man.addr[a] # Nobody
        m     == IF known THEN man ELSE [Create(man, a, s) EXCEPT !.nNew = @ + 1]
        i     == m.addr[a]
        slot  == Position(a, GetNewBucket[a, s])
        other == m.new[slot]
        room  == \/ other = Nobody \/ terrible
                 \/ m.info[other].ref > 1 /\ m.info[i].ref = 0
        put   == [ClearNew(m, slot) EXCEPT !.info[i].ref = @ + 1, !.new[slot] = i]
    IN
    /\ IF known THEN ~m.info[i].tried /\ m.info[i].ref # MaxRefs ELSE man.ids < MaxId
    /\ other # i
    /\ man' = IF room THEN put ELSE IF m.info[i].ref = 0 THEN Delete(m, i) ELSE m
    /\ UNCHANGED disk

\* Good_, for an address that is not in tried yet
Good(a) ==
    LET i == man.addr[a]
    IN
    /\ i # Nobody
    /\ ~man.info[i].tried /\ NewSlotsOf(man, i) # {}
    /\ man' = MakeTried(man, i)
    /\ UNCHANGED disk

\* GetAddr_: the first n places of vRandom are filled at random, one after the other.
\* How many is a choice: at most 23 % of the entries, and those that are terrible on the way
GetAddr(n, at) ==
    /\ \A k \in 1 .. n : at[k] \in k .. Len(man.random)
    /\ man' = FoldLeft(LAMBDA m, k : IF k = at[k] THEN m ELSE SwapRandom(m, k, at[k]),
                       man, [k \in 1 .. n |-> k])
    /\ UNCHANGED disk

----------------------------------------------------------------------------
(* peers.dat. *)

\* the numbers of a set, the smallest first
Nth(S, k)  == CHOOSE i \in S : Cardinality({j \in S : j < i}) = k - 1
InOrder(S) == [k \in 1 .. Cardinality(S) |-> Nth(S, k)]

IdItself(m, i) == i  \* mutant: ids go into the file as they are

\* the place of an entry among those of new
mapUnkIds(m, i) == Cardinality({j \in DOMAIN m.info : m.info[j].ref # 0 /\ j < i})

(***************************************************************************)
(* Serialize: the entries of new and of tried in the order of their ids,   *)
(* and for each bucket the places of its entries among those of new.       *)
(***************************************************************************)
Serialize(m) ==
    LET entry(i)  == [addr |-> m.info[i].addr, source |-> m.info[i].source]
        newIds    == InOrder({i \in DOMAIN m.info : m.info[i].ref # 0})
        triedIds  == InOrder({i \in DOMAIN m.info : m.info[i].tried})
        place(i)  == mapUnkIds(m, i)
        filled(b) == InOrder({p \in 1 .. Slots : m.new[<<b, p>>] # Nobody})
    IN  [new     |-> [k \in DOMAIN newIds |-> entry(newIds[k])],
         tried   |-> [k \in DOMAIN triedIds |-> entry(triedIds[k])],
         buckets |-> [b \in Bucket |-> [k \in DOMAIN filled(b) |-> place(m.new[<<b, filled(b)[k]>>])]]]

LoadNew(m, e) == Create(m, e.addr, e.source)

LoadTried(m, e) ==
    IF m.tried[GetTriedSlot[e.addr]] # Nobody THEN [m EXCEPT !.nTried = @ - 1]
    ELSE LET c == Create(m, e.addr, e.source)
         IN  [c EXCEPT !.info[m.ids].tried = TRUE, !.tried[GetTriedSlot[e.addr]] = m.ids]

LoadRef(m, b, i) ==
    IF i < m.nNew /\ m.new[Position(m.info[i].addr, b)] = Nobody /\ m.info[i].ref < MaxRefs
    THEN [m EXCEPT !.info[i].ref = @ + 1, !.new[Position(m.info[i].addr, b)] = i]
    ELSE m

LoadAllNew(m, entries)   == FoldLeft(LoadNew, m, entries)
LoadAllTried(m, entries) == FoldLeft(LoadTried, m, entries)
LoadBucket(m, b, places) == FoldLeft(LAMBDA n, i : LoadRef(n, b, i), m, places)
LoadBuckets(m, buckets)  == FoldLeft(LAMBDA n, b : LoadBucket(n, b, buckets[b]), m, InOrder(Bucket))

\* entries of new that no bucket had room for
DeleteLost(m) ==
    FoldLeft(Delete, m, InOrder({i \in DOMAIN m.info : ~m.info[i].tried /\ m.info[i].ref = 0}))

Unserialize(file) ==
    LET new   == LoadAllNew([Empty EXCEPT !.nNew = Len(file.new)], file.new)
        tried == LoadAllTried([new EXCEPT !.nTried = Len(file.tried)], file.tried)
    IN  DeleteLost(LoadBuckets(tried, file.buckets))

\* DumpAddresses, now and then: a new file is put in the place of the old one
Save == disk' = Serialize(man) /\ UNCHANGED man

\* the node starts again, after a crash or after a last Save
Restart == man' = Unserialize(disk) /\ UNCHANGED disk

AddrInit == man = Empty /\ disk = Serialize(Empty)

AddrNext ==
    \/ \E a \in Addr, s \in Source, terrible \in BOOLEAN : Add(a, s, terrible)
    \/ \E a \in Addr : Good(a)
    \/ \E n \in 1 .. Len(man.random) :
          \E at \in [1 .. n -> 1 .. Len(man.random)] : GetAddr(n, at)
    \/ Save
    \/ Restart

AddrSpec == AddrInit /\ [][AddrNext]_addrVars

----------------------------------------------------------------------------
(* Properties. *)

(***************************************************************************)
(* nRefCount of an entry is the number of its places in the new table,     *)
(* each the one its address belongs to in that bucket; an entry outside    *)
(* tried has from 1 to ADDRMAN_NEW_BUCKETS_PER_ADDRESS.  The assertions in *)
(* ClearNew, Delete and MakeTried, and Check_, rest on it.                 *)
(***************************************************************************)
RefsExact(m) ==
    \A i \in DOMAIN m.info :
        /\ m.info[i].ref = Cardinality({s \in NewSlot : m.new[s] = i})
        /\ {s \in NewSlot : m.new[s] = i} = NewSlotsOf(m, i)
        /\ ~m.info[i].tried => m.info[i].ref \in 1 .. MaxRefs

(***************************************************************************)
(* Exactly the entries marked fInTried are in the tried table, each in the *)
(* slot of its address, and none of them is in the new table.              *)
(***************************************************************************)
TriedExact(m) ==
    /\ \A i \in DOMAIN m.info : m.info[i].tried <=> m.tried[GetTriedSlot[m.info[i].addr]] = i
    /\ \A s \in TriedSlot : m.tried[s] # Nobody => GetTriedSlot[m.info[m.tried[s]].addr] = s
    /\ \A i \in DOMAIN m.info : m.info[i].tried => m.info[i].ref = 0

(***************************************************************************)
(* vRandom lists every entry once, at the place the entry says, mapAddr    *)
(* leads to it, and nNew and nTried count both kinds.                      *)
(***************************************************************************)
IndexesExact(m) ==
    /\ Len(m.random) = Cardinality(DOMAIN m.info)
    /\ \A i \in DOMAIN m.info :
          /\ m.info[i].rnd \in DOMAIN m.random /\ m.random[m.info[i].rnd] = i
          /\ m.addr[m.info[i].addr] = i
    /\ \A a \in Addr : m.addr[a] \in DOMAIN m.info \cup {Nobody}
    /\ \A a \in Addr : m.addr[a] # Nobody => m.info[m.addr[a]].addr = a
    /\ m.nTried = Cardinality({i \in DOMAIN m.info : m.info[i].tried})
    /\ m.nNew = Cardinality(DOMAIN m.info) - m.nTried

Exact(m) == Typed(m) /\ RefsExact(m) /\ TriedExact(m) /\ IndexesExact(m)

(***************************************************************************)
(* What CAddrMan::Check_ tests, which the code only runs when it is built  *)
(* with DEBUG_ADDRMAN: the counts, both tables and the three indexes       *)
(* describe the same set of addresses.                                     *)
(***************************************************************************)
TablesExact == Exact(man)

Addresses(m) ==
    [new   |-> [s \in NewSlot |-> {m.info[i].addr : i \in {m.new[s]} \ {Nobody}}],
     tried |-> [s \in TriedSlot |-> {m.info[i].addr : i \in {m.tried[s]} \ {Nobody}}],
     from  |-> {<<m.info[i].addr, m.info[i].source>> : i \in DOMAIN m.info}]

(***************************************************************************)
(* What is saved at any moment loads again: the same addresses, in the     *)
(* same places of both tables and with the same sources, although ids and  *)
(* the tried table are not in the file.                                    *)
(***************************************************************************)
SavedLoads ==
    /\ Addresses(Unserialize(Serialize(man))) = Addresses(man)
    /\ LET m == Unserialize(Serialize(man)) IN m.nNew = man.nNew /\ m.nTried = man.nTried

(***************************************************************************)
(* Except for a restart, an address is only ever forgotten from the new    *)
(* table, and only when its last reference there is taken away: one that   *)
(* is evicted from tried is in new afterwards.                             *)
(***************************************************************************)
ForgottenLast ==
    [][Restart \/ \A a \in Addr :
          (man.addr[a] # Nobody /\ man'.addr[a] = Nobody)
          => ~man.info[man.addr[a]].tried /\ man.info[man.addr[a]].ref = 1]_addrVars
===============================================================================
