------------------------- MODULE BlockDownloadProofs --------------------------
(***************************************************************************)
(* Proofs about BlockDownload, for any peers, any tree of blocks, any      *)
(* window and any number of blocks in transit: the books of what is in     *)
(* flight agree, nothing in flight is asked for again, and every block up  *)
(* to pindexLastCommonBlock is stored.                                     *)
(***************************************************************************)
EXTENDS BlockDownload, FiniteSetTheorems, NaturalsInduction, SequenceTheorems,
        WellFoundedInduction, TLAPS

----------------------------------------------------------------------------
(* Lists *)

\* Nth counts through a finite set of numbers
LEMMA NthCounts ==
  ASSUME NEW S \in SUBSET Nat, IsFiniteSet(S)
  PROVE  /\ Cardinality(S) \in Nat
         /\ \A i \in 1 .. Cardinality(S) :
               Nth(S, i) \in S /\ Cardinality({j \in S : j < Nth(S, i)}) = i - 1
         /\ \A h \in S : \E i \in 1 .. Cardinality(S) : Nth(S, i) = h
<1> DEFINE below(h) == {j \in S : j < h}
           n == Cardinality(S)
           rank == [h \in S |-> Cardinality(below(h)) + 1]
<1>n. n \in Nat BY FS_CardinalityType
<1>1. \A h \in S : IsFiniteSet(below(h)) /\ Cardinality(below(h)) \in Nat
  <2> TAKE h \in S
  <2>1. below(h) \in SUBSET S OBVIOUS
  <2>2. IsFiniteSet(below(h)) BY <2>1, FS_Subset
  <2> QED BY <2>2, FS_CardinalityType
<1>2. ASSUME NEW h \in S PROVE Cardinality(below(h)) + 1 \in 1 .. n
  <2>1. below(h) \in SUBSET (S \ {h}) OBVIOUS
  <2>2. IsFiniteSet(S \ {h}) /\ Cardinality(S \ {h}) = n - 1 BY FS_RemoveElement
  <2>3. Cardinality(below(h)) <= n - 1 BY <2>1, <2>2, FS_Subset
  <2> QED BY <2>3, <1>1, <1>n
<1>3. ASSUME NEW h \in S, NEW k \in S, h < k PROVE Cardinality(below(h)) < Cardinality(below(k))
  <2>0. h \in Nat /\ k \in Nat OBVIOUS
  <2>a. ASSUME NEW j \in below(h) PROVE j \in below(k)
    <3>1. j \in S /\ j \in Nat /\ j < h OBVIOUS
    <3> QED BY <3>1, <2>0, <1>3
  <2>b. h \in below(k) BY <1>3
  <2>c. h \notin below(h)
    <3>1. ~(h < h) BY <2>0
    <3> QED BY <3>1
  <2>1. below(h) \in SUBSET below(k) /\ h \in below(k) /\ h \notin below(h) BY <2>a, <2>b, <2>c
  <2>2. Cardinality(below(h)) <= Cardinality(below(k)) BY <2>1, <1>1, FS_Subset
  <2>3. Cardinality(below(h)) # Cardinality(below(k)) BY <2>1, <1>1, FS_Subset
  <2> QED BY <2>2, <2>3, <1>1
<1>4. rank \in Injection(S, 1 .. n)
  <2>1. rank \in [S -> 1 .. n] BY <1>2
  <2>2. ASSUME NEW h \in S, NEW k \in S, h # k PROVE rank[h] # rank[k]
    <3>1. h < k \/ k < h BY <2>2
    <3> HIDE DEF below
    <3> QED BY <3>1, <1>3, <1>1
  <2> QED BY <2>1, <2>2 DEF Injection, IsInjective
<1>5. IsFiniteSet(1 .. n) /\ Cardinality(1 .. n) = n BY <1>n, FS_Interval
<1>6. rank \in Surjection(S, 1 .. n) BY <1>4, <1>5, FS_Injection
<1>7. ASSUME NEW i \in 1 .. n PROVE Nth(S, i) \in S /\ Cardinality(below(Nth(S, i))) = i - 1
  <2>1. PICK h \in S : rank[h] = i BY <1>6 DEF Surjection
  <2>2. Cardinality(below(h)) = i - 1 BY <2>1, <1>1, <1>n
  <2> QED BY <2>2 DEF Nth
<1>8. ASSUME NEW h \in S PROVE \E i \in 1 .. n : Nth(S, i) = h
  <2>1. rank[h] \in 1 .. n BY <1>2
  <2>2. Nth(S, rank[h]) \in S /\ Cardinality(below(Nth(S, rank[h]))) = rank[h] - 1 BY <2>1, <1>7
  <2>3. Cardinality(below(Nth(S, rank[h]))) = Cardinality(below(h)) BY <2>2, <1>1
  <2>4. Nth(S, rank[h]) = h
    <3> DEFINE k == Nth(S, rank[h])
    <3>0. k \in S /\ Cardinality(below(k)) = Cardinality(below(h)) BY <2>2, <2>3
    <3> HIDE DEF k
    <3>1. ~(k < h) /\ ~(h < k)
      <4> HIDE DEF below
      <4> QED BY <3>0, <1>3, <1>1
    <3>2. k \in Nat /\ h \in Nat BY <3>0
    <3>3. k = h BY <3>1, <3>2
    <3> QED BY <3>3 DEF k
  <2> QED BY <2>1, <2>4
<1> QED BY <1>n, <1>7, <1>8

\* the length of a list without repetition
LEMMA DistinctLength ==
  ASSUME NEW T, NEW q \in Seq(T), \A i, j \in DOMAIN q : q[i] = q[j] => i = j
  PROVE  IsFiniteSet(Range(q)) /\ Cardinality(Range(q)) = Len(q)
<1>1. Len(q) \in Nat /\ DOMAIN q = 1 .. Len(q) OBVIOUS
<1>2. q \in Surjection(1 .. Len(q), Range(q)) BY <1>1 DEF Surjection, Range
<1>3. q \in Injection(1 .. Len(q), Range(q)) BY <1>1, <1>2 DEF Surjection, Injection, IsInjective
<1>4. IsFiniteSet(1 .. Len(q)) /\ Cardinality(1 .. Len(q)) = Len(q) BY <1>1, FS_Interval
<1> QED BY <1>2, <1>3, <1>4, FS_Surjection

LEMMA RangeFinite ==
  ASSUME NEW T, NEW q \in Seq(T)
  PROVE  IsFiniteSet(Range(q)) /\ Range(q) \subseteq T
<1>1. Len(q) \in Nat /\ DOMAIN q = 1 .. Len(q) OBVIOUS
<1>2. q \in Surjection(1 .. Len(q), Range(q)) BY <1>1 DEF Surjection, Range
<1>4. IsFiniteSet(1 .. Len(q)) BY <1>1, FS_Interval
<1> QED BY <1>2, <1>4, FS_Surjection DEF Range

LEMMA WithoutList ==
  ASSUME NEW T, NEW q \in Seq(T), NEW gone
  PROVE  /\ Without(q, gone) \in Seq(T)
         /\ Range(Without(q, gone)) = Range(q) \ gone
         /\ (\A i, j \in DOMAIN q : q[i] = q[j] => i = j) =>
               \A i, j \in DOMAIN Without(q, gone) :
                  Without(q, gone)[i] = Without(q, gone)[j] => i = j
<1> DEFINE kept == {i \in DOMAIN q : q[i] \notin gone}
           n == Cardinality(kept)
           w == Without(q, gone)
<1>1. Len(q) \in Nat /\ DOMAIN q = 1 .. Len(q) /\ \A i \in DOMAIN q : q[i] \in T OBVIOUS
<1>2. kept \in SUBSET Nat /\ IsFiniteSet(kept)
  <2>1. kept \in SUBSET (1 .. Len(q)) BY <1>1
  <2>2. IsFiniteSet(1 .. Len(q)) BY <1>1, FS_Interval
  <2> QED BY <2>1, <2>2, <1>1, FS_Subset
<1>3. w = [i \in 1 .. n |-> q[Nth(kept, i)]] BY DEF Without
<1>4. /\ n \in Nat /\ \A i \in 1 .. n : Nth(kept, i) \in kept
      /\ \A h \in kept : \E i \in 1 .. n : Nth(kept, i) = h
  BY <1>2, NthCounts
<1>5. \A i, j \in 1 .. n : Nth(kept, i) = Nth(kept, j) => i = j
  <2> SUFFICES ASSUME NEW i \in 1 .. n, NEW j \in 1 .. n, Nth(kept, i) = Nth(kept, j) PROVE i = j
    OBVIOUS
  <2> HIDE DEF kept
  <2>1. i - 1 = j - 1 BY <1>2, NthCounts
  <2> QED BY <2>1, <1>4
<1>6. \A h \in kept : h \in DOMAIN q /\ q[h] \notin gone OBVIOUS
<1>7. \A h \in DOMAIN q : q[h] \notin gone => h \in kept OBVIOUS
<1> HIDE DEF kept, n, w
<1>8. w \in Seq(T)
  <2>1. \A i \in 1 .. n : q[Nth(kept, i)] \in T BY <1>1, <1>4, <1>6
  <2> QED BY <2>1, <1>3, <1>4
<1>9. Range(w) = Range(q) \ gone
  <2>1. ASSUME NEW e \in Range(w) PROVE e \in Range(q) \ gone
    BY <1>3, <1>4, <1>6 DEF Range
  <2>2. ASSUME NEW e \in Range(q) \ gone PROVE e \in Range(w)
    <3>1. PICK h \in DOMAIN q : q[h] = e BY DEF Range
    <3>2. h \in kept BY <3>1, <1>7
    <3>3. PICK i \in 1 .. n : Nth(kept, i) = h BY <3>2, <1>4
    <3> QED BY <3>1, <3>3, <1>3 DEF Range
  <2> QED BY <2>1, <2>2
<1>10. ASSUME \A i, j \in DOMAIN q : q[i] = q[j] => i = j, NEW i \in DOMAIN w, NEW j \in DOMAIN w,
              w[i] = w[j]
       PROVE  i = j
  BY <1>10, <1>3, <1>4, <1>5, <1>6
<1> QED BY <1>8, <1>9, <1>10 DEF w

----------------------------------------------------------------------------
(* The books *)

Entry == [hash : Block, valid : BOOLEAN]

\* the list of one peer and its counters
QueueOK(s, p, fl) ==
    /\ \A i, j \in DOMAIN s.queue : s.queue[i].hash = s.queue[j].hash => i = j
    /\ \A e \in Range(s.queue) : fl[e.hash] = p
    /\ s.n = Len(s.queue) /\ s.nValid = ValidIn(s.queue) /\ Len(s.queue) <= Transit
    /\ s.stalling => s.queue # <<>>

ValidatedIn(nd) == {b \in Block : \E p \in DOMAIN nd : [hash |-> b, valid |-> TRUE] \in Range(nd[p].queue)}

\* mapNodeState, mapBlocksInFlight and nQueuedValidatedHeaders agree
BooksOK(nd, fl, nq) ==
    /\ \A p \in DOMAIN nd : p \in Peer /\ nd[p] \in NodeType /\ QueueOK(nd[p], p, fl)
    /\ fl \in [Block -> Peer \cup {None}] /\ nq \in Int
    /\ \A b \in Block : fl[b] # None =>
          fl[b] \in DOMAIN nd /\ \E e \in Range(nd[fl[b]].queue) : e.hash = b
    /\ nq >= Cardinality(ValidatedIn(nd))

\* the part of a CNodeState that the books do not speak of
Rest(s) == <<s.ready, s.preferred, s.ban, s.disconnect, s.sync, s.known, s.unknown, s.common>>

LEMMA QueueTyped ==
  ASSUME NEW s \in NodeType
  PROVE  /\ s.queue \in Seq(Entry) /\ s.n \in Int /\ s.nValid \in Int /\ s.stalling \in BOOLEAN
         /\ IsFiniteSet(Range(s.queue)) /\ Range(s.queue) \subseteq Entry
<1>1. s.queue \in Seq(Entry) /\ s.n \in Int /\ s.nValid \in Int /\ s.stalling \in BOOLEAN
  BY DEF NodeType, Entry
<1> QED BY <1>1, RangeFinite

\* a list whose hashes are distinct
LEMMA QueueLength ==
  ASSUME NEW q \in Seq(Entry), \A i, j \in DOMAIN q : q[i].hash = q[j].hash => i = j
  PROVE  IsFiniteSet(Range(q)) /\ Cardinality(Range(q)) = Len(q) /\ Len(q) \in Nat
<1>1. \A i, j \in DOMAIN q : q[i] = q[j] => i = j OBVIOUS
<1> QED BY <1>1, DistinctLength

LEMMA UnqueueOK ==
  ASSUME NEW s \in NodeType, NEW p, NEW fl, QueueOK(s, p, fl),
         NEW gone \in SUBSET Range(s.queue), NEW fl2,
         \A e \in Range(s.queue) \ gone : fl2[e.hash] = p
  PROVE  LET u == Unqueue(s, gone)
         IN  /\ u \in NodeType /\ QueueOK(u, p, fl2)
             /\ Range(u.queue) = Range(s.queue) \ gone
             /\ u.n <= s.n /\ Rest(u) = Rest(s)
<1> DEFINE u == Unqueue(s, gone)
           q == s.queue
           w == Without(q, gone)
<1>t. /\ q \in Seq(Entry) /\ s.n \in Int /\ s.nValid \in Int /\ s.stalling \in BOOLEAN
      /\ IsFiniteSet(Range(q)) /\ Range(q) \subseteq Entry
  BY QueueTyped
<1>q. /\ \A i, j \in DOMAIN q : q[i].hash = q[j].hash => i = j
      /\ s.n = Len(q) /\ s.nValid = ValidIn(q) /\ Len(q) <= Transit /\ (s.stalling => q # <<>>)
  BY DEF QueueOK
<1>f. /\ u.queue = w /\ u.n = s.n - Cardinality(gone)
      /\ u.nValid = s.nValid - Cardinality({e \in gone : e.valid})
      /\ u.stalling = (IF gone = {} THEN s.stalling ELSE FALSE)
      /\ Rest(u) = Rest(s)
  BY DEF Unqueue, NodeType, Rest
<1>g. u = [s EXCEPT !.queue = w, !.n = s.n - Cardinality(gone),
                    !.nValid = s.nValid - Cardinality({e \in gone : e.valid}),
                    !.stalling = IF gone = {} THEN s.stalling ELSE FALSE]
  BY DEF Unqueue
<1>w. w \in Seq(Entry) /\ Range(w) = Range(q) \ gone
  <2> HIDE DEF q
  <2> QED BY <1>t, WithoutList
<1>d. \A i, j \in DOMAIN w : w[i].hash = w[j].hash => i = j
  <2> SUFFICES ASSUME NEW i \in DOMAIN w, NEW j \in DOMAIN w, w[i].hash = w[j].hash PROVE i = j
    OBVIOUS
  <2>1. \A k, l \in DOMAIN q : q[k] = q[l] => k = l BY <1>q
  <2>2. \A k, l \in DOMAIN w : w[k] = w[l] => k = l
    <3> HIDE DEF q
    <3> QED BY <2>1, <1>t, WithoutList
  <2>3. w[i] \in Range(q) /\ w[j] \in Range(q)
    <3>1. w[i] \in Range(w) /\ w[j] \in Range(w) BY DEF Range
    <3> QED BY <3>1, <1>w
  <2>4. w[i] = w[j]
    <3>1. PICK k \in DOMAIN q : q[k] = w[i] BY <2>3 DEF Range
    <3>2. PICK l \in DOMAIN q : q[l] = w[j] BY <2>3 DEF Range
    <3> QED BY <3>1, <3>2, <1>q
  <2> QED BY <2>2, <2>4
<1> HIDE DEF u, q, w
<1>1. IsFiniteSet(gone) /\ Cardinality(gone) \in Nat
  <2>1. gone \in SUBSET Range(q) BY DEF q
  <2>2. IsFiniteSet(gone) BY <2>1, <1>t, FS_Subset
  <2> QED BY <2>2, FS_CardinalityType
<1>2. Len(w) = Len(q) - Cardinality(gone) /\ Len(q) \in Nat /\ Len(w) \in Nat
  <2>1. Cardinality(Range(q)) = Len(q) /\ Len(q) \in Nat BY <1>t, <1>q, QueueLength
  <2>2. Cardinality(Range(w)) = Len(w) /\ Len(w) \in Nat BY <1>w, <1>d, QueueLength
  <2>3. Range(q) \cap gone = gone BY DEF q
  <2>4. Cardinality(Range(q) \ gone) = Cardinality(Range(q)) - Cardinality(Range(q) \cap gone)
    BY <1>t, FS_Difference
  <2> QED BY <2>1, <2>2, <2>3, <2>4, <1>w
<1>3. ValidIn(w) = ValidIn(q) - Cardinality({e \in gone : e.valid}) /\ ValidIn(w) \in Int
      /\ Cardinality({e \in gone : e.valid}) \in Nat
  <2> DEFINE V == {e \in Range(q) : e.valid}
             G == {e \in gone : e.valid}
  <2>1. V \in SUBSET Range(q) /\ G \in SUBSET gone OBVIOUS
  <2>2. IsFiniteSet(V) /\ IsFiniteSet(G) BY <2>1, <1>t, <1>1, FS_Subset
  <2>3. {e \in Range(w) : e.valid} = V \ G BY <1>w
  <2>4. V \cap G = G BY DEF q
  <2>5. Cardinality(V) \in Nat /\ Cardinality(G) \in Nat BY <2>2, FS_CardinalityType
  <2>6. ValidIn(w) = Cardinality(V \ G) /\ ValidIn(q) = Cardinality(V) BY <2>3 DEF ValidIn
  <2> HIDE DEF V, G
  <2>7. Cardinality(V \ G) = Cardinality(V) - Cardinality(V \cap G) BY <2>2, FS_Difference
  <2>8. ValidIn(w) = ValidIn(q) - Cardinality(G) BY <2>4, <2>6, <2>7
  <2>9. ValidIn(w) \in Int BY <2>8, <2>6, <2>5
  <2> QED BY <2>8, <2>9, <2>5 DEF G
<1>4. u \in NodeType
  <2>1. s.n - Cardinality(gone) \in Int BY <1>1, <1>t
  <2>2. s.nValid - Cardinality({e \in gone : e.valid}) \in Int BY <1>3, <1>t
  <2>3. (IF gone = {} THEN s.stalling ELSE FALSE) \in BOOLEAN BY <1>t
  <2>4. w \in Seq([hash : Block, valid : BOOLEAN]) BY <1>w DEF Entry
  <2> QED BY <1>g, <2>1, <2>2, <2>3, <2>4 DEF NodeType
<1>5. QueueOK(u, p, fl2)
  <2>1. \A e \in Range(w) : fl2[e.hash] = p BY <1>w DEF q
  <2>2. u.n = Len(w) /\ u.nValid = ValidIn(w) BY <1>f, <1>q, <1>2, <1>3
  <2>3. Len(w) <= Transit BY <1>2, <1>1, <1>q, DownloadAssumption
  <2>4. u.stalling => w # <<>>
    <3> SUFFICES ASSUME u.stalling PROVE w # <<>> OBVIOUS
    <3>1. gone = {} /\ s.stalling BY <1>f
    <3>2. q # <<>> BY <3>1, <1>q
    <3>3. Len(q) # 0 BY <3>2, <1>t
    <3>4. Len(w) # 0 BY <3>3, <3>1, <1>2, FS_EmptySet
    <3> QED BY <3>4
  <2> QED BY <2>1, <2>2, <2>3, <2>4, <1>d, <1>f DEF QueueOK
<1>6. u.n <= s.n BY <1>f, <1>1, <1>t
<1>7. Range(u.queue) = Range(s.queue) \ gone BY <1>f, <1>w DEF q
<1> QED BY <1>4, <1>5, <1>6, <1>7, <1>f DEF u

LEMMA EntryIs ==
  ASSUME NEW e \in Entry, NEW b, e.hash = b, e.valid = TRUE
  PROVE  e = [hash |-> b, valid |-> TRUE]
  BY DEF Entry

\* MarkBlockAsReceived keeps the books, and forgets the blocks of B only
LEMMA ReceivedOK ==
  ASSUME NEW k, BooksOK(k.node, k.inFlight, k.nQueued), NEW B \in SUBSET Block
  PROVE  LET r == MarkBlockAsReceived(k, B)
         IN  /\ BooksOK(r.node, r.inFlight, r.nQueued)
             /\ DOMAIN r.node = DOMAIN k.node
             /\ \A p \in DOMAIN k.node : Rest(r.node[p]) = Rest(k.node[p]) /\ r.node[p].n <= k.node[p].n
             /\ r.inFlight = [b \in Block |-> IF b \in B THEN None ELSE k.inFlight[b]]
<1> DEFINE r == MarkBlockAsReceived(k, B)
           nd == k.node
           fl == k.inFlight
<1>f. /\ r.node = [p \in DOMAIN nd |-> Unqueue(nd[p], OfPeer(k, p, B))]
      /\ r.inFlight = [b \in Block |-> IF b \in B THEN None ELSE fl[b]]
      /\ r.nQueued = k.nQueued - ValidOf(k, B)
  BY DEF MarkBlockAsReceived
<1>k. /\ \A p \in DOMAIN nd : p \in Peer /\ nd[p] \in NodeType /\ QueueOK(nd[p], p, fl)
      /\ fl \in [Block -> Peer \cup {None}] /\ k.nQueued \in Int
      /\ \A b \in Block : fl[b] # None =>
            fl[b] \in DOMAIN nd /\ \E e \in Range(nd[fl[b]].queue) : e.hash = b
      /\ k.nQueued >= Cardinality(ValidatedIn(nd))
  BY DEF BooksOK
<1>o. \A p : OfPeer(k, p, B) = {e \in Range(nd[p].queue) : e.hash \in B} BY DEF OfPeer
<1>v. ValidOf(k, B) = Cardinality({b \in B : /\ fl[b] # None
                                             /\ [hash |-> b, valid |-> TRUE] \in OfPeer(k, fl[b], B)})
  BY DEF ValidOf
<1> HIDE DEF r, nd, fl
<1>u. ASSUME NEW p \in DOMAIN nd
      PROVE  /\ r.node[p] \in NodeType /\ QueueOK(r.node[p], p, r.inFlight)
             /\ Range(r.node[p].queue) = {e \in Range(nd[p].queue) : e.hash \notin B}
             /\ r.node[p].n <= nd[p].n /\ Rest(r.node[p]) = Rest(nd[p])
  <2> DEFINE gone == OfPeer(k, p, B)
  <2>1. gone \in SUBSET Range(nd[p].queue) BY <1>o
  <2>2. nd[p] \in NodeType /\ QueueOK(nd[p], p, fl) BY <1>k
  <2>3. Range(nd[p].queue) \ gone = {e \in Range(nd[p].queue) : e.hash \notin B} BY <1>o
  <2>4. \A e \in Range(nd[p].queue) \ gone : r.inFlight[e.hash] = p
    <3> TAKE e \in Range(nd[p].queue) \ gone
    <3>1. e \in Entry /\ e.hash \notin B BY <2>2, <2>3, QueueTyped
    <3>2. fl[e.hash] = p BY <2>2 DEF QueueOK
    <3> QED BY <3>1, <3>2, <1>f DEF Entry
  <2>5. r.node[p] = Unqueue(nd[p], gone) BY <1>f
  <2> HIDE DEF gone
  <2> QED BY <2>1, <2>2, <2>3, <2>4, <2>5, UnqueueOK
<1>d. DOMAIN r.node = DOMAIN nd BY <1>f
<1>1. r.inFlight \in [Block -> Peer \cup {None}] BY <1>f, <1>k
<1>2. ASSUME NEW b \in Block, r.inFlight[b] # None
      PROVE  r.inFlight[b] \in DOMAIN r.node /\ \E e \in Range(r.node[r.inFlight[b]].queue) : e.hash = b
  <2>1. b \notin B /\ r.inFlight[b] = fl[b] BY <1>2, <1>f
  <2>2. fl[b] \in DOMAIN nd /\ \E e \in Range(nd[fl[b]].queue) : e.hash = b BY <2>1, <1>2, <1>k
  <2> QED BY <2>1, <2>2, <1>u, <1>d
<1>3. r.nQueued \in Int /\ r.nQueued >= Cardinality(ValidatedIn(r.node))
  <2> DEFINE V == ValidatedIn(nd)
  <2>1. ValidatedIn(r.node) = V \ B
    <3>1. ASSUME NEW b \in Block
          PROVE  b \in ValidatedIn(r.node) <=> b \in V /\ b \notin B
      <4> DEFINE e == [hash |-> b, valid |-> TRUE]
      <4>1. \A p \in DOMAIN nd : e \in Range(r.node[p].queue) <=> e \in Range(nd[p].queue) /\ b \notin B
        BY <1>u
      <4> QED BY <4>1, <1>d DEF ValidatedIn
    <3> QED BY <3>1 DEF ValidatedIn
  <2>2. {b \in B : /\ fl[b] # None
                   /\ [hash |-> b, valid |-> TRUE] \in OfPeer(k, fl[b], B)} = V \cap B
    <3>1. ASSUME NEW b \in B
          PROVE  (fl[b] # None /\ [hash |-> b, valid |-> TRUE] \in OfPeer(k, fl[b], B)) <=> b \in V
      <4> DEFINE e == [hash |-> b, valid |-> TRUE]
      <4>0. b \in Block /\ e.hash = b OBVIOUS
      <4>1. ASSUME fl[b] # None, e \in OfPeer(k, fl[b], B) PROVE b \in V
        <5>1. fl[b] \in DOMAIN nd BY <4>1, <1>k
        <5>2. e \in Range(nd[fl[b]].queue) BY <4>1, <1>o
        <5> QED BY <5>1, <5>2 DEF ValidatedIn
      <4>2. ASSUME b \in V PROVE fl[b] # None /\ e \in OfPeer(k, fl[b], B)
        <5>1. PICK p \in DOMAIN nd : e \in Range(nd[p].queue) BY <4>2 DEF ValidatedIn
        <5>2. fl[b] = p BY <5>1, <4>0, <1>k DEF QueueOK
        <5>3. p \in Peer BY <1>k
        <5> QED BY <5>1, <5>2, <5>3, <4>0, <1>o, DownloadAssumption
      <4> QED BY <4>1, <4>2
    <3> QED BY <3>1
  <2>3. IsFiniteSet(V) /\ Cardinality(V) \in Nat
    <3>1. V \in SUBSET Block BY DEF ValidatedIn
    <3>2. IsFiniteSet(V) BY <3>1, DownloadAssumption, FS_Subset
    <3> QED BY <3>2, FS_CardinalityType
  <2> HIDE DEF V
  <2>4. Cardinality(V \ B) = Cardinality(V) - Cardinality(V \cap B) BY <2>3, FS_Difference
  <2>5. Cardinality(V \cap B) \in Nat
    <3>1. IsFiniteSet(V \cap B) BY <2>3, FS_Intersection
    <3> QED BY <3>1, FS_CardinalityType
  <2>6. k.nQueued >= Cardinality(V) BY <1>k DEF V
  <2>7. ValidOf(k, B) = Cardinality(V \cap B) BY <1>v, <2>2
  <2>8. r.nQueued = k.nQueued - Cardinality(V \cap B) BY <2>7, <1>f
  <2>9. Cardinality(ValidatedIn(r.node)) = Cardinality(V) - Cardinality(V \cap B) BY <2>1, <2>4
  <2>10. k.nQueued \in Int BY <1>k
  <2> QED BY <2>3, <2>5, <2>6, <2>8, <2>9, <2>10
<1>4. BooksOK(r.node, r.inFlight, r.nQueued) BY <1>1, <1>2, <1>3, <1>u, <1>d, <1>k DEF BooksOK
<1> QED BY <1>4, <1>d, <1>u, <1>f DEF r, nd, fl

\* a CNodeState changed in other fields than the books speak of
LEMMA RestOK ==
  ASSUME NEW nd, NEW fl, NEW nq, BooksOK(nd, fl, nq), NEW p \in DOMAIN nd,
         NEW s \in NodeType, s.queue = nd[p].queue, s.n = nd[p].n, s.nValid = nd[p].nValid,
         s.stalling => s.queue # <<>>
  PROVE  BooksOK([nd EXCEPT ![p] = s], fl, nq)
<1> DEFINE m == [nd EXCEPT ![p] = s]
<1>1. DOMAIN m = DOMAIN nd /\ m[p] = s /\ \A q \in DOMAIN nd : q # p => m[q] = nd[q] OBVIOUS
<1>2. \A q \in DOMAIN nd : m[q].queue = nd[q].queue BY <1>1
<1> HIDE DEF m
<1>3. ASSUME NEW q \in DOMAIN m PROVE q \in Peer /\ m[q] \in NodeType /\ QueueOK(m[q], q, fl)
  <2>1. q \in Peer /\ nd[q] \in NodeType /\ QueueOK(nd[q], q, fl) BY <1>1 DEF BooksOK
  <2>2. CASE q # p BY <2>1, <2>2, <1>1
  <2>3. CASE q = p BY <2>1, <2>3, <1>1 DEF QueueOK
  <2> QED BY <2>2, <2>3
<1>4. ValidatedIn(m) = ValidatedIn(nd) BY <1>1, <1>2 DEF ValidatedIn
<1> QED BY <1>1, <1>2, <1>3, <1>4 DEF BooksOK, m

LEMMA Fields ==
  ASSUME NEW b, NEW v
  PROVE  [hash |-> b, valid |-> v].hash = b /\ [hash |-> b, valid |-> v].valid = v
  OBVIOUS

Entries(blocks, v) == [i \in 1 .. Len(blocks) |-> [hash |-> blocks[i], valid |-> v]]

Appendable(q, blocks, v) ==
    /\ q \in Seq(Entry) /\ blocks \in Seq(Block) /\ v \in BOOLEAN
    /\ \A i, j \in DOMAIN q : q[i].hash = q[j].hash => i = j
    /\ \A i, j \in DOMAIN blocks : blocks[i] = blocks[j] => i = j
    /\ \A e \in Range(q) : e.hash \notin Range(blocks)

Appended(q, blocks, v, w) ==
    /\ w \in Seq(Entry) /\ Len(w) = Len(q) + Len(blocks)
    /\ Range(w) = Range(q) \cup {[hash |-> b, valid |-> v] : b \in Range(blocks)}
    /\ \A i, j \in DOMAIN w : w[i].hash = w[j].hash => i = j
    /\ ValidIn(w) = ValidIn(q) + (IF v THEN Len(blocks) ELSE 0)

\* new entries at the end of a list
LEMMA AppendedList ==
  ASSUME NEW q, NEW blocks, NEW v, NEW w, Appendable(q, blocks, v), w = q \o Entries(blocks, v)
  PROVE  Appended(q, blocks, v, w)
<1>a. /\ q \in Seq(Entry) /\ blocks \in Seq(Block) /\ v \in BOOLEAN
      /\ \A i, j \in DOMAIN q : q[i].hash = q[j].hash => i = j
      /\ \A i, j \in DOMAIN blocks : blocks[i] = blocks[j] => i = j
      /\ \A e \in Range(q) : e.hash \notin Range(blocks)
  BY DEF Appendable
<1> USE <1>a
<1> DEFINE m == Len(blocks)
           t == [i \in 1 .. m |-> [hash |-> blocks[i], valid |-> v]]
           new == {[hash |-> b, valid |-> v] : b \in Range(blocks)}
<1>1. m \in Nat /\ DOMAIN blocks = 1 .. m /\ (\A i \in 1 .. m : blocks[i] \in Block)
      /\ Len(q) \in Nat /\ DOMAIN q = 1 .. Len(q)
  OBVIOUS
<1>2. t \in Seq(Entry) /\ Len(t) = m BY <1>1 DEF Entry
<1>w. w = q \o t BY DEF Entries
<1>3. w \in Seq(Entry) /\ Len(w) = Len(q) + m BY <1>2, <1>w
<1>4. /\ DOMAIN w = 1 .. Len(q) + m
      /\ \A i \in 1 .. Len(q) : w[i] = q[i]
      /\ \A i \in 1 .. m : w[Len(q) + i] = [hash |-> blocks[i], valid |-> v]
  BY <1>1, <1>2, <1>3, <1>w
<1>h. \A i \in 1 .. m : w[Len(q) + i].hash = blocks[i]
  <2> TAKE i \in 1 .. m
  <2>1. w[Len(q) + i] = [hash |-> blocks[i], valid |-> v] BY <1>4
  <2> QED BY <2>1, Fields
<1>5. \A i \in DOMAIN w : i \notin 1 .. Len(q) => i - Len(q) \in 1 .. m /\ i = Len(q) + (i - Len(q))
  BY <1>4, <1>1
<1> HIDE DEF t, m
<1>6. Range(w) = Range(q) \cup new
  <2>1. ASSUME NEW e \in Range(w) PROVE e \in Range(q) \cup new
    <3>1. PICK i \in DOMAIN w : w[i] = e BY DEF Range
    <3>2. CASE i \in 1 .. Len(q) BY <3>1, <3>2, <1>4, <1>1 DEF Range
    <3>3. CASE i \notin 1 .. Len(q)
      <4>1. i - Len(q) \in 1 .. m /\ w[i] = [hash |-> blocks[i - Len(q)], valid |-> v]
        BY <3>3, <1>4, <1>5
      <4>2. blocks[i - Len(q)] \in Range(blocks) BY <4>1, <1>1 DEF Range
      <4> QED BY <4>1, <4>2, <3>1
    <3> QED BY <3>2, <3>3
  <2>2. ASSUME NEW e \in Range(q) PROVE e \in Range(w)
    <3>1. PICK i \in DOMAIN q : q[i] = e BY DEF Range
    <3>2. i \in DOMAIN w /\ w[i] = e BY <3>1, <1>1, <1>4
    <3> QED BY <3>2 DEF Range
  <2>3. ASSUME NEW e \in new PROVE e \in Range(w)
    <3>1. PICK b \in Range(blocks) : e = [hash |-> b, valid |-> v] OBVIOUS
    <3>2. PICK i \in 1 .. m : blocks[i] = b BY <1>1 DEF Range
    <3>3. Len(q) + i \in DOMAIN w /\ w[Len(q) + i] = e BY <3>1, <3>2, <1>1, <1>4
    <3> QED BY <3>3 DEF Range
  <2> QED BY <2>1, <2>2, <2>3
<1>7. ASSUME NEW i \in DOMAIN w, NEW j \in DOMAIN w, w[i].hash = w[j].hash PROVE i = j
  <2>a. ASSUME NEW x \in 1 .. Len(q), NEW y \in 1 .. m PROVE w[x].hash # w[Len(q) + y].hash
    <3>1. w[x] \in Range(q) BY <1>4, <1>1 DEF Range
    <3>2. w[Len(q) + y].hash = blocks[y] BY <1>h
    <3>3. blocks[y] \in Range(blocks) BY <1>1 DEF Range
    <3> QED BY <3>1, <3>2, <3>3
  <2>1. CASE i \in 1 .. Len(q) /\ j \in 1 .. Len(q) BY <2>1, <1>7, <1>1, <1>4
  <2>2. CASE i \in 1 .. Len(q) /\ j \notin 1 .. Len(q) BY <2>2, <2>a, <1>5, <1>7
  <2>3. CASE i \notin 1 .. Len(q) /\ j \in 1 .. Len(q) BY <2>3, <2>a, <1>5, <1>7
  <2>4. CASE i \notin 1 .. Len(q) /\ j \notin 1 .. Len(q)
    <3>1. i - Len(q) \in 1 .. m /\ j - Len(q) \in 1 .. m BY <2>4, <1>5
    <3>2. w[i].hash = blocks[i - Len(q)] /\ w[j].hash = blocks[j - Len(q)]
      <4>1. i = Len(q) + (i - Len(q)) /\ j = Len(q) + (j - Len(q)) BY <2>4, <1>5
      <4>2. \A x \in 1 .. m : w[Len(q) + x].hash = blocks[x] BY <1>h
      <4> QED BY <3>1, <4>1, <4>2
    <3>3. i - Len(q) = j - Len(q) BY <3>1, <3>2, <1>7, <1>1
    <3>4. i \in Int /\ j \in Int BY <1>4, <1>1
    <3> QED BY <3>3, <3>4, <1>1
  <2> QED BY <2>1, <2>2, <2>3, <2>4
<1>8. ValidIn(w) = ValidIn(q) + (IF v THEN m ELSE 0)
  <2> DEFINE V == {e \in Range(q) : e.valid}
             W == {e \in Range(w) : e.valid}
  <2>0. ValidIn(q) = Cardinality(V) /\ ValidIn(w) = Cardinality(W) BY DEF ValidIn
  <2>1. IsFiniteSet(V) /\ Cardinality(V) \in Nat
    <3>1. IsFiniteSet(Range(q)) BY RangeFinite
    <3>2. V \in SUBSET Range(q) OBVIOUS
    <3>3. IsFiniteSet(V) BY <3>1, <3>2, FS_Subset
    <3> QED BY <3>3, FS_CardinalityType
  <2>2. CASE v = FALSE
    <3>1. W = V BY <1>6, <2>2
    <3>2. (IF v THEN m ELSE 0) = 0 BY <2>2
    <3>3. ValidIn(w) = ValidIn(q) /\ ValidIn(q) \in Nat BY <2>0, <2>1, <3>1
    <3> QED BY <3>2, <3>3
  <2>3. CASE v = TRUE
    <3>0. \A e \in new : e.valid = TRUE
      <4> TAKE e \in new
      <4>1. PICK b \in Range(blocks) : e = [hash |-> b, valid |-> v] OBVIOUS
      <4>2. e.valid = v BY <4>1, Fields
      <4> QED BY <4>2, <2>3
    <3>1. W = V \cup new BY <1>6, <3>0
    <3>2. IsFiniteSet(Range(w)) /\ Cardinality(Range(w)) = Len(q) + m
      BY <1>3, <1>7, QueueLength
    <3>3. IsFiniteSet(Range(q)) /\ Cardinality(Range(q)) = Len(q) BY QueueLength
    <3>4. Range(q) \cap new = {} /\ V \cap new = {}
      <4>1. \A e \in new : e.hash \in Range(blocks) OBVIOUS
      <4> QED BY <4>1
    <3>5. new \in SUBSET Range(w) BY <1>6
    <3>6. IsFiniteSet(new) BY <3>5, <3>2, FS_Subset
    <3>7. Cardinality(new) \in Nat BY <3>6, FS_CardinalityType
    <3> HIDE DEF V, W, new
    <3>8. Cardinality(Range(q) \cup new) = Cardinality(Range(q)) + Cardinality(new)
                                           - Cardinality(Range(q) \cap new)
      BY <3>3, <3>6, FS_Union
    <3>9. Cardinality(V \cup new) = Cardinality(V) + Cardinality(new) - Cardinality(V \cap new)
      BY <2>1, <3>6, FS_Union
    <3>10. Cardinality({}) = 0 BY FS_EmptySet
    <3>a. Cardinality(Range(q) \cap new) = 0 /\ Cardinality(V \cap new) = 0 BY <3>4, <3>10
    <3>b. Cardinality(Range(q) \cup new) = Len(q) + m BY <3>2, <1>6 DEF new
    <3>11. Len(q) + m = Len(q) + Cardinality(new) - 0 BY <3>3, <3>8, <3>a, <3>b
    <3>12. Cardinality(new) = m BY <3>11, <3>7, <1>1
    <3>13. Cardinality(W) = Cardinality(V) + m - 0 BY <3>1, <3>9, <3>a, <3>12
    <3>14. (IF v THEN m ELSE 0) = m BY <2>3
    <3>15. ValidIn(w) = ValidIn(q) + m BY <3>13, <2>0, <2>1, <1>1
    <3> QED BY <3>14, <3>15
  <2> QED BY <2>2, <2>3
<1> QED BY <1>3, <1>6, <1>7, <1>8 DEF m, Appended

Askable(k, p, blocks) ==
    /\ BooksOK(k.node, k.inFlight, k.nQueued) /\ p \in DOMAIN k.node
    /\ blocks \in Seq(Block) /\ \A i, j \in DOMAIN blocks : blocks[i] = blocks[j] => i = j
    /\ \A b \in Range(blocks) : k.inFlight[b] = None
    /\ k.node[p].n + Len(blocks) <= Transit

\* MarkBlockAsInFlight keeps the books, for blocks that nobody was asked for
LEMMA InFlightOK ==
  ASSUME NEW k, NEW p, NEW blocks, NEW v \in BOOLEAN, Askable(k, p, blocks),
         NEW m, m = MarkBlockAsInFlight(k, p, blocks, v)
  PROVE  /\ BooksOK(m.node, m.inFlight, m.nQueued)
         /\ DOMAIN m.node = DOMAIN k.node
         /\ \A q \in DOMAIN k.node : Rest(m.node[q]) = Rest(k.node[q])
         /\ m.inFlight = [b \in Block |-> IF b \in Range(blocks) THEN p ELSE k.inFlight[b]]
<1>a. /\ BooksOK(k.node, k.inFlight, k.nQueued) /\ p \in DOMAIN k.node
      /\ blocks \in Seq(Block) /\ (\A i, j \in DOMAIN blocks : blocks[i] = blocks[j] => i = j)
      /\ \A b \in Range(blocks) : k.inFlight[b] = None
      /\ k.node[p].n + Len(blocks) <= Transit
  BY DEF Askable
<1> USE <1>a
<1> DEFINE B == Range(blocks)
           l == Len(blocks)
           r == MarkBlockAsReceived(k, B)
           tail == [i \in 1 .. l |-> [hash |-> blocks[i], valid |-> v]]
           extra == IF v THEN l ELSE 0
           new == {[hash |-> b, valid |-> v] : b \in B}
<1>b. B \in SUBSET Block /\ IsFiniteSet(B) /\ Cardinality(B) = l /\ l \in Nat
  BY RangeFinite, DistinctLength
<1>r. /\ BooksOK(r.node, r.inFlight, r.nQueued)
      /\ DOMAIN r.node = DOMAIN k.node
      /\ \A q \in DOMAIN k.node : Rest(r.node[q]) = Rest(k.node[q]) /\ r.node[q].n <= k.node[q].n
      /\ r.inFlight = [b \in Block |-> IF b \in B THEN None ELSE k.inFlight[b]]
  <2> HIDE DEF B
  <2> QED BY <1>b, ReceivedOK
<1>m. /\ m.node = [r.node EXCEPT ![p] = [r.node[p] EXCEPT
                      !.queue = r.node[p].queue \o tail,
                      !.n = r.node[p].n + l, !.nValid = r.node[p].nValid + extra]]
      /\ m.inFlight = [b \in Block |-> IF b \in B THEN p ELSE r.inFlight[b]]
      /\ m.nQueued = r.nQueued + extra
  <2>1. m = [node |-> [r.node EXCEPT ![p].queue = @ \o tail, ![p].n = @ + l, ![p].nValid = @ + extra],
             inFlight |-> [b \in Block |-> IF b \in B THEN p ELSE r.inFlight[b]],
             nQueued |-> r.nQueued + extra]
    BY DEF MarkBlockAsInFlight
  <2>2. p \in DOMAIN r.node /\ r.node[p] \in NodeType BY <1>r DEF BooksOK
  <2> HIDE DEF r, tail, extra, l, B
  <2>3. r.node[p] = [r.node[p] EXCEPT !.ready = r.node[p].ready] BY <2>2 DEF NodeType
  <2>4. DOMAIN r.node[p] = {"ready", "preferred", "ban", "disconnect", "sync", "stalling",
                            "known", "unknown", "common", "queue", "n", "nValid"}
    BY <2>2 DEF NodeType
  <2> QED BY ONLY <2>1, <2>2, <2>4
<1> DEFINE s == r.node[p]
           t == m.node[p]
           w == s.queue \o tail
<1> HIDE DEF r
<1>k. /\ \A q \in DOMAIN r.node : q \in Peer /\ r.node[q] \in NodeType /\ QueueOK(r.node[q], q, r.inFlight)
      /\ r.inFlight \in [Block -> Peer \cup {None}] /\ r.nQueued \in Int
      /\ \A b \in Block : r.inFlight[b] # None =>
            r.inFlight[b] \in DOMAIN r.node /\ \E e \in Range(r.node[r.inFlight[b]].queue) : e.hash = b
      /\ r.nQueued >= Cardinality(ValidatedIn(r.node))
  BY <1>r DEF BooksOK
<1>p. p \in DOMAIN r.node /\ p \in Peer /\ p # None BY <1>r, <1>k, DownloadAssumption
<1>s. s \in NodeType /\ QueueOK(s, p, r.inFlight) BY <1>k, <1>p
<1>q. /\ s.queue \in Seq(Entry) /\ s.n \in Int /\ s.nValid \in Int /\ s.stalling \in BOOLEAN
      /\ Range(s.queue) \subseteq Entry
  BY <1>s, QueueTyped
<1>t. /\ t = [s EXCEPT !.queue = w, !.n = s.n + l, !.nValid = s.nValid + extra]
      /\ DOMAIN m.node = DOMAIN r.node
      /\ \A q \in DOMAIN r.node : q # p => m.node[q] = r.node[q]
  BY <1>m, <1>p
<1>f. t.queue = w /\ t.n = s.n + l /\ t.nValid = s.nValid + extra /\ t.stalling = s.stalling
      /\ Rest(t) = Rest(s)
  <2> HIDE DEF t, w, s, extra
  <2> QED BY <1>t, <1>s DEF NodeType, Rest
<1>n. \A q \in DOMAIN r.node : \A e \in Range(r.node[q].queue) : e.hash \in Block \ B
  <2> TAKE q \in DOMAIN r.node
  <2> TAKE e \in Range(r.node[q].queue)
  <2>1. r.inFlight[e.hash] = q /\ q \in Peer BY <1>k DEF QueueOK
  <2>2. e \in Entry BY <1>k, QueueTyped
  <2>3. e.hash \in Block BY <2>2 DEF Entry
  <2>4. q # None BY <2>1, DownloadAssumption
  <2> QED BY <2>1, <2>3, <2>4, <1>r
<1>w. /\ w \in Seq(Entry) /\ Len(w) = Len(s.queue) + l
      /\ Range(w) = Range(s.queue) \cup new
      /\ \A i, j \in DOMAIN w : w[i].hash = w[j].hash => i = j
      /\ ValidIn(w) = ValidIn(s.queue) + extra
  <2>1. \A i, j \in DOMAIN s.queue : s.queue[i].hash = s.queue[j].hash => i = j BY <1>s DEF QueueOK
  <2>2. \A e \in Range(s.queue) : e.hash \notin Range(blocks) BY <1>n, <1>p
  <2>3. s.queue \in Seq(Entry) BY <1>q
  <2>4. w = s.queue \o Entries(blocks, v) BY DEF Entries
  <2> HIDE DEF s, w
  <2>5. \A i, j \in DOMAIN blocks : blocks[i] = blocks[j] => i = j OBVIOUS
  <2>6. Appendable(s.queue, blocks, v) BY <2>1, <2>2, <2>3, <2>5 DEF Appendable
  <2>7. Appended(s.queue, blocks, v, w) BY <2>4, <2>6, AppendedList
  <2> QED BY <2>7 DEF Appended
<1>x. extra \in Nat BY <1>b
<1> HIDE DEF s, t, w, tail, extra
<1>1. t \in NodeType
  <2>1. s.n + l \in Int /\ s.nValid + extra \in Int BY <1>q, <1>b, <1>x
  <2>2. w \in Seq([hash : Block, valid : BOOLEAN]) BY <1>w DEF Entry
  <2> QED BY <1>t, <1>s, <2>1, <2>2 DEF NodeType
<1>h. \A e \in new : e.hash \in B
  <2> TAKE e \in new
  <2>1. PICK b \in B : e = [hash |-> b, valid |-> v] OBVIOUS
  <2>2. e.hash = b BY <2>1, Fields
  <2> QED BY <2>2
<1>2. QueueOK(t, p, m.inFlight)
  <2>1. \A e \in Range(w) : m.inFlight[e.hash] = p
    <3> TAKE e \in Range(w)
    <3>1. CASE e \in new BY <3>1, <1>h, <1>m, <1>b
    <3>2. CASE e \in Range(s.queue)
      <4>1. e.hash \in Block \ B BY <3>2, <1>n, <1>p DEF s
      <4>2. r.inFlight[e.hash] = p BY <3>2, <1>s DEF QueueOK
      <4> QED BY <4>1, <4>2, <1>m
    <3> QED BY <3>1, <3>2, <1>w
  <2>2. t.n = Len(w) /\ t.nValid = ValidIn(w) BY <1>f, <1>w, <1>s DEF QueueOK
  <2>3. Len(w) <= Transit
    <3>1. s.n <= k.node[p].n BY <1>r, <1>p DEF s
    <3>2. k.node[p].n \in Int /\ k.node[p] \in NodeType BY <1>r, <1>p, QueueTyped DEF BooksOK
    <3> QED BY <2>2, <3>1, <3>2, <1>f, <1>q, <1>b, DownloadAssumption
  <2>4. t.stalling => w # <<>>
    <3> SUFFICES ASSUME t.stalling PROVE w # <<>> OBVIOUS
    <3>1. s.queue # <<>> BY <1>f, <1>s DEF QueueOK
    <3>2. Len(s.queue) \in Nat /\ Len(s.queue) # 0 BY <3>1, <1>q
    <3>3. Len(w) # 0 BY <3>2, <1>w, <1>b
    <3> QED BY <3>3
  <2> QED BY <2>1, <2>2, <2>3, <2>4, <1>w, <1>f DEF QueueOK
<1>3. ASSUME NEW q \in DOMAIN r.node, q # p
      PROVE  q \in Peer /\ m.node[q] \in NodeType /\ QueueOK(m.node[q], q, m.inFlight)
  <2>1. m.node[q] = r.node[q] BY <1>3, <1>t
  <2>2. \A e \in Range(r.node[q].queue) : m.inFlight[e.hash] = r.inFlight[e.hash] BY <1>n, <1>m
  <2>3. q \in Peer /\ r.node[q] \in NodeType /\ QueueOK(r.node[q], q, r.inFlight) BY <1>k
  <2>4. QueueOK(r.node[q], q, m.inFlight) BY <2>2, <2>3 DEF QueueOK
  <2> QED BY <2>1, <2>3, <2>4
<1>4. m.inFlight \in [Block -> Peer \cup {None}] BY <1>m, <1>k, <1>p
<1>5. ASSUME NEW b \in Block, m.inFlight[b] # None
      PROVE  m.inFlight[b] \in DOMAIN m.node /\ \E e \in Range(m.node[m.inFlight[b]].queue) : e.hash = b
  <2>1. CASE b \in B
    <3>1. m.inFlight[b] = p BY <2>1, <1>m
    <3>2. [hash |-> b, valid |-> v] \in Range(w) BY <2>1, <1>w
    <3>3. [hash |-> b, valid |-> v].hash = b BY Fields
    <3> QED BY <3>1, <3>2, <3>3, <1>f, <1>t, <1>p DEF t
  <2>2. CASE b \notin B
    <3>1. m.inFlight[b] = r.inFlight[b] BY <2>2, <1>m
    <3>2. r.inFlight[b] \in DOMAIN r.node BY <3>1, <1>5, <1>k
    <3>3. PICK e \in Range(r.node[r.inFlight[b]].queue) : e.hash = b BY <3>1, <1>5, <1>k
    <3>4. CASE r.inFlight[b] = p
      <4>1. e \in Range(w) BY <3>3, <3>4, <1>w DEF s
      <4> QED BY <3>1, <3>2, <3>3, <3>4, <4>1, <1>f, <1>t DEF t
    <3>5. CASE r.inFlight[b] # p BY <3>1, <3>2, <3>3, <3>5, <1>t
    <3> QED BY <3>4, <3>5
  <2> QED BY <2>1, <2>2
<1>6. m.nQueued \in Int /\ m.nQueued >= Cardinality(ValidatedIn(m.node))
  <2> DEFINE V == ValidatedIn(r.node)
             W == ValidatedIn(m.node)
  <2>1. IsFiniteSet(V) /\ Cardinality(V) \in Nat
    <3>1. V \in SUBSET Block BY DEF ValidatedIn
    <3>2. IsFiniteSet(V) BY <3>1, DownloadAssumption, FS_Subset
    <3> QED BY <3>2, FS_CardinalityType
  <2>2. ASSUME NEW b \in Block
        PROVE  b \in W <=> b \in V \/ [hash |-> b, valid |-> TRUE] \in new
    <3> DEFINE e == [hash |-> b, valid |-> TRUE]
    <3>1. \A q \in DOMAIN r.node : q # p =>
             (e \in Range(m.node[q].queue) <=> e \in Range(r.node[q].queue))
      BY <1>t
    <3>2. e \in Range(m.node[p].queue) <=> e \in Range(r.node[p].queue) \/ e \in new
      BY <1>f, <1>w DEF t, s
    <3> HIDE DEF e, new
    <3>3. b \in W <=> \E q \in DOMAIN r.node : e \in Range(m.node[q].queue)
      BY <1>t DEF ValidatedIn, e
    <3>4. b \in V <=> \E q \in DOMAIN r.node : e \in Range(r.node[q].queue)
      BY DEF ValidatedIn, e
    <3>5. b \in W <=> b \in V \/ e \in new BY <3>1, <3>2, <3>3, <3>4, <1>p
    <3> QED BY <3>5 DEF e
  <2>3. W \in SUBSET Block /\ V \in SUBSET Block BY DEF ValidatedIn
  <2> HIDE DEF V, W
  <2>4. CASE v = FALSE
    <3>1. \A e \in new : e.valid = FALSE
      <4> TAKE e \in new
      <4>1. PICK b \in B : e = [hash |-> b, valid |-> v] OBVIOUS
      <4>2. e.valid = v BY <4>1, Fields
      <4> QED BY <4>2, <2>4
    <3>2. \A b : [hash |-> b, valid |-> TRUE].valid = TRUE BY Fields
    <3>3. W = V
      <4> HIDE DEF new
      <4> QED BY <3>1, <3>2, <2>2, <2>3
    <3>4. extra = 0 BY <2>4 DEF extra
    <3>5. m.nQueued = r.nQueued BY <3>4, <1>m, <1>k
    <3> QED BY <3>3, <3>5, <1>k DEF V, W
  <2>5. CASE v = TRUE
    <3>1. \A b \in Block : [hash |-> b, valid |-> TRUE] \in new => b \in B
      <4> TAKE b \in Block
      <4>1. [hash |-> b, valid |-> TRUE].hash = b BY Fields
      <4> HIDE DEF new
      <4> QED BY <4>1, <1>h
    <3>2. W \in SUBSET (V \cup B)
      <4> HIDE DEF new, B
      <4> QED BY <3>1, <2>2, <2>3
    <3> HIDE DEF B
    <3>3. IsFiniteSet(V \cup B) BY <2>1, <1>b, FS_Union
    <3>4. Cardinality(W) <= Cardinality(V \cup B) /\ IsFiniteSet(W) BY <3>2, <3>3, FS_Subset
    <3>5. Cardinality(V \cup B) = Cardinality(V) + Cardinality(B) - Cardinality(V \cap B)
      BY <2>1, <1>b, FS_Union
    <3>6. Cardinality(V \cap B) \in Nat
      <4>1. IsFiniteSet(V \cap B) BY <2>1, FS_Intersection
      <4> QED BY <4>1, FS_CardinalityType
    <3>7. Cardinality(W) \in Nat BY <3>4, FS_CardinalityType
    <3>8. extra = l BY <2>5 DEF extra
    <3>9. m.nQueued = r.nQueued + l BY <3>8, <1>m
    <3>10. r.nQueued \in Int /\ r.nQueued >= Cardinality(V) BY <1>k DEF V
    <3>11. Cardinality(W) <= Cardinality(V) + l - Cardinality(V \cap B) BY <3>4, <3>5, <1>b
    <3> HIDE DEF l
    <3>12. m.nQueued \in Int /\ m.nQueued >= Cardinality(W) BY <3>6, <3>7, <3>9, <3>10, <3>11, <1>b, <2>1
    <3> QED BY <3>12 DEF W
  <2> QED BY <2>4, <2>5
<1>7. BooksOK(m.node, m.inFlight, m.nQueued)
  BY <1>1, <1>2, <1>3, <1>4, <1>5, <1>6, <1>t, <1>p DEF BooksOK, t
<1>8. m.inFlight = [b \in Block |-> IF b \in B THEN p ELSE k.inFlight[b]] BY <1>m, <1>r
<1>9. \A q \in DOMAIN k.node : Rest(m.node[q]) = Rest(k.node[q]) BY <1>t, <1>f, <1>r DEF t, s
<1> QED BY <1>7, <1>8, <1>9, <1>t, <1>r

----------------------------------------------------------------------------
(* What FindNextBlocksToDownload finds *)

\* a set of numbers up to m has a least and a greatest one
LEMMA Extremes ==
  ASSUME NEW m \in Nat, NEW S \in SUBSET (0 .. m), S # {}
  PROVE  /\ \E x \in S : \A y \in S : x <= y
         /\ \E x \in S : \A y \in S : x >= y
         /\ Min(S) \in S /\ Max(S) \in S
<1> DEFINE Less == {p \in Nat \X Nat : p[1] < p[2]}
           T == {m - x : x \in S}
<1>1. IsWellFoundedOn(Less, Nat) BY NatLessThanWellFounded DEF OpToRel
<1>0. \A x \in S : x \in Nat /\ m - x \in Nat OBVIOUS
<1>2. S \in SUBSET Nat /\ T \in SUBSET Nat /\ T # {} BY <1>0
<1>3. PICK x \in S : \A y \in S : <<y, x>> \notin Less
  <2> HIDE DEF Less
  <2> QED BY <1>1, <1>2, WFMin
<1>4. PICK z \in T : \A y \in T : <<y, z>> \notin Less
  <2> HIDE DEF Less, T
  <2> QED BY <1>1, <1>2, WFMin
<1>5. \A y \in S : x <= y
  <2> TAKE y \in S
  <2>0. x \in Nat /\ y \in Nat BY <1>0
  <2>1. ~(y < x) BY <1>3, <2>0
  <2> QED BY <2>0, <2>1
<1>6. PICK w \in S : z = m - w BY <1>4
<1>7. \A y \in S : w >= y
  <2> TAKE y \in S
  <2>1. m - y \in T /\ m - y \in Nat /\ z \in Nat /\ y \in Nat /\ w \in Nat BY <1>6, <1>0
  <2>2. ~(m - y < z) BY <2>1, <1>4
  <2> QED BY <2>1, <2>2, <1>6
<1> QED BY <1>5, <1>7 DEF Min, Max

LEMMA PathIs ==
  ASSUME NEW b \in Block
  PROVE  /\ Height[b] \in Nat /\ Path[b] \in Seq(Block) /\ Len(Path[b]) = Height[b]
         /\ DOMAIN Path[b] = 1 .. Height[b] /\ Chain[b] = Range(Path[b]) \cup {Genesis}
         /\ \A i \in 1 .. Height[b] : /\ Path[b][i] \in Block \ {Genesis}
                                      /\ Path[Path[b][i]] = SubSeq(Path[b], 1, i)
<1>1. Path[b] \in Seq(Block \ {Genesis}) BY PathAssumption
<1>2. Height[b] = Len(Path[b]) /\ Chain[b] = Range(Path[b]) \cup {Genesis} BY DEF Height, Chain
<1>3. \A i \in DOMAIN Path[b] : Path[Path[b][i]] = SubSeq(Path[b], 1, i) BY PathAssumption
<1>4. /\ Len(Path[b]) \in Nat /\ Path[b] \in Seq(Block) /\ DOMAIN Path[b] = 1 .. Len(Path[b])
      /\ \A i \in DOMAIN Path[b] : Path[b][i] \in Block \ {Genesis}
  BY <1>1
<1> QED BY <1>2, <1>3, <1>4

LEMMA ChainIs ==
  ASSUME NEW b \in Block
  PROVE  Chain[b] \in SUBSET Block /\ Genesis \in Chain[b] /\ b \in Chain[b]
<1>1. /\ DOMAIN Path[b] = 1 .. Height[b] /\ Chain[b] = Range(Path[b]) \cup {Genesis}
      /\ \A i \in 1 .. Height[b] : Path[b][i] \in Block
  BY PathIs
<1>2. Genesis \in Block BY DownloadAssumption
<1>3. Range(Path[b]) \in SUBSET Block BY <1>1 DEF Range
<1>4. b \in Chain[b]
  <2>1. CASE b = Genesis BY <2>1, <1>1
  <2>2. CASE b # Genesis
    <3>1. Parent[b] \in Block BY <2>2, DownloadAssumption
    <3>2. Path[b] = Append(Path[Parent[b]], b) /\ Path[Parent[b]] \in Seq(Block \ {Genesis})
      BY <2>2, <3>1, PathAssumption
    <3>3. Len(Path[b]) \in DOMAIN Path[b] /\ Path[b][Len(Path[b])] = b BY <3>2
    <3>4. b \in Range(Path[b]) BY <3>3 DEF Range
    <3> QED BY <3>4, <1>1
  <2> QED BY <2>1, <2>2
<1> QED BY <1>1, <1>2, <1>3, <1>4

LEMMA GenesisIs ==
  Genesis \in Block /\ Height[Genesis] = 0 /\ Chain[Genesis] = {Genesis}
<1>1. Genesis \in Block BY DownloadAssumption
<1>2. Path[Genesis] = <<>> BY PathAssumption
<1>3. Range(<<>>) = {} BY DEF Range
<1>4. Chain[Genesis] = Range(Path[Genesis]) \cup {Genesis} BY <1>1 DEF Chain
<1>5. Height[Genesis] = Len(Path[Genesis]) BY <1>1 DEF Height
<1> QED BY <1>1, <1>2, <1>3, <1>4, <1>5

LEMMA AtIs ==
  ASSUME NEW b \in Block, NEW h \in 0 .. Height[b]
  PROVE  /\ At(b, h) \in Block /\ Height[At(b, h)] = h /\ Chain[At(b, h)] \in SUBSET Chain[b]
         /\ h # 0 => At(b, h) # Genesis
<1>1. CASE h = 0
  <2>1. At(b, h) = Genesis BY <1>1 DEF At
  <2>2. Genesis \in Chain[b] BY ChainIs
  <2> QED BY <1>1, <2>1, <2>2, GenesisIs
<1>2. CASE h # 0
  <2> DEFINE c == Path[b][h]
  <2>1. Height[b] \in Nat BY PathIs
  <2>2. h \in 1 .. Height[b] /\ h \in Nat BY <1>2, <2>1
  <2>3. At(b, h) = c BY <1>2 DEF At
  <2>4. c \in Block \ {Genesis} /\ Path[c] = SubSeq(Path[b], 1, h) BY <2>2, PathIs
  <2>5. /\ Path[b] \in Seq(Block) /\ Len(Path[b]) = Height[b] /\ DOMAIN Path[b] = 1 .. Height[b]
        /\ Chain[b] = Range(Path[b]) \cup {Genesis}
    BY PathIs
  <2>6. /\ Len(SubSeq(Path[b], 1, h)) = h /\ DOMAIN SubSeq(Path[b], 1, h) = 1 .. h
        /\ \A j \in 1 .. h : SubSeq(Path[b], 1, h)[j] = Path[b][j] /\ j \in 1 .. Height[b]
    BY <2>1, <2>2, <2>5
  <2> HIDE DEF c
  <2>7. Height[c] = h BY <2>4, <2>6, PathIs
  <2>8. Range(Path[c]) \in SUBSET Range(Path[b]) BY <2>4, <2>5, <2>6 DEF Range
  <2>9. Chain[c] = Range(Path[c]) \cup {Genesis} BY <2>4, PathIs
  <2> QED BY <2>3, <2>4, <2>5, <2>7, <2>8, <2>9
<1> QED BY <1>1, <1>2

\* a block of a chain, and what is below it
LEMMA InChain ==
  ASSUME NEW b \in Block, NEW c \in Chain[b]
  PROVE  c \in Block /\ Chain[c] \in SUBSET Chain[b] /\ Height[c] \in 0 .. Height[b]
<1>1. \E h \in 0 .. Height[b] : c = At(b, h)
  <2>0. /\ Height[b] \in Nat /\ DOMAIN Path[b] = 1 .. Height[b]
        /\ Chain[b] = Range(Path[b]) \cup {Genesis}
    BY PathIs
  <2>1. c \in Range(Path[b]) \/ c = Genesis BY <2>0
  <2>2. CASE c = Genesis BY <2>2, <2>0 DEF At
  <2>3. CASE c \in Range(Path[b])
    <3>1. PICK h \in 1 .. Height[b] : c = Path[b][h] BY <2>3, <2>0 DEF Range
    <3>2. h \in 0 .. Height[b] /\ h # 0 BY <2>0
    <3> QED BY <3>1, <3>2 DEF At
  <2> QED BY <2>1, <2>2, <2>3
<1>2. PICK h \in 0 .. Height[b] : c = At(b, h) BY <1>1
<1> QED BY <1>2, AtIs

LEMMA ForkIs ==
  ASSUME NEW a \in Block, NEW b \in Block
  PROVE  Fork(a, b) \in Chain[a] \cap Chain[b]
<1> DEFINE C == Chain[a] \cap Chain[b]
           S == {Height[c] : c \in C}
<1>1. Genesis \in C BY ChainIs
<1>2. \A c \in C : Height[c] \in 0 .. Height[a] BY InChain
<1> HIDE DEF C
<1>3. S \in SUBSET (0 .. Height[a]) /\ S # {} BY <1>1, <1>2
<1>4. Height[a] \in Nat BY PathIs
<1>6. PICK x \in S : \A y \in S : x >= y
  <2> HIDE DEF S
  <2> QED BY <1>3, <1>4, Extremes
<1>7. PICK c \in C : x = Height[c] BY <1>6
<1>8. \A d \in C : Height[d] <= Height[c]
  <2> TAKE d \in C
  <2>1. Height[d] \in S OBVIOUS
  <2>2. Height[c] >= Height[d] BY <2>1, <1>6, <1>7
  <2>3. Height[c] \in Int /\ Height[d] \in Int BY <1>2, <1>4
  <2> QED BY <2>2, <2>3
<1>5. \E e \in C : \A d \in C : Height[d] <= Height[e] BY <1>8
<1> QED BY <1>5 DEF Fork, C

LEMMA FindOK ==
  ASSUME inFlight \in [Block -> Peer \cup {None}], tip \in Block, Linked(tip),
         NEW s \in NodeType, s.common # None => Linked(s.common), NEW p, NEW count \in Nat,
         NEW find, find = FindNextBlocksToDownload(s, p, count)
  PROVE  /\ find.common \in Block \cup {None} /\ (find.common # None => Linked(find.common))
         /\ find.fetch \in Seq(Block) /\ Len(find.fetch) <= count
         /\ \A i, j \in DOMAIN find.fetch : find.fetch[i] = find.fetch[j] => i = j
         /\ \A b \in Range(find.fetch) : inFlight[b] = None
         /\ find.staller # None => find.staller # p /\ \E b \in Block : inFlight[b] = find.staller
<1> DEFINE known  == s.known
           guess  == IF s.common # None THEN s.common
                     ELSE At(tip, Lower(Height[known], Height[tip]))
           from   == Fork(guess, known)
           end    == Height[from] + Window
           walk   == {h \in (Height[from] + 1) .. Lower(Height[known], end + 1) :
                         \A i \in (Height[from] + 1) .. h : At(known, i) \notin failed}
           free   == {h \in walk : Missing(At(known, h))}
           ask    == {h \in free : h <= end /\ Cardinality({i \in free : i < h}) < count}
           owed   == {h \in walk : At(known, h) \notin data /\ inFlight[At(known, h)] # None}
           awaits == IF owed = {} THEN None ELSE inFlight[At(known, Min(owed))]
           held   == {h \in walk : Held(At(known, h))}
           nothing == [common |-> s.common, fetch |-> <<>>, staller |-> None]
           found  == [common  |-> IF held = {} THEN from ELSE At(known, Max(held)),
                      fetch   |-> [i \in 1 .. Cardinality(ask) |-> At(known, Nth(ask, i))],
                      staller |-> IF ask = {} /\ end + 1 \in free /\ awaits # p THEN awaits ELSE None]
<1>f. find = IF known = None \/ Height[known] < Height[tip] THEN nothing ELSE found
  BY DEF FindNextBlocksToDownload
<1>c. known \in Block \cup {None} /\ s.common \in Block \cup {None} BY DEF NodeType
<1>1. CASE known = None \/ Height[known] < Height[tip]
  <2>1. find = nothing BY <1>1, <1>f
  <2>2. find.common = s.common /\ find.fetch = <<>> /\ find.staller = None BY <2>1
  <2>3. Range(<<>>) = {} BY DEF Range
  <2> QED BY <2>2, <2>3, <1>c
<1>2. CASE ~(known = None \/ Height[known] < Height[tip])
  <2>1. find.common = (IF held = {} THEN from ELSE At(known, Max(held)))
        /\ find.fetch = [i \in 1 .. Cardinality(ask) |-> At(known, Nth(ask, i))]
        /\ find.staller = (IF ask = {} /\ end + 1 \in free /\ awaits # p THEN awaits ELSE None)
    <3>1. find = found BY <1>2, <1>f
    <3> HIDE DEF known, from, held, ask, end, free, awaits
    <3> QED BY <3>1
  <2>k. known \in Block /\ Height[known] \in Nat /\ Height[tip] \in Nat BY <1>2, <1>c, PathIs
  <2>g. guess \in Block /\ Linked(guess)
    <3>1. CASE s.common # None BY <3>1, <1>c
    <3>2. CASE s.common = None
      <4> DEFINE h == Lower(Height[known], Height[tip])
      <4>1. h \in 0 .. Height[tip] BY <2>k DEF Lower
      <4>2. guess = At(tip, h) BY <3>2
      <4> HIDE DEF h
      <4>3. At(tip, h) \in Block /\ Chain[At(tip, h)] \in SUBSET Chain[tip] BY <4>1, AtIs
      <4> QED BY <4>2, <4>3 DEF Linked
    <3> QED BY <3>1, <3>2
  <2> HIDE DEF known, guess
  <2>r. from \in Block /\ Linked(from) /\ Height[from] \in Nat
    <3>1. from \in Chain[guess] BY <2>k, <2>g, ForkIs
    <3> HIDE DEF from
    <3>2. from \in Block /\ Chain[from] \in SUBSET Chain[guess] BY <3>1, <2>g, InChain
    <3> QED BY <3>2, <2>g, PathIs DEF Linked
  <2> HIDE DEF from
  <2>w. \A h \in walk : h \in 1 .. Height[known] /\ h \in 0 .. Height[known]
    <3> TAKE h \in walk
    <3>1. h \in (Height[from] + 1) .. Lower(Height[known], Height[from] + Window + 1) OBVIOUS
    <3>2. Lower(Height[known], Height[from] + Window + 1) <= Height[known]
          /\ Lower(Height[known], Height[from] + Window + 1) \in Int
      BY <2>k, <2>r, DownloadAssumption DEF Lower
    <3> QED BY <3>1, <3>2, <2>k, <2>r
  <2>v. \A h \in walk : At(known, h) \in Block /\ Height[At(known, h)] = h BY <2>w, <2>k, AtIs
  <2>s. free \in SUBSET walk /\ ask \in SUBSET free /\ owed \in SUBSET walk /\ held \in SUBSET walk
    <3> HIDE DEF walk
    <3> QED OBVIOUS
  <2>m. \A h \in free : inFlight[At(known, h)] = None BY DEF Missing
  <2>h. \A h \in held : Linked(At(known, h)) BY DEF Held
  <2>o. \A h \in owed : inFlight[At(known, h)] # None OBVIOUS
  <2>a. \A h \in ask : Cardinality({i \in free : i < h}) < count OBVIOUS
  <2> HIDE DEF walk, held, owed
  <2>3. find.common \in Block /\ Linked(find.common)
    <3>1. CASE held = {} BY <3>1, <2>1, <2>r
    <3>2. CASE held # {}
      <4>1. held \in SUBSET (0 .. Height[known]) BY <2>s, <2>w
      <4>2. Max(held) \in held BY <4>1, <3>2, <2>k, Extremes
      <4>3. find.common = At(known, Max(held)) BY <3>2, <2>1
      <4> QED BY <4>2, <4>3, <2>s, <2>v, <2>h
    <3> QED BY <3>1, <3>2
  <2> HIDE DEF free
  <2>i. ask \in SUBSET Nat /\ IsFiniteSet(ask) /\ free \in SUBSET Nat /\ IsFiniteSet(free)
    <3>1. ask \in SUBSET (1 .. Height[known]) /\ free \in SUBSET (1 .. Height[known]) BY <2>s, <2>w
    <3>0. \A m \in Nat : IsFiniteSet(1 .. m) BY FS_Interval
    <3>2. IsFiniteSet(1 .. Height[known]) BY <2>k, <3>0
    <3> HIDE DEF ask
    <3> QED BY <3>1, <3>2, <2>k, FS_Subset
  <2> HIDE DEF ask
  <2> DEFINE n == Cardinality(ask)
  <2>n. /\ n \in Nat
        /\ \A i \in 1 .. n : Nth(ask, i) \in ask /\ Cardinality({j \in ask : j < Nth(ask, i)}) = i - 1
    BY <2>i, NthCounts
  <2>4. find.fetch = [i \in 1 .. n |-> At(known, Nth(ask, i))] BY <2>1
  <2>5. find.fetch \in Seq(Block) /\ Len(find.fetch) = n /\ DOMAIN find.fetch = 1 .. n
    <3>1. \A i \in 1 .. n : At(known, Nth(ask, i)) \in Block BY <2>n, <2>s, <2>v
    <3> HIDE DEF n
    <3> QED BY <3>1, <2>4, <2>n
  <2>6. n <= count
    <3> SUFFICES ASSUME n > count PROVE FALSE BY <2>n
    <3> DEFINE h == Nth(ask, count + 1)
    <3>1. h \in ask /\ Cardinality({j \in ask : j < h}) = count
      <4>1. count + 1 \in 1 .. n BY <2>n
      <4> HIDE DEF n
      <4> QED BY <4>1, <2>n
    <3> HIDE DEF h
    <3>2. {j \in ask : j < h} \in SUBSET {i \in free : i < h} BY <2>s
    <3>3. IsFiniteSet({i \in free : i < h})
      <4>1. {i \in free : i < h} \in SUBSET free OBVIOUS
      <4> QED BY <4>1, <2>i, FS_Subset
    <3>4. /\ Cardinality({j \in ask : j < h}) <= Cardinality({i \in free : i < h})
          /\ Cardinality({i \in free : i < h}) \in Nat
      BY <3>2, <3>3, FS_Subset, FS_CardinalityType
    <3>5. Cardinality({i \in free : i < h}) < count BY <3>1, <2>a
    <3> QED BY <3>1, <3>4, <3>5
  <2>7. ASSUME NEW i \in DOMAIN find.fetch, NEW j \in DOMAIN find.fetch, find.fetch[i] = find.fetch[j]
        PROVE  i = j
    <3>1. i \in 1 .. n /\ j \in 1 .. n BY <2>5
    <3>2. find.fetch[i] = At(known, Nth(ask, i)) /\ find.fetch[j] = At(known, Nth(ask, j)) BY <3>1, <2>4
    <3>3. Nth(ask, i) \in walk /\ Nth(ask, j) \in walk BY <3>1, <2>n, <2>s
    <3>4. Nth(ask, i) = Nth(ask, j) BY <2>7, <3>2, <3>3, <2>v
    <3>5. i - 1 = j - 1 BY <3>1, <3>4, <2>n
    <3> QED BY <3>1, <3>5, <2>n
  <2>8. \A b \in Range(find.fetch) : inFlight[b] = None
    <3> TAKE b \in Range(find.fetch)
    <3>1. PICK i \in 1 .. n : b = At(known, Nth(ask, i)) BY <2>4, <2>5 DEF Range
    <3>2. Nth(ask, i) \in free BY <2>n, <2>s
    <3> QED BY <3>1, <3>2, <2>m
  <2>9. ASSUME find.staller # None
        PROVE  find.staller # p /\ \E b \in Block : inFlight[b] = find.staller
    <3>1. find.staller = awaits /\ awaits # p /\ owed # {}
      <4>1. find.staller = (IF ask = {} /\ end + 1 \in free /\ awaits # p THEN awaits ELSE None)
        BY <2>1
      <4>2. owed = {} => awaits = None OBVIOUS
      <4> HIDE DEF awaits, end
      <4> QED BY <4>1, <4>2, <2>9
    <3>2. awaits = inFlight[At(known, Min(owed))] BY <3>1
    <3> HIDE DEF awaits
    <3>3. owed \in SUBSET (0 .. Height[known]) BY <2>s, <2>w
    <3>4. Min(owed) \in owed BY <3>1, <3>3, <2>k, Extremes
    <3>5. At(known, Min(owed)) \in Block BY <3>4, <2>s, <2>v
    <3> QED BY <3>1, <3>2, <3>5
  <2> QED BY <2>3, <2>5, <2>6, <2>7, <2>8, <2>9, <2>n
<1> QED BY <1>1, <1>2

----------------------------------------------------------------------------
(***************************************************************************)
(* The inductive invariant: the books agree, a peer that is counted as     *)
(* preferred has sent its version, and the active chain is stored.         *)
(***************************************************************************)

SyncIn(nd) == {p \in DOMAIN nd : nd[p].sync}
PreferredIn(nd) == {p \in DOMAIN nd : nd[p].preferred}

Life(nd, a, b) ==
    /\ IsFiniteSet(DOMAIN nd)
    /\ \A p \in DOMAIN nd : nd[p].preferred => nd[p].ready
    /\ a = Cardinality(SyncIn(nd)) /\ b = Cardinality(PreferredIn(nd))

ChainOK ==
    /\ Genesis \in data /\ data \subseteq index /\ index \subseteq Block /\ failed \subseteq index
    /\ tip \in data /\ Linked(tip)

IInv ==
    /\ Up \subseteq met /\ met \subseteq Peer
    /\ BooksOK(node, inFlight, nQueued) /\ Life(node, nSync, nPreferred)
    /\ ChainOK /\ CommonStored

\* what a step of AskedOnce says
Once == \A b \in Block : inFlight[b] # None /\ inFlight'[b] # None => inFlight'[b] = inFlight[b]

LEMMA CountChange ==
  ASSUME NEW A, IsFiniteSet(A), NEW B, IsFiniteSet(B), NEW p, A \ {p} = B \ {p}
  PROVE  /\ Cardinality(A) \in Nat /\ Cardinality(B) \in Nat
         /\ Cardinality(B) = Cardinality(A) + Int01(p \in B) - Int01(p \in A)
<1> DEFINE C == A \ {p}
<1>c. IsFiniteSet(C) /\ Cardinality(C) \in Nat
  <2>1. C \in SUBSET A OBVIOUS
  <2>2. IsFiniteSet(C) BY <2>1, FS_Subset
  <2> QED BY <2>2, FS_CardinalityType
<1>t. Cardinality(A) \in Nat /\ Cardinality(B) \in Nat BY FS_CardinalityType
<1>1. Cardinality(A) = Cardinality(C) + Int01(p \in A)
  <2>1. CASE p \in A
    <3>1. Cardinality(C) = Cardinality(A) - 1 BY <2>1, FS_RemoveElement
    <3> QED BY <2>1, <3>1, <1>t, <1>c DEF Int01
  <2>2. CASE p \notin A
    <3>1. C = A BY <2>2
    <3> QED BY <2>2, <3>1, <1>t DEF Int01
  <2> QED BY <2>1, <2>2
<1>2. Cardinality(B) = Cardinality(C) + Int01(p \in B)
  <2>0. C = B \ {p} OBVIOUS
  <2>1. CASE p \in B
    <3>1. Cardinality(B \ {p}) = Cardinality(B) - 1 BY <2>1, FS_RemoveElement
    <3> QED BY <2>0, <2>1, <3>1, <1>t, <1>c DEF Int01
  <2>2. CASE p \notin B
    <3>1. C = B BY <2>0, <2>2
    <3> QED BY <2>2, <3>1, <1>t DEF Int01
  <2> QED BY <2>1, <2>2
<1>3. Int01(p \in A) \in Int /\ Int01(p \in B) \in Int BY DEF Int01
<1> HIDE DEF C
<1> QED BY <1>1, <1>2, <1>3, <1>t, <1>c

\* one node comes, goes or changes
LEMMA LifeChange ==
  ASSUME NEW nd, NEW a, NEW b, Life(nd, a, b), NEW p, NEW new, DOMAIN new \ {p} = DOMAIN nd \ {p},
         \A q \in DOMAIN nd \ {p} : /\ new[q].sync = nd[q].sync /\ new[q].preferred = nd[q].preferred
                                    /\ new[q].ready = nd[q].ready,
         p \in DOMAIN new => (new[p].preferred => new[p].ready)
  PROVE  /\ Life(new, a + Int01(p \in SyncIn(new)) - Int01(p \in SyncIn(nd)),
                      b + Int01(p \in PreferredIn(new)) - Int01(p \in PreferredIn(nd)))
         /\ a \in Nat /\ b \in Nat
<1>l. /\ IsFiniteSet(DOMAIN nd)
      /\ \A q \in DOMAIN nd : nd[q].preferred => nd[q].ready
      /\ a = Cardinality(SyncIn(nd)) /\ b = Cardinality(PreferredIn(nd))
  BY DEF Life
<1>1. IsFiniteSet(DOMAIN new)
  <2>1. IsFiniteSet(DOMAIN nd \cup {p}) BY <1>l, FS_AddElement
  <2>2. DOMAIN new \in SUBSET (DOMAIN nd \cup {p}) OBVIOUS
  <2> QED BY <2>1, <2>2, FS_Subset
<1>2. SyncIn(new) \in SUBSET DOMAIN new /\ SyncIn(nd) \in SUBSET DOMAIN nd
      /\ PreferredIn(new) \in SUBSET DOMAIN new /\ PreferredIn(nd) \in SUBSET DOMAIN nd
  BY DEF SyncIn, PreferredIn
<1>3. IsFiniteSet(SyncIn(new)) /\ IsFiniteSet(SyncIn(nd))
      /\ IsFiniteSet(PreferredIn(new)) /\ IsFiniteSet(PreferredIn(nd))
  BY <1>1, <1>2, <1>l, FS_Subset
<1>4. SyncIn(nd) \ {p} = SyncIn(new) \ {p} BY DEF SyncIn
<1>5. PreferredIn(nd) \ {p} = PreferredIn(new) \ {p} BY DEF PreferredIn
<1>6. /\ Cardinality(SyncIn(nd)) \in Nat
      /\ Cardinality(SyncIn(new)) = Cardinality(SyncIn(nd)) + Int01(p \in SyncIn(new))
                                    - Int01(p \in SyncIn(nd))
  BY <1>3, <1>4, CountChange
<1>7. /\ Cardinality(PreferredIn(nd)) \in Nat
      /\ Cardinality(PreferredIn(new)) = Cardinality(PreferredIn(nd)) + Int01(p \in PreferredIn(new))
                                         - Int01(p \in PreferredIn(nd))
  BY <1>3, <1>5, CountChange
<1>8. \A q \in DOMAIN new : new[q].preferred => new[q].ready
  <2> TAKE q \in DOMAIN new
  <2>1. CASE q = p BY <2>1
  <2>2. CASE q # p
    <3>1. q \in DOMAIN nd \ {p} BY <2>2
    <3> QED BY <3>1, <1>l
  <2> QED BY <2>1, <2>2
<1> QED BY <1>1, <1>6, <1>7, <1>8, <1>l DEF Life

\* no node changes in what is counted
LEMMA LifeSame ==
  ASSUME NEW nd, NEW a, NEW b, Life(nd, a, b), NEW new, DOMAIN new = DOMAIN nd,
         \A q \in DOMAIN nd : /\ new[q].sync = nd[q].sync /\ new[q].preferred = nd[q].preferred
                              /\ new[q].ready = nd[q].ready
  PROVE  Life(new, a, b)
<1>1. SyncIn(new) = SyncIn(nd) BY DEF SyncIn
<1>2. PreferredIn(new) = PreferredIn(nd) BY DEF PreferredIn
<1>3. \A q \in DOMAIN new : new[q].preferred => new[q].ready BY DEF Life
<1> QED BY <1>1, <1>2, <1>3 DEF Life

LEMMA RestSame ==
  ASSUME NEW s, NEW t, Rest(s) = Rest(t)
  PROVE  /\ s.ready = t.ready /\ s.preferred = t.preferred /\ s.sync = t.sync
         /\ s.common = t.common /\ s.known = t.known /\ s.unknown = t.unknown
  BY DEF Rest

\* the same in the books, in what is counted and in pindexLastCommonBlock
Alike(s, t) ==
    /\ s.queue = t.queue /\ s.n = t.n /\ s.nValid = t.nValid /\ s.stalling = t.stalling
    /\ s.ready = t.ready /\ s.preferred = t.preferred /\ s.sync = t.sync /\ s.common = t.common

LEMMA AvailabilityAlike ==
  ASSUME NEW s \in NodeType, ChainOK
  PROVE  /\ ProcessBlockAvailability(s) \in NodeType /\ Alike(ProcessBlockAvailability(s), s)
         /\ \A in : \A b \in Block : UpdateBlockAvailability(s, b, in) \in NodeType
                                 /\ Alike(UpdateBlockAvailability(s, b, in), s)
<1> DEFINE t == ProcessBlockAvailability(s)
<1>1. t \in NodeType /\ Alike(t, s)
  <2>1. CASE s.unknown = None \/ s.unknown \notin index
    <3>1. t = s BY <2>1 DEF ProcessBlockAvailability
    <3> QED BY <3>1 DEF Alike
  <2>2. CASE ~(s.unknown = None \/ s.unknown \notin index)
    <3>1. t = [s EXCEPT !.known = IF Better(s.known, s.unknown) THEN s.unknown ELSE s.known,
                        !.unknown = None]
      BY <2>2 DEF ProcessBlockAvailability
    <3>2. (IF Better(s.known, s.unknown) THEN s.unknown ELSE s.known) \in Block \cup {None}
      BY DEF NodeType
    <3> HIDE DEF t
    <3>3. t \in NodeType BY <3>1, <3>2 DEF NodeType
    <3>4. Alike(t, s) BY <3>1 DEF NodeType, Alike
    <3> QED BY <3>3, <3>4
  <2> QED BY <2>1, <2>2
<1>2. ASSUME NEW b \in Block, NEW in
      PROVE  UpdateBlockAvailability(s, b, in) \in NodeType /\ Alike(UpdateBlockAvailability(s, b, in), s)
  <2> DEFINE u == UpdateBlockAvailability(s, b, in)
  <2>1. u = IF b \notin in THEN [t EXCEPT !.unknown = b]
            ELSE IF Better(t.known, b) THEN [t EXCEPT !.known = b] ELSE t
    BY DEF UpdateBlockAvailability
  <2> HIDE DEF u, t
  <2>2. u = [t EXCEPT !.unknown = b] \/ u = [t EXCEPT !.known = b] \/ u = t BY <2>1
  <2>3. u \in NodeType BY <2>2, <1>1 DEF NodeType
  <2>4. Alike(u, t) BY <2>2, <1>1 DEF NodeType, Alike
  <2> QED BY <2>3, <2>4, <1>1 DEF Alike, u
<1> QED BY <1>1, <1>2

LEMMA PunishedAlike ==
  ASSUME NEW s \in NodeType, NEW score, NEW t \in Punished(s, score)
  PROVE  t \in NodeType /\ Alike(t, s)
<1>1. t = s \/ t = [s EXCEPT !.ban = TRUE] BY DEF Punished
<1> QED BY <1>1 DEF NodeType, Alike

----------------------------------------------------------------------------
(* Every action keeps the invariant *)

USE DEF Up

LEMMA CommonKept ==
  ASSUME CommonStored, data \subseteq data', DOMAIN node' \subseteq Up,
         \A q \in DOMAIN node' : node'[q].common = node[q].common
  PROVE  CommonStored'
  BY DEF CommonStored, Linked, Chain

LEMMA ChainSame ==
  ASSUME ChainOK, UNCHANGED chain
  PROVE  ChainOK' /\ data' = data
  BY DEF ChainOK, chain, Linked

\* a step that replaces one node by one that is alike, in books that are in order
LEMMA AlikeOK ==
  ASSUME NEW nd, NEW fl, NEW nq, BooksOK(nd, fl, nq), NEW p \in DOMAIN nd, NEW s \in NodeType,
         Alike(s, nd[p])
  PROVE  BooksOK([nd EXCEPT ![p] = s], fl, nq)
<1>1. s.stalling => s.queue # <<>>
  <2>1. QueueOK(nd[p], p, fl) BY DEF BooksOK
  <2> QED BY <2>1 DEF QueueOK, Alike
<1> QED BY <1>1, RestOK DEF Alike

LEMMA InitializeNodeKeeps ==
  ASSUME IInv, NEW p \in Peer, InitializeNode(p)
  PROVE  IInv' /\ Once
<1>a. /\ p \notin met /\ met' = met \cup {p} /\ inFlight' = inFlight /\ nQueued' = nQueued
      /\ node' = [q \in Up \cup {p} |-> IF q = p THEN NewNode ELSE node[q]]
      /\ nSync' = nSync /\ nPreferred' = nPreferred /\ UNCHANGED chain
  BY DEF InitializeNode, counts
<1>i. /\ Up \subseteq met /\ met \subseteq Peer
      /\ BooksOK(node, inFlight, nQueued) /\ Life(node, nSync, nPreferred) /\ ChainOK /\ CommonStored
  BY DEF IInv
<1>d. DOMAIN node' = Up \cup {p} /\ node'[p] = NewNode /\ \A q \in Up : node'[q] = node[q]
  BY <1>a, <1>i
<1>e. Range(<<>>) = {} /\ NewNode.queue = <<>> BY DEF Range, NewNode
<1>n. NewNode \in NodeType
  <2>1. <<>> \in Seq([hash : Block, valid : BOOLEAN]) OBVIOUS
  <2> QED BY <2>1 DEF NewNode, NodeType
<1>q. QueueOK(NewNode, p, inFlight)
  <2>1. NewNode.queue = <<>> /\ NewNode.n = 0 /\ NewNode.nValid = 0 /\ NewNode.stalling = FALSE
    BY DEF NewNode
  <2>2. {e \in Range(<<>>) : e.valid} = {} BY <1>e
  <2>3. ValidIn(<<>>) = 0 BY <2>2, FS_EmptySet DEF ValidIn
  <2>4. Len(<<>>) = 0 /\ DOMAIN <<>> = {} /\ 0 <= Transit BY DownloadAssumption
  <2> QED BY <2>1, <2>3, <2>4, <1>e DEF QueueOK
<1>1. BooksOK(node', inFlight', nQueued')
  <2>1. \A q \in DOMAIN node' : q \in Peer /\ node'[q] \in NodeType /\ QueueOK(node'[q], q, inFlight')
    BY <1>a, <1>d, <1>i, <1>n, <1>q DEF BooksOK
  <2>2. \A b \in Block : inFlight'[b] # None =>
           inFlight'[b] \in DOMAIN node' /\ \E e \in Range(node'[inFlight'[b]].queue) : e.hash = b
    BY <1>a, <1>d, <1>i DEF BooksOK
  <2>3. ValidatedIn(node') = ValidatedIn(node)
    <3>1. Range(node'[p].queue) = {} BY <1>d, <1>e
    <3> QED BY <3>1, <1>d DEF ValidatedIn
  <2> QED BY <2>1, <2>2, <2>3, <1>a, <1>i DEF BooksOK
<1>2. Life(node', nSync', nPreferred')
  <2>1. p \notin SyncIn(node) /\ p \notin PreferredIn(node) BY <1>a, <1>i DEF SyncIn, PreferredIn
  <2>2. p \notin SyncIn(node') /\ p \notin PreferredIn(node')
    BY <1>d DEF SyncIn, PreferredIn, NewNode
  <2>3. node'[p].preferred = FALSE BY <1>d DEF NewNode
  <2>4. /\ Life(node', nSync + Int01(p \in SyncIn(node')) - Int01(p \in SyncIn(node)),
                       nPreferred + Int01(p \in PreferredIn(node')) - Int01(p \in PreferredIn(node)))
        /\ nSync \in Nat /\ nPreferred \in Nat
    BY <1>d, <1>i, <2>3, LifeChange
  <2>5. nSync + Int01(p \in SyncIn(node')) - Int01(p \in SyncIn(node)) = nSync
        /\ nPreferred + Int01(p \in PreferredIn(node')) - Int01(p \in PreferredIn(node)) = nPreferred
    BY <2>1, <2>2, <2>4 DEF Int01
  <2> QED BY <2>4, <2>5, <1>a
<1>3. CommonStored'
  <2>1. data' = data BY <1>a, <1>i, ChainSame
  <2>2. node'[p].common = None BY <1>d DEF NewNode
  <2> QED BY <2>1, <2>2, <1>d, <1>i DEF CommonStored, Linked
<1>4. ChainOK' BY <1>a, <1>i, ChainSame
<1>5. DOMAIN node' \subseteq met' /\ met' \subseteq Peer BY <1>a, <1>d, <1>i
<1> QED BY <1>1, <1>2, <1>3, <1>4, <1>5, <1>a DEF IInv, Once

\* a step that only replaces one node by one alike, and does not touch the block index
LEMMA AlikeKeeps ==
  ASSUME IInv, NEW p \in Up, NEW s \in NodeType, Alike(s, node[p]),
         node' = [node EXCEPT ![p] = s], inFlight' = inFlight, nQueued' = nQueued, met' = met,
         nSync' = nSync, nPreferred' = nPreferred, data \subseteq data', ChainOK'
  PROVE  IInv' /\ Once
<1>i. /\ Up \subseteq met /\ met \subseteq Peer
      /\ BooksOK(node, inFlight, nQueued) /\ Life(node, nSync, nPreferred) /\ ChainOK /\ CommonStored
  BY DEF IInv
<1>1. DOMAIN node' = Up /\ node'[p] = s /\ \A q \in Up : q # p => node'[q] = node[q] OBVIOUS
<1>2. BooksOK(node', inFlight', nQueued') BY <1>i, AlikeOK
<1>3. \A q \in Up : /\ node'[q].sync = node[q].sync /\ node'[q].preferred = node[q].preferred
                    /\ node'[q].ready = node[q].ready /\ node'[q].common = node[q].common
  BY <1>1 DEF Alike
<1>4. Life(node', nSync', nPreferred') BY <1>1, <1>3, <1>i, LifeSame
<1>5. CommonStored' BY <1>1, <1>3, <1>i, CommonKept
<1> QED BY <1>1, <1>2, <1>4, <1>5, <1>i DEF IInv, Once

LEMMA VersionKeeps ==
  ASSUME IInv, NEW p \in Peer, Version(p)
  PROVE  IInv' /\ Once
<1> DEFINE nice == p \in Nice
           s == [node[p] EXCEPT !.ready = TRUE, !.preferred = nice]
<1>a. /\ p \in Up /\ ~node[p].ready /\ node' = [node EXCEPT ![p].ready = TRUE, ![p].preferred = p \in Nice]
      /\ nPreferred' = nPreferred + Int01(p \in Nice) /\ nSync' = nSync
      /\ met' = met /\ inFlight' = inFlight /\ nQueued' = nQueued /\ UNCHANGED chain
  BY DEF Version
<1>i. /\ Up \subseteq met /\ met \subseteq Peer
      /\ BooksOK(node, inFlight, nQueued) /\ Life(node, nSync, nPreferred) /\ ChainOK /\ CommonStored
  BY DEF IInv
<1>t. node[p] \in NodeType /\ QueueOK(node[p], p, inFlight) BY <1>a, <1>i DEF BooksOK
<1>s. /\ s \in NodeType /\ s.queue = node[p].queue /\ s.n = node[p].n /\ s.nValid = node[p].nValid
      /\ s.stalling = node[p].stalling /\ s.ready = TRUE /\ s.preferred = (p \in Nice)
      /\ s.sync = node[p].sync /\ s.common = node[p].common
  <2>1. nice \in BOOLEAN OBVIOUS
  <2> HIDE DEF nice
  <2>2. s \in NodeType BY <1>t, <2>1 DEF NodeType
  <2>3. /\ s.queue = node[p].queue /\ s.n = node[p].n /\ s.nValid = node[p].nValid
        /\ s.stalling = node[p].stalling /\ s.ready = TRUE /\ s.preferred = nice
        /\ s.sync = node[p].sync /\ s.common = node[p].common
    BY <1>t DEF NodeType
  <2> QED BY <2>2, <2>3 DEF nice
<1>d. node' = [node EXCEPT ![p] = s]
  BY <1>a, <1>t DEF NodeType
<1> HIDE DEF s
<1>1. DOMAIN node' = Up /\ node'[p] = s /\ \A q \in Up : q # p => node'[q] = node[q] BY <1>d, <1>a
<1>2. BooksOK(node', inFlight', nQueued')
  <2>1. s.stalling => s.queue # <<>> BY <1>s, <1>t DEF QueueOK
  <2>2. BooksOK([node EXCEPT ![p] = s], inFlight, nQueued) BY <2>1, <1>a, <1>i, <1>s, RestOK
  <2> QED BY <2>2, <1>a, <1>d
<1>3. Life(node', nSync', nPreferred')
  <2>1. (p \in SyncIn(node') <=> p \in SyncIn(node)) BY <1>1, <1>s, <1>a DEF SyncIn
  <2>2. p \notin PreferredIn(node) BY <1>a, <1>i DEF Life, PreferredIn
  <2>3. p \in PreferredIn(node') <=> p \in Nice BY <1>1, <1>s, <1>a DEF PreferredIn
  <2>4. /\ Life(node', nSync + Int01(p \in SyncIn(node')) - Int01(p \in SyncIn(node)),
                       nPreferred + Int01(p \in PreferredIn(node')) - Int01(p \in PreferredIn(node)))
        /\ nSync \in Nat /\ nPreferred \in Nat
    BY <1>1, <1>i, <1>s, LifeChange
  <2>5. nSync + Int01(p \in SyncIn(node')) - Int01(p \in SyncIn(node)) = nSync
    BY <2>1, <2>4 DEF Int01
  <2>6. nPreferred + Int01(p \in PreferredIn(node')) - Int01(p \in PreferredIn(node))
        = nPreferred + Int01(p \in Nice)
    BY <2>2, <2>3, <2>4 DEF Int01
  <2> QED BY <2>4, <2>5, <2>6, <1>a
<1>4. ChainOK' /\ data' = data BY <1>a, <1>i, ChainSame
<1>5. CommonStored'
  <2>1. \A q \in Up : node'[q].common = node[q].common BY <1>1, <1>s
  <2> QED BY <2>1, <1>1, <1>4, <1>i, CommonKept
<1> QED BY <1>1, <1>2, <1>3, <1>4, <1>5, <1>a, <1>i DEF IInv, Once

LEMMA DisconnectKeeps ==
  ASSUME IInv, NEW p \in Peer, Disconnect(p)
  PROVE  IInv' /\ Once
<1> DEFINE s == [node[p] EXCEPT !.disconnect = TRUE]
<1>a. /\ p \in Up /\ node' = [node EXCEPT ![p].disconnect = TRUE]
      /\ met' = met /\ inFlight' = inFlight /\ nQueued' = nQueued
      /\ nSync' = nSync /\ nPreferred' = nPreferred /\ UNCHANGED chain
  BY DEF Disconnect, counts
<1>t. node[p] \in NodeType /\ ChainOK BY <1>a DEF BooksOK, IInv
<1>s. s \in NodeType /\ Alike(s, node[p]) BY <1>t DEF NodeType, Alike
<1>d. node' = [node EXCEPT ![p] = s] BY <1>a
<1>c. ChainOK' /\ data' = data BY <1>a, <1>t, ChainSame
<1> HIDE DEF s
<1> QED BY <1>a, <1>s, <1>d, <1>c, AlikeKeeps

LEMMA FinalizeNodeKeeps ==
  ASSUME IInv, NEW p \in Peer, FinalizeNode(p)
  PROVE  IInv' /\ Once
<1>a. /\ p \in Up /\ nSync' = nSync - Int01(node[p].sync) /\ inFlight' = Released(p)
      /\ nPreferred' = nPreferred - Int01(node[p].preferred)
      /\ node' = [q \in Up \ {p} |-> node[q]]
      /\ met' = met /\ nQueued' = nQueued /\ UNCHANGED chain
  BY DEF FinalizeNode, PreferredGone
<1>i. /\ Up \subseteq met /\ met \subseteq Peer
      /\ BooksOK(node, inFlight, nQueued) /\ Life(node, nSync, nPreferred) /\ ChainOK /\ CommonStored
  BY DEF IInv
<1>d. DOMAIN node' = Up \ {p} /\ \A q \in Up \ {p} : node'[q] = node[q] BY <1>a
<1>f. inFlight' = [b \in Block |-> IF \E e \in Range(node[p].queue) : e.hash = b THEN None ELSE inFlight[b]]
  BY <1>a DEF Released
<1>k. /\ \A q \in Up : q \in Peer /\ node[q] \in NodeType /\ QueueOK(node[q], q, inFlight)
      /\ inFlight \in [Block -> Peer \cup {None}] /\ nQueued \in Int
      /\ \A b \in Block : inFlight[b] # None =>
            inFlight[b] \in Up /\ \E e \in Range(node[inFlight[b]].queue) : e.hash = b
      /\ nQueued >= Cardinality(ValidatedIn(node))
  BY <1>i DEF BooksOK
<1>1. ASSUME NEW q \in Up \ {p} PROVE QueueOK(node[q], q, inFlight')
  <2>1. QueueOK(node[q], q, inFlight) /\ QueueOK(node[p], p, inFlight) BY <1>k, <1>a
  <2>2. \A e \in Range(node[q].queue) : inFlight'[e.hash] = q
    <3> TAKE e \in Range(node[q].queue)
    <3>1. inFlight[e.hash] = q BY <2>1 DEF QueueOK
    <3>2. e.hash \in Block
      <4>1. e \in Entry BY <1>k, QueueTyped
      <4> QED BY <4>1 DEF Entry
    <3>3. ~\E x \in Range(node[p].queue) : x.hash = e.hash BY <3>1, <2>1 DEF QueueOK
    <3> QED BY <3>1, <3>2, <3>3, <1>f
  <2> QED BY <2>1, <2>2 DEF QueueOK
<1>2. ASSUME NEW b \in Block, inFlight'[b] # None
      PROVE  inFlight'[b] \in DOMAIN node' /\ \E e \in Range(node'[inFlight'[b]].queue) : e.hash = b
  <2>1. inFlight'[b] = inFlight[b] /\ ~\E e \in Range(node[p].queue) : e.hash = b BY <1>2, <1>f
  <2>2. inFlight[b] \in Up /\ \E e \in Range(node[inFlight[b]].queue) : e.hash = b BY <1>2, <2>1, <1>k
  <2>3. inFlight[b] # p BY <2>1, <2>2
  <2> QED BY <2>1, <2>2, <2>3, <1>d
<1>3. Cardinality(ValidatedIn(node')) <= Cardinality(ValidatedIn(node))
      /\ Cardinality(ValidatedIn(node')) \in Nat /\ Cardinality(ValidatedIn(node)) \in Nat
  <2>1. ValidatedIn(node') \in SUBSET ValidatedIn(node) BY <1>d DEF ValidatedIn
  <2>2. ValidatedIn(node) \in SUBSET Block BY DEF ValidatedIn
  <2>3. IsFiniteSet(ValidatedIn(node)) BY <2>2, DownloadAssumption, FS_Subset
  <2>4. IsFiniteSet(ValidatedIn(node')) BY <2>1, <2>3, FS_Subset
  <2>5. Cardinality(ValidatedIn(node')) <= Cardinality(ValidatedIn(node)) BY <2>1, <2>3, FS_Subset
  <2> QED BY <2>3, <2>4, <2>5, FS_CardinalityType
<1>4. BooksOK(node', inFlight', nQueued')
  <2>1. inFlight' \in [Block -> Peer \cup {None}] BY <1>f, <1>k
  <2>2. nQueued' \in Int /\ nQueued' >= Cardinality(ValidatedIn(node')) BY <1>a, <1>k, <1>3
  <2>3. \A q \in DOMAIN node' : q \in Peer /\ node'[q] \in NodeType /\ QueueOK(node'[q], q, inFlight')
    BY <1>1, <1>d, <1>k
  <2> QED BY <2>1, <2>2, <2>3, <1>2 DEF BooksOK
<1>5. Life(node', nSync', nPreferred')
  <2>1. (p \in SyncIn(node) <=> node[p].sync) /\ (p \in PreferredIn(node) <=> node[p].preferred)
    BY <1>a DEF SyncIn, PreferredIn
  <2>2. p \notin SyncIn(node') /\ p \notin PreferredIn(node') BY <1>d DEF SyncIn, PreferredIn
  <2>4. /\ Life(node', nSync + Int01(p \in SyncIn(node')) - Int01(p \in SyncIn(node)),
                       nPreferred + Int01(p \in PreferredIn(node')) - Int01(p \in PreferredIn(node)))
        /\ nSync \in Nat /\ nPreferred \in Nat
    BY <1>d, <1>i, LifeChange
  <2>5. nSync + Int01(p \in SyncIn(node')) - Int01(p \in SyncIn(node)) = nSync - Int01(node[p].sync)
    BY <2>1, <2>2, <2>4 DEF Int01
  <2>6. nPreferred + Int01(p \in PreferredIn(node')) - Int01(p \in PreferredIn(node))
        = nPreferred - Int01(node[p].preferred)
    BY <2>1, <2>2, <2>4 DEF Int01
  <2> QED BY <2>4, <2>5, <2>6, <1>a
<1>6. ChainOK' /\ data' = data BY <1>a, <1>i, ChainSame
<1>7. CommonStored' BY <1>d, <1>6, <1>i, CommonKept
<1>8. Once BY <1>f DEF Once
<1> QED BY <1>4, <1>5, <1>6, <1>7, <1>8, <1>a, <1>d, <1>i DEF IInv

LEMMA InvKeeps ==
  ASSUME IInv, NEW p \in Peer, NEW b \in Block, NEW near \in BOOLEAN, Inv(p, b, near)
  PROVE  IInv' /\ Once
<1> DEFINE u == UpdateBlockAvailability(node[p], b, index)
           k == [Books EXCEPT !.node[p] = u]
<1>a. /\ p \in Up /\ (near => b \notin index /\ inFlight[b] = None /\ node[p].n < Transit)
      /\ IF near THEN SetBooks(MarkBlockAsInFlight(k, p, <<b>>, FALSE)) ELSE SetBooks(k)
      /\ met' = met /\ nSync' = nSync /\ nPreferred' = nPreferred /\ UNCHANGED chain
  BY DEF Inv, Talks, Books
<1>i. /\ Up \subseteq met /\ met \subseteq Peer
      /\ BooksOK(node, inFlight, nQueued) /\ Life(node, nSync, nPreferred) /\ ChainOK /\ CommonStored
  BY DEF IInv
<1>t. node[p] \in NodeType BY <1>a, <1>i DEF BooksOK
<1>u. u \in NodeType /\ Alike(u, node[p]) BY <1>t, <1>i, AvailabilityAlike
<1> HIDE DEF u
<1>k. k.node = [node EXCEPT ![p] = u] /\ k.inFlight = inFlight /\ k.nQueued = nQueued BY DEF Books
<1> HIDE DEF k
<1>c. ChainOK' /\ data' = data BY <1>a, <1>i, ChainSame
<1>1. CASE ~near
  <2>1. node' = [node EXCEPT ![p] = u] /\ inFlight' = inFlight /\ nQueued' = nQueued
    BY <1>1, <1>a, <1>k DEF SetBooks
  <2> QED BY <2>1, <1>a, <1>c, <1>u, AlikeKeeps
<1>2. CASE near
  <2> DEFINE m == MarkBlockAsInFlight(k, p, <<b>>, FALSE)
  <2>1. node' = m.node /\ inFlight' = m.inFlight /\ nQueued' = m.nQueued BY <1>2, <1>a DEF SetBooks
  <2>2. /\ DOMAIN k.node = Up /\ k.node[p] = u /\ \A q \in Up : q # p => k.node[q] = node[q]
        /\ p \in DOMAIN k.node
    BY <1>k, <1>a
  <2>3. BooksOK(k.node, k.inFlight, k.nQueued) BY <1>k, <1>a, <1>i, <1>u, AlikeOK
  <2>4. /\ <<b>> \in Seq(Block) /\ Len(<<b>>) = 1 /\ Range(<<b>>) = {b}
        /\ \A i, j \in DOMAIN <<b>> : <<b>>[i] = <<b>>[j] => i = j
    BY DEF Range
  <2>5. \A x \in Range(<<b>>) : k.inFlight[x] = None BY <2>4, <1>2, <1>a, <1>k
  <2>6. k.node[p].n + Len(<<b>>) <= Transit
    <3>1. k.node[p].n = node[p].n BY <2>2, <1>u DEF Alike
    <3>2. node[p].n \in Int BY <1>t, QueueTyped
    <3> QED BY <3>1, <3>2, <2>4, <1>2, <1>a, DownloadAssumption
  <2>7. /\ BooksOK(m.node, m.inFlight, m.nQueued)
        /\ DOMAIN m.node = DOMAIN k.node
        /\ \A q \in DOMAIN k.node : Rest(m.node[q]) = Rest(k.node[q])
        /\ m.inFlight = [x \in Block |-> IF x \in Range(<<b>>) THEN p ELSE k.inFlight[x]]
    <3>1. Askable(k, p, <<b>>) BY <2>2, <2>3, <2>4, <2>5, <2>6 DEF Askable
    <3>2. PICK v \in BOOLEAN : v = FALSE OBVIOUS
    <3>3. m = MarkBlockAsInFlight(k, p, <<b>>, v) BY <3>2
    <3> HIDE DEF m
    <3> QED BY <3>1, <3>3, InFlightOK
  <2> HIDE DEF m
  <2>8. \A q \in Up : /\ m.node[q].sync = node[q].sync /\ m.node[q].preferred = node[q].preferred
                      /\ m.node[q].ready = node[q].ready /\ m.node[q].common = node[q].common
    <3> TAKE q \in Up
    <3>1. Rest(m.node[q]) = Rest(k.node[q]) BY <2>2, <2>7
    <3>2. /\ m.node[q].sync = k.node[q].sync /\ m.node[q].preferred = k.node[q].preferred
          /\ m.node[q].ready = k.node[q].ready /\ m.node[q].common = k.node[q].common
      BY <3>1, RestSame
    <3> QED BY <3>2, <2>2, <1>u DEF Alike
  <2>9. DOMAIN node' = Up BY <2>1, <2>2, <2>7
  <2>10. Life(node', nSync', nPreferred')
    <3>1. Life(m.node, nSync, nPreferred) BY <2>2, <2>7, <2>8, <1>i, LifeSame
    <3> QED BY <3>1, <2>1, <1>a
  <2>11. CommonStored' BY <2>1, <2>8, <2>9, <1>c, <1>i, CommonKept
  <2>12. Once
    <3>1. inFlight' = [x \in Block |-> IF x \in {b} THEN p ELSE inFlight[x]] BY <2>1, <2>4, <2>7, <1>k
    <3> QED BY <3>1, <1>2, <1>a DEF Once
  <2>13. BooksOK(node', inFlight', nQueued') BY <2>1, <2>7
  <2> QED BY <2>9, <2>10, <2>11, <2>12, <2>13, <1>a, <1>c, <1>i DEF IInv
<1> QED BY <1>1, <1>2

LEMMA HeadersKeeps ==
  ASSUME IInv, NEW p \in Peer, NEW b \in Block, NEW first \in 1 .. Height[b], Headers(p, b, first)
  PROVE  IInv' /\ Once
<1> DEFINE sent   == SubSeq(Path[b], first, Len(Path[b]))
           orphan == sent[1] \notin index /\ Parent[sent[1]] \notin index
           refused(i) == \/ orphan \/ sent[i] \in failed
                         \/ sent[i] \notin index /\ Parent[sent[i]] \in failed
           good   == {i \in DOMAIN sent : \A j \in 1 .. i : ~refused(j)}
           all    == good = DOMAIN sent
           score  == IF orphan THEN 10
                     ELSE IF all \/ sent[Cardinality(good) + 1] \in failed THEN 0 ELSE 100
<1>a. /\ p \in Up /\ index' = index \cup {sent[i] : i \in good}
      /\ \E s \in IF all THEN {UpdateBlockAvailability(node[p], b, index')}
                  ELSE Punished(node[p], score) : node' = [node EXCEPT ![p] = s]
      /\ met' = met /\ inFlight' = inFlight /\ nQueued' = nQueued /\ nSync' = nSync
      /\ nPreferred' = nPreferred /\ data' = data /\ failed' = failed /\ tip' = tip
  BY DEF Headers, Talks, counts
<1>i. BooksOK(node, inFlight, nQueued) /\ ChainOK BY DEF IInv
<1>t. node[p] \in NodeType BY <1>a, <1>i DEF BooksOK
<1>s. \A i \in DOMAIN sent : sent[i] \in Block
  <2>1. Path[b] \in Seq(Block) /\ Len(Path[b]) = Height[b] /\ Height[b] \in Nat BY PathIs
  <2>2. sent \in Seq(Block) BY <2>1
  <2> HIDE DEF sent
  <2> QED BY <2>2
<1>g. good \in SUBSET DOMAIN sent OBVIOUS
<1> HIDE DEF good, sent, score
<1>1. PICK s \in IF all THEN {UpdateBlockAvailability(node[p], b, index')}
                 ELSE Punished(node[p], score) : node' = [node EXCEPT ![p] = s]
  BY <1>a
<1>2. s \in NodeType /\ Alike(s, node[p])
  <2>1. CASE all
    <3>1. s = UpdateBlockAvailability(node[p], b, index') BY <1>1, <2>1
    <3> HIDE DEF all
    <3> QED BY <3>1, <1>t, <1>i, AvailabilityAlike
  <2>2. CASE ~all
    <3>1. s \in Punished(node[p], score) BY <1>1, <2>2
    <3> HIDE DEF all
    <3> QED BY <3>1, <1>t, PunishedAlike
  <2> QED BY <2>1, <2>2
<1>3. ChainOK'
  <2>1. index' \subseteq Block /\ index \subseteq index' BY <1>a, <1>i, <1>s, <1>g DEF ChainOK
  <2> QED BY <2>1, <1>a, <1>i DEF ChainOK, Linked
<1> QED BY <1>1, <1>2, <1>3, <1>a, AlikeKeeps

LEMMA BlockMessageKeeps ==
  ASSUME IInv, NEW p \in Peer, NEW b \in Block, NEW junk \in BOOLEAN, BlockMessage(p, b, junk)
  PROVE  IInv' /\ Once
<1> DEFINE k       == MarkBlockAsReceived(Books, {b})
           asked   == inFlight[b] # None
           known   == b \in index \/ Parent[b] \in index \ failed
           orphan  == b \notin index /\ Parent[b] \notin index
           wanted  == b \notin data /\ (asked \/ Height[b] > Height[tip])
           fails   == known /\ b \notin failed /\ wanted /\ b \in Bad
           stores  == known /\ b \notin failed /\ wanted /\ b \notin Bad
           score   == IF junk \/ fails \/ (~known /\ ~orphan) THEN 100 ELSE IF orphan THEN 10 ELSE 0
<1>a. /\ p \in Up /\ inFlight' = k.inFlight /\ nQueued' = k.nQueued
      /\ \E s \in Punished(k.node[p], score) : node' = [k.node EXCEPT ![p] = s]
      /\ IF junk THEN UNCHANGED chain
         ELSE /\ index' = IF known THEN index \cup {b} ELSE index
              /\ failed' = IF fails THEN failed \cup {b} ELSE failed
              /\ data' = IF stores THEN data \cup {b} ELSE data
              /\ tip' \in Activate(data')
      /\ met' = met /\ nSync' = nSync /\ nPreferred' = nPreferred
  BY DEF BlockMessage, Talks
<1>i. /\ Up \subseteq met /\ met \subseteq Peer
      /\ BooksOK(node, inFlight, nQueued) /\ Life(node, nSync, nPreferred) /\ ChainOK /\ CommonStored
  BY DEF IInv
<1>o. Books.node = node /\ Books.inFlight = inFlight /\ Books.nQueued = nQueued BY DEF Books
<1>k. /\ BooksOK(k.node, k.inFlight, k.nQueued) /\ DOMAIN k.node = Up
      /\ \A q \in Up : Rest(k.node[q]) = Rest(node[q])
      /\ k.inFlight = [x \in Block |-> IF x \in {b} THEN None ELSE inFlight[x]]
  <2>1. BooksOK(Books.node, Books.inFlight, Books.nQueued) BY <1>o, <1>i
  <2>2. {b} \in SUBSET Block OBVIOUS
  <2>3. /\ BooksOK(k.node, k.inFlight, k.nQueued) /\ DOMAIN k.node = DOMAIN Books.node
        /\ \A q \in DOMAIN Books.node : Rest(k.node[q]) = Rest(Books.node[q])
        /\ k.inFlight = [x \in Block |-> IF x \in {b} THEN None ELSE Books.inFlight[x]]
    BY <2>1, <2>2, ReceivedOK
  <2> HIDE DEF k
  <2> QED BY <2>3, <1>o
<1> HIDE DEF k
<1>1. ChainOK' /\ data \subseteq data'
  <2>1. CASE junk BY <2>1, <1>a, <1>i, ChainSame
  <2>2. CASE ~junk
    <3>1. /\ index' = IF known THEN index \cup {b} ELSE index
          /\ failed' = IF fails THEN failed \cup {b} ELSE failed
          /\ data' = IF stores THEN data \cup {b} ELSE data
          /\ tip' \in Activate(data')
      BY <2>2, <1>a
    <3>2. (fails => known) /\ (stores => known) OBVIOUS
    <3> HIDE DEF known, fails, stores
    <3>3. /\ Genesis \in data' /\ data' \subseteq index' /\ index' \subseteq Block
          /\ failed' \subseteq index' /\ data \subseteq data'
      BY <3>1, <3>2, <1>i DEF ChainOK
    <3> DEFINE D == data'
               linked == {c \in D : Chain[c] \subseteq D}
    <3>4. tip' \in linked
      <4> DEFINE most == {c \in linked : \A d \in linked : Height[d] <= Height[c]}
      <4>1. Activate(data') = IF tip \in most THEN {tip} ELSE most BY DEF Activate
      <4>2. most \subseteq linked OBVIOUS
      <4> HIDE DEF linked, most
      <4> QED BY <4>1, <4>2, <3>1
    <3>5. tip' \in data' /\ Chain[tip'] \subseteq data' BY <3>4
    <3> QED BY <3>3, <3>5 DEF ChainOK, Linked
  <2> QED BY <2>1, <2>2
<1> HIDE DEF score
<1>2. PICK s \in Punished(k.node[p], score) : node' = [k.node EXCEPT ![p] = s] BY <1>a
<1>3. s \in NodeType /\ Alike(s, k.node[p])
  <2>1. k.node[p] \in NodeType BY <1>a, <1>k DEF BooksOK
  <2> QED BY <2>1, <1>2, PunishedAlike
<1>4. BooksOK(node', inFlight', nQueued')
  <2>1. BooksOK([k.node EXCEPT ![p] = s], k.inFlight, k.nQueued) BY <1>a, <1>k, <1>3, AlikeOK
  <2> QED BY <2>1, <1>2, <1>a
<1>5. DOMAIN node' = Up /\ node'[p] = s /\ \A q \in Up : q # p => node'[q] = k.node[q]
  BY <1>2, <1>k, <1>a
<1>6. \A q \in Up : /\ node'[q].sync = node[q].sync /\ node'[q].preferred = node[q].preferred
                    /\ node'[q].ready = node[q].ready /\ node'[q].common = node[q].common
  <2> TAKE q \in Up
  <2>1. /\ k.node[q].sync = node[q].sync /\ k.node[q].preferred = node[q].preferred
        /\ k.node[q].ready = node[q].ready /\ k.node[q].common = node[q].common
    BY <1>k, RestSame
  <2> QED BY <2>1, <1>3, <1>5 DEF Alike
<1>7. Life(node', nSync', nPreferred') BY <1>5, <1>6, <1>i, <1>a, LifeSame
<1>8. CommonStored' BY <1>5, <1>6, <1>1, <1>i, CommonKept
<1>9. Once BY <1>a, <1>k DEF Once
<1> QED BY <1>1, <1>4, <1>5, <1>7, <1>8, <1>9, <1>a, <1>i DEF IInv

LEMMA SendMessagesKeeps ==
  ASSUME IInv, NEW p \in Up, NEW clock, SendMessages(p, clock)
  PROVE  IInv' /\ Once
<1> DEFINE s0   == node[p]
           sync == StartsSync(p, "today" \in clock)
           off  == \/ s0.disconnect \/ s0.ban
                   \/ TimedOut(clock)
           s1   == [s0 EXCEPT !.ban = FALSE, !.disconnect = off, !.sync = s0.sync \/ sync]
           asks == /\ ~off /\ s0.n < Transit
                   /\ s0.preferred \/ nPreferred = 0 \/ "synced" \in clock
           s2   == ProcessBlockAvailability(s1)
<1>a. /\ s0.ready /\ nSync' = nSync + Int01(sync)
      /\ IF ~asks THEN SetBooks([Books EXCEPT !.node[p] = s1])
         ELSE \E find \in {FindNextBlocksToDownload(s2, p, Transit - s0.n)} :
              \E k \in {MarkBlockAsInFlight([Books EXCEPT !.node[p] = [s2 EXCEPT !.common = find.common]],
                                            p, find.fetch, TRUE)} :
                 SetBooks(IF k.node[p].n = 0 /\ find.staller # None
                          THEN [k EXCEPT !.node[find.staller].stalling = TRUE] ELSE k)
      /\ met' = met /\ nPreferred' = nPreferred /\ UNCHANGED chain
  BY DEF SendMessages
<1>i. /\ Up \subseteq met /\ met \subseteq Peer
      /\ BooksOK(node, inFlight, nQueued) /\ Life(node, nSync, nPreferred) /\ ChainOK /\ CommonStored
  BY DEF IInv
<1>t. s0 \in NodeType /\ QueueOK(s0, p, inFlight) BY <1>i DEF BooksOK
<1>y. sync => ~s0.sync BY DEF StartsSync
<1>b. sync \in BOOLEAN /\ off \in BOOLEAN
  <2>1. s0.disconnect \in BOOLEAN /\ s0.ban \in BOOLEAN BY <1>t DEF NodeType
  <2> QED BY <2>1 DEF StartsSync, TimedOut
<1> HIDE DEF s0, sync, off
<1>s. /\ s1 \in NodeType /\ s1.queue = s0.queue /\ s1.n = s0.n /\ s1.nValid = s0.nValid
      /\ s1.stalling = s0.stalling /\ s1.ready = s0.ready /\ s1.preferred = s0.preferred
      /\ s1.common = s0.common /\ s1.sync = (s0.sync \/ sync)
  <2>1. s0.sync \in BOOLEAN BY <1>t DEF NodeType
  <2> DEFINE y == s0.sync \/ sync
  <2>2. y \in BOOLEAN OBVIOUS
  <2>3. s1 = [s0 EXCEPT !.ban = FALSE, !.disconnect = off, !.sync = y] OBVIOUS
  <2> HIDE DEF y, s1
  <2>4. s1 \in NodeType BY <2>2, <2>3, <1>b, <1>t DEF NodeType
  <2>5. /\ s1.queue = s0.queue /\ s1.n = s0.n /\ s1.nValid = s0.nValid
        /\ s1.stalling = s0.stalling /\ s1.ready = s0.ready /\ s1.preferred = s0.preferred
        /\ s1.common = s0.common /\ s1.sync = y
    BY <2>3, <1>t DEF NodeType
  <2> QED BY <2>4, <2>5 DEF y
<1> HIDE DEF s1
<1>p. s2 \in NodeType /\ Alike(s2, s1) BY <1>s, <1>i, AvailabilityAlike
<1> HIDE DEF s2, asks
<1>c. ChainOK' /\ data' = data BY <1>a, <1>i, ChainSame
<1>q. s0.stalling => s0.queue # <<>> BY <1>t DEF QueueOK
<1>l. ASSUME DOMAIN node' = Up, node'[p].sync = s1.sync, node'[p].preferred = s0.preferred,
             node'[p].ready = s0.ready,
             \A q \in Up \ {p} : /\ node'[q].sync = node[q].sync /\ node'[q].preferred = node[q].preferred
                                 /\ node'[q].ready = node[q].ready
      PROVE  Life(node', nSync', nPreferred')
  <2>1. (p \in SyncIn(node') <=> s0.sync \/ sync) /\ (p \in SyncIn(node) <=> s0.sync)
    BY <1>l, <1>s DEF SyncIn, s0
  <2>2. p \in PreferredIn(node') <=> p \in PreferredIn(node) BY <1>l DEF PreferredIn, s0
  <2>3. node'[p].preferred => node'[p].ready BY <1>l, <1>i DEF Life, s0
  <2>4. /\ Life(node', nSync + Int01(p \in SyncIn(node')) - Int01(p \in SyncIn(node)),
                       nPreferred + Int01(p \in PreferredIn(node')) - Int01(p \in PreferredIn(node)))
        /\ nSync \in Nat /\ nPreferred \in Nat
    BY <1>l, <2>3, <1>i, LifeChange
  <2>5. nSync + Int01(p \in SyncIn(node')) - Int01(p \in SyncIn(node)) = nSync + Int01(sync)
    BY <2>1, <2>4, <1>y DEF Int01
  <2>6. nPreferred + Int01(p \in PreferredIn(node')) - Int01(p \in PreferredIn(node)) = nPreferred
    BY <2>2, <2>4 DEF Int01
  <2> QED BY <2>4, <2>5, <2>6, <1>a
<1>1. CASE ~asks
  <2>1. node' = [node EXCEPT ![p] = s1] /\ inFlight' = inFlight /\ nQueued' = nQueued
    BY <1>1, <1>a DEF SetBooks, Books
  <2>2. DOMAIN node' = Up /\ node'[p] = s1 /\ \A q \in Up : q # p => node'[q] = node[q] BY <2>1
  <2>3. BooksOK(node', inFlight', nQueued')
    <3>1. BooksOK([node EXCEPT ![p] = s1], inFlight, nQueued) BY <1>s, <1>q, <1>i, RestOK DEF s0
    <3> QED BY <3>1, <2>1
  <2>4. Life(node', nSync', nPreferred') BY <2>2, <1>l, <1>s
  <2>5. CommonStored'
    <3>1. \A q \in Up : node'[q].common = node[q].common BY <2>2, <1>s DEF s0
    <3> QED BY <3>1, <2>2, <1>c, <1>i, CommonKept
  <2> QED BY <2>1, <2>2, <2>3, <2>4, <2>5, <1>a, <1>c, <1>i DEF IInv, Once
<1>2. CASE asks
  <2> DEFINE find == FindNextBlocksToDownload(s2, p, Transit - s0.n)
             c == [s2 EXCEPT !.common = find.common]
             k0 == [Books EXCEPT !.node[p] = c]
             k == MarkBlockAsInFlight(k0, p, find.fetch, TRUE)
             r == IF k.node[p].n = 0 /\ find.staller # None
                  THEN [k EXCEPT !.node[find.staller].stalling = TRUE] ELSE k
  <2>r. node' = r.node /\ inFlight' = r.inFlight /\ nQueued' = r.nQueued
    BY <1>2, <1>a DEF SetBooks
  <2>n. s0.n < Transit /\ s0.n \in Nat /\ Transit - s0.n \in Nat
    <3>1. s0.n = Len(s0.queue) /\ s0.queue \in Seq(Entry) BY <1>t, QueueTyped DEF QueueOK
    <3>2. s0.n \in Nat BY <3>1
    <3>3. s0.n < Transit BY <1>2 DEF asks
    <3> QED BY <3>2, <3>3, DownloadAssumption
  <2>f. /\ find.common \in Block \cup {None} /\ (find.common # None => Linked(find.common))
        /\ find.fetch \in Seq(Block) /\ Len(find.fetch) <= Transit - s0.n
        /\ \A i, j \in DOMAIN find.fetch : find.fetch[i] = find.fetch[j] => i = j
        /\ \A b \in Range(find.fetch) : inFlight[b] = None
        /\ find.staller # None => find.staller # p /\ \E b \in Block : inFlight[b] = find.staller
    <3>1. inFlight \in [Block -> Peer \cup {None}] BY <1>i DEF BooksOK
    <3>2. tip \in Block /\ Linked(tip) BY <1>i DEF ChainOK
    <3>3. s2.common # None => Linked(s2.common)
      <4>1. s2.common = node[p].common BY <1>p, <1>s DEF Alike, s0
      <4> QED BY <4>1, <1>i DEF CommonStored
    <3> DEFINE n == Transit - s0.n
    <3>4. n \in Nat /\ find = FindNextBlocksToDownload(s2, p, n) BY <2>n
    <3> HIDE DEF find, n
    <3>5. /\ find.common \in Block \cup {None} /\ (find.common # None => Linked(find.common))
          /\ find.fetch \in Seq(Block) /\ Len(find.fetch) <= n
          /\ \A i, j \in DOMAIN find.fetch : find.fetch[i] = find.fetch[j] => i = j
          /\ \A b \in Range(find.fetch) : inFlight[b] = None
          /\ find.staller # None => find.staller # p /\ \E b \in Block : inFlight[b] = find.staller
      BY <3>1, <3>2, <3>3, <3>4, <1>p, FindOK
    <3> QED BY <3>5 DEF n
  <2> HIDE DEF find
  <2>c. /\ c \in NodeType /\ c.queue = s0.queue /\ c.n = s0.n /\ c.nValid = s0.nValid
        /\ c.stalling = s0.stalling /\ c.ready = s0.ready /\ c.preferred = s0.preferred
        /\ c.common = find.common /\ c.sync = s1.sync
    <3>1. c \in NodeType BY <1>p, <2>f DEF NodeType
    <3>2. /\ c.queue = s2.queue /\ c.n = s2.n /\ c.nValid = s2.nValid
          /\ c.stalling = s2.stalling /\ c.ready = s2.ready /\ c.preferred = s2.preferred
          /\ c.common = find.common /\ c.sync = s2.sync
      BY <1>p DEF NodeType
    <3> QED BY <3>1, <3>2, <1>p, <1>s DEF Alike
  <2> HIDE DEF c
  <2>k. k0.node = [node EXCEPT ![p] = c] /\ k0.inFlight = inFlight /\ k0.nQueued = nQueued BY DEF Books
  <2> HIDE DEF k0
  <2>1. DOMAIN k0.node = Up /\ k0.node[p] = c /\ \A q \in Up : q # p => k0.node[q] = node[q] BY <2>k
  <2>2. BooksOK(k0.node, k0.inFlight, k0.nQueued)
    <3>1. BooksOK([node EXCEPT ![p] = c], inFlight, nQueued) BY <2>c, <1>q, <1>i, RestOK DEF s0
    <3> QED BY <3>1, <2>k
  <2>3. Askable(k0, p, find.fetch)
    <3>1. k0.node[p].n + Len(find.fetch) <= Transit
      <4>1. k0.node[p].n = s0.n /\ Len(find.fetch) \in Nat BY <2>1, <2>c, <2>f
      <4> QED BY <4>1, <2>n, <2>f, DownloadAssumption
    <3>2. \A b \in Range(find.fetch) : k0.inFlight[b] = None BY <2>f, <2>k
    <3> QED BY <3>1, <3>2, <2>1, <2>2, <2>f DEF Askable
  <2>4. /\ BooksOK(k.node, k.inFlight, k.nQueued)
        /\ DOMAIN k.node = DOMAIN k0.node
        /\ \A q \in DOMAIN k0.node : Rest(k.node[q]) = Rest(k0.node[q])
        /\ k.inFlight = [b \in Block |-> IF b \in Range(find.fetch) THEN p ELSE k0.inFlight[b]]
    <3>1. PICK v \in BOOLEAN : v = TRUE OBVIOUS
    <3>2. k = MarkBlockAsInFlight(k0, p, find.fetch, v) BY <3>1
    <3> HIDE DEF k
    <3> QED BY <3>2, <2>3, InFlightOK
  <2> HIDE DEF k
  <2>5. /\ DOMAIN k.node = Up
        /\ \A q \in Up : /\ k.node[q].sync = k0.node[q].sync /\ k.node[q].preferred = k0.node[q].preferred
                         /\ k.node[q].ready = k0.node[q].ready /\ k.node[q].common = k0.node[q].common
    <3>1. \A q \in Up : Rest(k.node[q]) = Rest(k0.node[q]) BY <2>1, <2>4
    <3> QED BY <3>1, <2>1, <2>4, RestSame
  <2>6. /\ BooksOK(r.node, r.inFlight, r.nQueued) /\ DOMAIN r.node = Up /\ r.inFlight = k.inFlight
        /\ \A q \in Up : /\ r.node[q].sync = k.node[q].sync /\ r.node[q].preferred = k.node[q].preferred
                         /\ r.node[q].ready = k.node[q].ready /\ r.node[q].common = k.node[q].common
    <3>1. CASE ~(k.node[p].n = 0 /\ find.staller # None)
      <4>1. r = k BY <3>1
      <4> QED BY <4>1, <2>4, <2>5
    <3>2. CASE k.node[p].n = 0 /\ find.staller # None
      <4> DEFINE st == find.staller
                 x == [k.node[st] EXCEPT !.stalling = TRUE]
      <4>1. PICK b \in Block : inFlight[b] = st BY <3>2, <2>f
      <4>2. k.inFlight[b] = st /\ st # None
        <5>1. b \notin Range(find.fetch) BY <4>1, <3>2, <2>f
        <5> QED BY <5>1, <4>1, <3>2, <2>4, <2>k
      <4>3. st \in Up /\ \E e \in Range(k.node[st].queue) : e.hash = b BY <4>2, <2>4, <2>5 DEF BooksOK
      <4>4. k.node[st] \in NodeType BY <4>3, <2>4, <2>5 DEF BooksOK
      <4>5. k.node[st].queue # <<>>
        <5>1. Range(<<>>) = {} BY DEF Range
        <5> QED BY <5>1, <4>3
      <4>6. /\ r.node = [k.node EXCEPT ![st].stalling = TRUE]
            /\ r.inFlight = k.inFlight /\ r.nQueued = k.nQueued
        <5>1. r = [k EXCEPT !.node[st].stalling = TRUE] BY <3>2
        <5>2. k = [node |-> k.node, inFlight |-> k.inFlight, nQueued |-> k.nQueued]
          BY DEF k, MarkBlockAsInFlight
        <5> HIDE DEF r, st
        <5> QED BY <5>1, <5>2
      <4> HIDE DEF r, st
      <4>7. r.node = [k.node EXCEPT ![st] = x] BY <4>6, <4>3, <2>5
      <4>8. /\ x \in NodeType /\ x.queue = k.node[st].queue /\ x.n = k.node[st].n
            /\ x.nValid = k.node[st].nValid /\ x.sync = k.node[st].sync /\ x.ready = k.node[st].ready
            /\ x.preferred = k.node[st].preferred /\ x.common = k.node[st].common
        BY <4>4 DEF NodeType
      <4> HIDE DEF x
      <4>9. BooksOK(r.node, r.inFlight, r.nQueued)
        <5>1. BooksOK([k.node EXCEPT ![st] = x], k.inFlight, k.nQueued)
          BY <4>3, <4>5, <4>8, <2>4, <2>5, RestOK
        <5> QED BY <5>1, <4>6, <4>7
      <4>10. DOMAIN r.node = Up /\ r.node[st] = x /\ \A q \in Up : q # st => r.node[q] = k.node[q]
        BY <4>7, <4>3, <2>5
      <4> QED BY <4>6, <4>8, <4>9, <4>10
    <3> QED BY <3>1, <3>2
  <2> HIDE DEF r
  <2>7. DOMAIN node' = Up BY <2>r, <2>6
  <2>8. /\ node'[p].sync = s1.sync /\ node'[p].preferred = s0.preferred /\ node'[p].ready = s0.ready
        /\ node'[p].common = find.common
        /\ \A q \in Up \ {p} : /\ node'[q].sync = node[q].sync /\ node'[q].preferred = node[q].preferred
                               /\ node'[q].ready = node[q].ready /\ node'[q].common = node[q].common
    BY <2>r, <2>6, <2>5, <2>1, <2>c
  <2>9. Life(node', nSync', nPreferred') BY <2>7, <2>8, <1>l
  <2>10. CommonStored'
    <3>1. \A q \in Up : node'[q].common # None => Linked(node'[q].common)
      BY <2>8, <2>f, <1>i DEF CommonStored
    <3> QED BY <3>1, <2>7, <1>c DEF CommonStored, Linked
  <2>11. Once
    <3>1. inFlight' = [b \in Block |-> IF b \in Range(find.fetch) THEN p ELSE inFlight[b]]
      BY <2>r, <2>6, <2>4, <2>k
    <3> QED BY <3>1, <2>f DEF Once
  <2>12. BooksOK(node', inFlight', nQueued') BY <2>r, <2>6
  <2> QED BY <2>7, <2>9, <2>10, <2>11, <2>12, <1>a, <1>c, <1>i DEF IInv
<1> QED BY <1>1, <1>2

----------------------------------------------------------------------------
(* Theorems *)

LEMMA InitOK ==
  ASSUME Init
  PROVE  IInv
<1>a. /\ node = <<>> /\ met = {} /\ inFlight = [b \in Block |-> None] /\ nQueued = 0
      /\ nSync = 0 /\ nPreferred = 0 /\ index = {Genesis} /\ data = {Genesis} /\ failed = {}
      /\ tip = Genesis
  BY DEF Init
<1>d. DOMAIN node = {} BY <1>a
<1>e. IsFiniteSet({}) /\ Cardinality({}) = 0 BY FS_EmptySet
<1>1. BooksOK(node, inFlight, nQueued)
  <2>1. ValidatedIn(node) = {} BY <1>d DEF ValidatedIn
  <2>2. Cardinality(ValidatedIn(node)) = 0 BY <1>e, <2>1
  <2>3. nQueued = 0 BY <1>a
  <2>4. nQueued \in Int /\ nQueued >= Cardinality(ValidatedIn(node)) BY <2>2, <2>3
  <2> QED BY <2>4, <1>a, <1>d DEF BooksOK
<1>2. Life(node, nSync, nPreferred)
  <2>1. SyncIn(node) = {} /\ PreferredIn(node) = {} BY <1>d DEF SyncIn, PreferredIn
  <2> QED BY <2>1, <1>a, <1>d, <1>e DEF Life
<1>3. ChainOK BY <1>a, GenesisIs DEF ChainOK, Linked
<1>4. CommonStored BY <1>d DEF CommonStored
<1> QED BY <1>1, <1>2, <1>3, <1>4, <1>a, <1>d DEF IInv

LEMMA NextOK ==
  ASSUME IInv, [Next]_vars
  PROVE  IInv' /\ Once
<1>1. CASE UNCHANGED vars
  <2>1. /\ node' = node /\ met' = met /\ inFlight' = inFlight /\ nQueued' = nQueued /\ nSync' = nSync
        /\ nPreferred' = nPreferred /\ UNCHANGED chain
    BY <1>1 DEF vars, counts
  <2>2. ChainOK' /\ data' = data BY <2>1, ChainSame DEF IInv
  <2>3. CommonStored' BY <2>1, <2>2 DEF IInv, CommonStored, Linked
  <2> QED BY <2>1, <2>2, <2>3 DEF IInv, Once
<1>2. ASSUME NEW p \in Peer, InitializeNode(p) \/ Version(p) \/ Disconnect(p) \/ FinalizeNode(p)
      PROVE  IInv' /\ Once
  BY <1>2, InitializeNodeKeeps, VersionKeeps, DisconnectKeeps, FinalizeNodeKeeps
<1>3. ASSUME NEW p \in Peer, NEW b \in Block, NEW near \in BOOLEAN, Inv(p, b, near)
      PROVE  IInv' /\ Once
  BY <1>3, InvKeeps
<1>4. ASSUME NEW p \in Peer, NEW b \in Block, NEW first \in 1 .. Height[b], Headers(p, b, first)
      PROVE  IInv' /\ Once
  BY <1>4, HeadersKeeps
<1>5. ASSUME NEW p \in Peer, NEW b \in Block, NEW junk \in BOOLEAN, BlockMessage(p, b, junk)
      PROVE  IInv' /\ Once
  BY <1>5, BlockMessageKeeps
<1>6. ASSUME NEW p \in Up, NEW clock \in Clock(p), SendMessages(p, clock)
      PROVE  IInv' /\ Once
  BY <1>6, SendMessagesKeeps
<1>7. CASE Next BY <1>7, <1>2, <1>3, <1>4, <1>5, <1>6 DEF Next
<1> QED BY <1>1, <1>7

\* what the invariant says of BooksExact
LEMMA InvGives ==
  ASSUME IInv
  PROVE  BooksExact /\ CommonStored
<1>i. /\ Up \subseteq met /\ met \subseteq Peer
      /\ BooksOK(node, inFlight, nQueued) /\ Life(node, nSync, nPreferred) /\ ChainOK /\ CommonStored
  BY DEF IInv
<1>1. PeersCounted BY <1>i DEF PeersCounted, Life, SyncIn, PreferredIn
<1>2. nSync \in Int /\ nPreferred \in Int
  <2>1. SyncIn(node) \in SUBSET Up /\ PreferredIn(node) \in SUBSET Up BY DEF SyncIn, PreferredIn
  <2>2. IsFiniteSet(Up) BY <1>i DEF Life
  <2>3. IsFiniteSet(SyncIn(node)) /\ IsFiniteSet(PreferredIn(node)) BY <2>1, <2>2, FS_Subset
  <2>4. Cardinality(SyncIn(node)) \in Nat /\ Cardinality(PreferredIn(node)) \in Nat
    BY <2>3, FS_CardinalityType
  <2> QED BY <2>4, <1>i DEF Life
<1>3. TypeOK BY <1>i, <1>2 DEF TypeOK, BooksOK, ChainOK
<1>4. Validated = ValidatedIn(node) BY DEF Validated, ValidatedIn
<1>5. EnoughQueued BY <1>4, <1>i DEF EnoughQueued, BooksOK
<1>6. StallerOwes BY <1>i DEF StallerOwes, BooksOK, QueueOK
<1>7. InFlightExact
  <2>1. \A b \in Block : inFlight[b] # None =>
           inFlight[b] \in Up /\ \E e \in Range(node[inFlight[b]].queue) : e.hash = b
    BY <1>i DEF BooksOK
  <2>2. ASSUME NEW p \in Up
        PROVE  /\ \A i, j \in DOMAIN node[p].queue : node[p].queue[i].hash = node[p].queue[j].hash => i = j
               /\ \A i \in DOMAIN node[p].queue : inFlight[node[p].queue[i].hash] = p
               /\ node[p].n = Len(node[p].queue) /\ node[p].nValid = ValidIn(node[p].queue)
               /\ Len(node[p].queue) <= Transit
    <3>1. QueueOK(node[p], p, inFlight) BY <1>i DEF BooksOK
    <3>2. \A i \in DOMAIN node[p].queue : node[p].queue[i] \in Range(node[p].queue) BY DEF Range
    <3> QED BY <3>1, <3>2 DEF QueueOK
  <2> QED BY <2>1, <2>2 DEF InFlightExact
<1> QED BY <1>1, <1>3, <1>5, <1>6, <1>7, <1>i DEF BooksExact

(***************************************************************************)
(* mapBlocksInFlight, the lists and counters of every CNodeState and the   *)
(* global counters of main.cpp agree in every reachable state, for any     *)
(* number of peers and any tree of blocks.                                 *)
(***************************************************************************)
THEOREM BooksAlwaysExact == Spec => []BooksExact
<1>1. Init => IInv BY InitOK
<1>2. IInv /\ [Next]_vars => IInv' BY NextOK
<1>3. IInv => BooksExact BY InvGives
<1> QED BY <1>1, <1>2, <1>3, PTL DEF Spec

(***************************************************************************)
(* Every block up to the pindexLastCommonBlock of a peer is stored, so     *)
(* FindNextBlocksToDownload never starts above a block that is missing.    *)
(***************************************************************************)
THEOREM CommonAlwaysStored == Spec => []CommonStored
<1>1. Init => IInv BY InitOK
<1>2. IInv /\ [Next]_vars => IInv' BY NextOK
<1>3. IInv => CommonStored BY InvGives
<1> QED BY <1>1, <1>2, <1>3, PTL DEF Spec

(***************************************************************************)
(* No step moves a block in flight from one peer to another: neither "inv" *)
(* nor SendMessages asks for a block that is in flight.                    *)
(***************************************************************************)
THEOREM NeverAskedTwice == Spec => AskedOnce
<1>1. Init => IInv BY InitOK
<1>2. IInv /\ [Next]_vars => IInv' BY NextOK
<1>3. IInv /\ [Next]_vars =>
      [\A b \in Block : inFlight[b] # None /\ inFlight'[b] # None => inFlight'[b] = inFlight[b]]_inFlight
  BY NextOK DEF Once
<1> QED BY <1>1, <1>2, <1>3, PTL DEF Spec, AskedOnce

===============================================================================
