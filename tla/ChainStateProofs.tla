--------------------------- MODULE ChainStateProofs ---------------------------
(***************************************************************************)
(* Proofs about ChainState, for any block tree, any number of threads and  *)
(* any choice of blocks that ConnectBlock rejects: the inductive invariant *)
(* IInv, one lemma per action; for a node that neither prunes nor is told  *)
(* to reconsider a block, JInv on top of it, from which the tip is the     *)
(* best chain at rest; UInv, from which CheckBlockIndex holds; and, for a  *)
(* node that prunes, however deep, KInv, from which mapBlocksUnlinked is   *)
(* exact and the heaviest valid chain is not missed.                       *)
(***************************************************************************)
EXTENDS ChainState, FiniteSetTheorems, WellFoundedInduction, TLAPS

----------------------------------------------------------------------------
(* The block tree *)

\* two blocks of one chain are comparable
LEMMA Comparable ==
  ASSUME NEW c \in Block, NEW x \in Anc[c], NEW y \in Anc[c]
  PROVE  x \in Anc[y] \/ y \in Anc[x]
<1>1. {x, y} \in SUBSET Anc[c] /\ {x, y} # {} OBVIOUS
<1>2. \A S \in SUBSET Anc[c] : S # {} => \E top \in S : S \subseteq Anc[top]
  BY TreeAssumption
<1>3. \E top \in {x, y} : {x, y} \subseteq Anc[top] BY ONLY <1>1, <1>2
<1> QED BY <1>3

LEMMA AncTransitive ==
  ASSUME NEW b \in Block, NEW a \in Anc[b]
  PROVE  a \in Block /\ Anc[a] \subseteq Anc[b] /\ Anc[b] \subseteq Block
  BY TreeAssumption

LEMMA AncOfChild ==
  ASSUME NEW b \in Block \ {Genesis}
  PROVE  /\ Parent[b] \in Block
         /\ Anc[b] = Anc[Parent[b]] \cup {b}
         /\ b \notin Anc[Parent[b]]
  BY TreeAssumption

LEMMA HighestExists ==
  ASSUME NEW b \in Block, NEW S \in SUBSET Anc[b], S # {}
  PROVE  Highest(S) \in S
<1>1. \E top \in S : S \subseteq Anc[top] BY TreeAssumption
<1> QED BY <1>1 DEF Highest

----------------------------------------------------------------------------
(* The critical sections that run while no activation is under way *)

LEMMA InitOK == Init => IInv
<1> SUFFICES ASSUME Init PROVE IInv OBVIOUS
<1> USE TreeAssumption, ContentAssumption DEF Init
<1>1. TypeOK BY DEF TypeOK, PC
<1>2. LinkedClosed BY DEF LinkedClosed
<1>3. TipLinked BY DEF TipLinked
<1>4. TipUnfailed BY DEF TipUnfailed, failed
<1>5. SwitchSafe BY DEF SwitchSafe
<1>6. OneSwitch BY DEF OneSwitch
<1> QED BY <1>1, <1>2, <1>3, <1>4, <1>5, <1>6 DEF IInv

LEMMA AcceptBlockHeaderOK ==
  ASSUME IInv, NEW b \in Block, AcceptBlockHeader(b)
  PROVE  IInv'
<1> USE DEF AcceptBlockHeader, threadVars
<1>1. TypeOK' BY DEF IInv, TypeOK
<1>2. LinkedClosed' BY DEF IInv, LinkedClosed
<1>3. TipLinked' BY DEF IInv, TipLinked
<1>4. TipUnfailed' BY DEF IInv, TipUnfailed, failed
<1>5. SwitchSafe' BY DEF Free, SwitchSafe
<1>6. OneSwitch' BY DEF IInv, OneSwitch
<1>7. unlinked' \subseteq nTx' /\ candidates' \subseteq nChainTx' BY DEF IInv
<1> QED BY <1>1, <1>2, <1>3, <1>4, <1>5, <1>6, <1>7 DEF IInv

LEMMA PruneOneBlockFileOK ==
  ASSUME IInv, NEW b \in Block, PruneOneBlockFile(b)
  PROVE  IInv'
<1> USE DEF PruneOneBlockFile, threadVars
<1>1. TypeOK' BY DEF IInv, TypeOK
<1>2. LinkedClosed' BY DEF IInv, LinkedClosed
<1>3. TipLinked' BY DEF IInv, TipLinked
<1>4. TipUnfailed' BY DEF IInv, TipUnfailed, failed
<1>5. SwitchSafe' BY DEF IInv, SwitchSafe, failed
<1>6. OneSwitch' BY DEF IInv, OneSwitch
<1>7. unlinked' \subseteq nTx' /\ candidates' \subseteq nChainTx' BY DEF IInv
<1> QED BY <1>1, <1>2, <1>3, <1>4, <1>5, <1>6, <1>7 DEF IInv

LEMMA ReconsiderBlockOK ==
  ASSUME IInv, NEW t \in Thread, NEW b \in Block, ReconsiderBlock(t, b)
  PROVE  IInv'
<1> USE DEF ReconsiderBlock, indexVars, threadVars
<1>p. \A u \in Thread : pc'[u] # "switch" BY DEF IInv, TypeOK, PC, Free
<1>1. TypeOK' BY TreeAssumption DEF IInv, TypeOK, PC
<1>2. LinkedClosed' BY DEF IInv, LinkedClosed
<1>3. TipLinked' BY DEF IInv, TipLinked
<1>4. TipUnfailed' BY DEF IInv, TipUnfailed, failed
<1>5. SwitchSafe' BY <1>p DEF SwitchSafe
<1>6. OneSwitch' BY <1>p DEF OneSwitch
<1>7. unlinked' \subseteq nTx' /\ candidates' \subseteq nChainTx' BY DEF IInv
<1> QED BY <1>1, <1>2, <1>3, <1>4, <1>5, <1>6, <1>7 DEF IInv

(***************************************************************************)
(* InvalidateBlock takes the tip below everything it marks.  When the node *)
(* aborts on the way the marks may reach above the tip, which is why       *)
(* TipUnfailed speaks of a node that has not aborted.                      *)
(***************************************************************************)
LEMMA InvalidateBlockOK ==
  ASSUME IInv, NEW t \in Thread, NEW b \in Invalidatable, InvalidateBlock(t, b)
  PROVE  IInv'
<1> DEFINE walk == Walk(b)
           gone == walk \ haveData
           newTip == IF walk = {} THEN tip ELSE Parent[b]
<1>b. b \in Block \ {Genesis} BY ContentAssumption
<1>w. /\ walk \subseteq Anc[tip]
      /\ b \in Anc[tip] => walk = Anc[tip] \ Anc[Parent[b]] /\ b \in walk
      /\ b \notin Anc[tip] => walk = {}
  BY <1>b, AncOfChild DEF Walk, IInv, TypeOK
<1>f. /\ Free /\ failedValid' = failedValid \cup {b}
      /\ mapBlockIndex' = mapBlockIndex /\ nTx' = nTx /\ haveData' = haveData
      /\ nChainTx' = nChainTx /\ nSequenceId' = nSequenceId
      /\ nBlockSequenceId' = nBlockSequenceId /\ unlinked' = unlinked
      /\ mostWork' = mostWork /\ oldTip' = oldTip
  BY DEF InvalidateBlock, indexVars, threadVars
<1>t. tip \in Block /\ Anc[tip] \subseteq Block /\ Anc[tip] \subseteq nChainTx \cap Sound
  BY AncTransitive, TreeAssumption DEF IInv, TypeOK, TipLinked
<1>2. LinkedClosed' BY <1>f DEF IInv, LinkedClosed
<1>c. CASE /\ gone = {} /\ tip' = newTip /\ failedChild' = failedChild \cup walk
           /\ candidates' = (candidates \ (walk \cup {b}))
                               \cup RestoreCandidates(newTip, failed \cup walk \cup {b})
           /\ pc' = [pc EXCEPT ![t] = "find"] /\ node' = node
  <2>p. \A u \in Thread : pc'[u] # "switch" BY <1>c, <1>f DEF IInv, TypeOK, PC, Free
  <2>n. /\ newTip \in Block /\ Anc[newTip] \subseteq Anc[tip]
        /\ Anc[newTip] \cap (walk \cup {b}) = {}
    <3>1. CASE b \in Anc[tip]
      <4>1. newTip = Parent[b] /\ walk = Anc[tip] \ Anc[Parent[b]] BY <3>1, <1>w
      <4>2. Anc[b] \subseteq Anc[tip] BY <3>1, <1>t, AncTransitive
      <4>3. /\ Parent[b] \in Block /\ Anc[b] = Anc[Parent[b]] \cup {b}
            /\ b \notin Anc[Parent[b]]
        BY <1>b, AncOfChild
      <4> QED BY <4>1, <4>2, <4>3
    <3>2. CASE b \notin Anc[tip] BY <3>2, <1>w, <1>t
    <3> QED BY <3>1, <3>2
  <2>r. RestoreCandidates(newTip, failed \cup walk \cup {b}) \subseteq nChainTx
    BY DEF RestoreCandidates
  <2>1. TypeOK'
    <3>1. candidates' \subseteq Block BY <1>c, <2>r DEF IInv, TypeOK
    <3>2. pc' \in [Thread -> PC] BY <1>c DEF IInv, TypeOK, PC
    <3> HIDE DEF walk, newTip, gone
    <3>3. failedChild' \subseteq Block /\ tip' \in Block /\ node' = node
      BY <1>c, <1>t, <1>w, <2>n DEF IInv, TypeOK
    <3> QED BY <1>f, <1>b, <3>1, <3>2, <3>3 DEF IInv, TypeOK
  <2>3. TipLinked' BY <1>c, <1>f, <2>n, <1>t DEF TipLinked
  <2>4. TipUnfailed'
    <3> HIDE DEF walk, newTip, gone
    <3> QED BY <1>c, <1>f, <2>n DEF IInv, TipUnfailed, failed
  <2>5. SwitchSafe' BY <2>p DEF SwitchSafe
  <2>6. OneSwitch' BY <2>p DEF OneSwitch
  <2>7. unlinked' \subseteq nTx' /\ candidates' \subseteq nChainTx'
    BY <1>c, <1>f, <2>r DEF IInv
  <2> QED BY <1>2, <2>1, <2>3, <2>4, <2>5, <2>6, <2>7 DEF IInv
<1>d. CASE /\ gone # {} /\ tip' = Highest(gone)
           /\ failedChild' = failedChild \cup {Highest(gone)} \cup Above(tip, Highest(gone))
           /\ candidates' = candidates \ ({b, Highest(gone)} \cup Above(tip, Highest(gone)))
           /\ node' = "aborted" /\ pc' = pc
  <2>p. \A u \in Thread : pc'[u] # "switch" BY <1>d, <1>f DEF Free
  <2>n. Highest(gone) \in Anc[tip]
    <3>1. gone \in SUBSET Anc[tip] BY <1>w
    <3>2. Highest(gone) \in gone BY <3>1, <1>d, <1>t, HighestExists
    <3> QED BY <3>1, <3>2
  <2>m. tip' \in Block /\ Anc[tip'] \subseteq Anc[tip] BY <2>n, <1>d, <1>t, AncTransitive
  <2> HIDE DEF gone
  <2>a. Above(tip, Highest(gone)) \subseteq Block BY <1>t DEF Above
  <2>1. TypeOK' BY <1>d, <1>f, <1>b, <2>a, <2>m DEF IInv, TypeOK
  <2>3. TipLinked' BY <1>f, <2>m, <1>t DEF TipLinked
  <2>4. TipUnfailed' BY <1>d DEF TipUnfailed
  <2>5. SwitchSafe' BY <2>p DEF SwitchSafe
  <2>6. OneSwitch' BY <2>p DEF OneSwitch
  <2>7. unlinked' \subseteq nTx' /\ candidates' \subseteq nChainTx'
    BY <1>d, <1>f DEF IInv
  <2> QED BY <1>2, <2>1, <2>3, <2>4, <2>5, <2>6, <2>7 DEF IInv
<1> QED BY <1>c, <1>d DEF InvalidateBlock

(***************************************************************************)
(* ReceivedBlockTransactions links b and what waited for it: the linked    *)
(* blocks stay closed under parents, and all of them have been received.   *)
(***************************************************************************)
LEMMA NewlyLinkedClosed ==
  ASSUME IInv, NEW b \in Block \ {Genesis}, Parent[b] \in nChainTx
  PROVE  /\ NewlyLinked(b) \subseteq Block
         /\ NewlyLinked(b) \subseteq nTx \cup {b}
         /\ \A x \in NewlyLinked(b) : Anc[x] \subseteq nChainTx \cup NewlyLinked(b)
<1>1. NewlyLinked(b) \subseteq Block BY DEF NewlyLinked
<1>2. ASSUME NEW x \in NewlyLinked(b), x # b PROVE x \in nTx
  <2>1. x \in Block /\ b \in Anc[x] /\ Anc[x] \ Anc[b] \subseteq unlinked BY DEF NewlyLinked
  <2>2. x \in Anc[x] /\ x \notin Anc[b] BY <2>1, <1>2, TreeAssumption
  <2> QED BY <2>1, <2>2 DEF IInv
<1>3. ASSUME NEW x \in NewlyLinked(b), NEW y \in Anc[x]
      PROVE  y \in nChainTx \cup NewlyLinked(b)
  <2>1. x \in Block /\ b \in Anc[x] /\ Anc[x] \ Anc[b] \subseteq unlinked BY DEF NewlyLinked
  <2>2. y \in Block /\ Anc[y] \subseteq Anc[x] BY <2>1, AncTransitive
  <2>3. Anc[b] = Anc[Parent[b]] \cup {b} /\ Anc[Parent[b]] \subseteq nChainTx
    BY AncOfChild DEF IInv, LinkedClosed
  <2>4. CASE y \in Anc[Parent[b]] BY <2>4, <2>3
  <2>5. CASE y \notin Anc[Parent[b]]
    <3>1. b \in Anc[y]
      <4>1. CASE y = b BY <4>1, TreeAssumption
      <4>2. CASE y # b
        <5>1. y \notin Anc[b] BY <4>2, <2>5, <2>3
        <5> QED BY <5>1, <2>1, Comparable
      <4> QED BY <4>1, <4>2
    <3>2. Anc[y] \ Anc[b] \subseteq unlinked BY <2>1, <2>2
    <3> QED BY <3>1, <3>2, <2>2 DEF NewlyLinked
  <2> QED BY <2>4, <2>5
<1> QED BY <1>1, <1>2, <1>3

LEMMA NumberingsTyped ==
  ASSUME NEW L \in SUBSET Block, nBlockSequenceId \in Nat, NEW f \in Numberings(L)
  PROVE  /\ Cardinality(L) \in Nat
         /\ \A x \in L : f[x] \in Nat
<1>1. IsFiniteSet(L) BY TreeAssumption, FS_Subset
<1>2. Cardinality(L) \in Nat BY <1>1, FS_CardinalityType
<1>3. f \in [L -> nBlockSequenceId .. nBlockSequenceId + Cardinality(L) - 1] BY DEF Numberings
<1>4. \A k \in nBlockSequenceId .. nBlockSequenceId + Cardinality(L) - 1 : k \in Nat BY <1>2
<1> QED BY <1>2, <1>3, <1>4

\* a change of the index under cs_main that leaves the tip and the flags of
\* the active chain alone
LEMMA IndexStep ==
  ASSUME IInv, TypeOK', LinkedClosed',
         nChainTx \subseteq nChainTx', unlinked' \subseteq nTx', candidates' \subseteq nChainTx',
         tip' = tip, node' = node,
         Anc[tip] \cap failed' \subseteq failed,
         \A t \in Thread : pc'[t] # "switch"
  PROVE  IInv'
<1>1. TipLinked' BY DEF IInv, TipLinked
<1>2. TipUnfailed' BY DEF IInv, TipUnfailed
<1>3. SwitchSafe' BY DEF SwitchSafe
<1>4. OneSwitch' BY DEF OneSwitch
<1> QED BY <1>1, <1>2, <1>3, <1>4 DEF IInv

LEMMA ProcessNewBlockOK ==
  ASSUME IInv, NEW t \in Thread, NEW b \in Block, NEW fRequested \in BOOLEAN,
         ProcessNewBlock(t, b, fRequested)
  PROVE  IInv'
<1> DEFINE skip == NotProcessed(b, fRequested)
<1>g. b \in Block \ {Genesis} BY DEF ProcessNewBlock
<1>f. /\ Free /\ mapBlockIndex' = mapBlockIndex \cup {b}
      /\ failedChild' = failedChild /\ tip' = tip /\ node' = node
      /\ mostWork' = mostWork /\ oldTip' = oldTip
  BY DEF ProcessNewBlock, threadVars
<1>1. CASE /\ skip /\ pc' = [pc EXCEPT ![t] = "find"]
           /\ UNCHANGED <<nTx, haveData, nChainTx, failedValid, nSequenceId, nBlockSequenceId,
                          candidates, unlinked>>
  <2> HIDE DEF skip
  <2>1. TypeOK' BY <1>1, <1>f DEF IInv, TypeOK, PC
  <2>2. LinkedClosed' BY <1>1 DEF IInv, LinkedClosed
  <2>3. \A u \in Thread : pc'[u] # "switch" BY <1>1, <1>f DEF IInv, TypeOK, PC, Free
  <2>4. unlinked' \subseteq nTx' /\ candidates' \subseteq nChainTx' /\ nChainTx \subseteq nChainTx'
    BY <1>1 DEF IInv
  <2>5. failed' = failed BY <1>1, <1>f DEF failed
  <2> QED BY <2>1, <2>2, <2>3, <2>4, <2>5, <1>f, IndexStep
<1>2. CASE /\ ~skip /\ b \notin WellFormed /\ failedValid' = failedValid \cup {b}
           /\ UNCHANGED <<nTx, haveData, nChainTx, nSequenceId, nBlockSequenceId, candidates,
                          unlinked, pc>>
  <2> HIDE DEF skip
  <2>1. TypeOK' BY <1>2, <1>f DEF IInv, TypeOK
  <2>2. LinkedClosed' BY <1>2 DEF IInv, LinkedClosed
  <2>3. \A u \in Thread : pc'[u] # "switch" BY <1>2, <1>f DEF Free
  <2>4. unlinked' \subseteq nTx' /\ candidates' \subseteq nChainTx' /\ nChainTx \subseteq nChainTx'
    BY <1>2 DEF IInv
  <2>5. Anc[tip] \cap failed' \subseteq failed
    BY <1>2, <1>f, ContentAssumption DEF IInv, TipLinked, failed
  <2> QED BY <2>1, <2>2, <2>3, <2>4, <2>5, <1>f, IndexStep
<1>3. CASE /\ ~skip /\ b \in WellFormed /\ ReceivedBlockTransactions(b)
           /\ pc' = [pc EXCEPT ![t] = "find"] /\ failedValid' = failedValid
  <2> HIDE DEF skip
  <2>3. \A u \in Thread : pc'[u] # "switch" BY <1>3, <1>f DEF IInv, TypeOK, PC, Free
  <2>5. failed' = failed BY <1>3, <1>f DEF failed
  <2>x. nTx' = nTx \cup {b} /\ haveData' = haveData \cup {b}
    BY <1>3 DEF ReceivedBlockTransactions
  <2>p. pc' \in [Thread -> PC] BY <1>3 DEF IInv, TypeOK, PC
  <2>a. CASE Parent[b] \in nChainTx
    <3> DEFINE L == NewlyLinked(b)
    <3>1. /\ nChainTx' = nChainTx \cup L
          /\ nBlockSequenceId' = nBlockSequenceId + Cardinality(L)
          /\ candidates' \subseteq candidates \cup L
          /\ unlinked' \subseteq unlinked
          /\ \E f \in Numberings(L) :
                nSequenceId' = [x \in Block |-> IF x \in L THEN f[x] ELSE nSequenceId[x]]
      BY <1>3, <2>a DEF ReceivedBlockTransactions
    <3>2. /\ L \subseteq Block /\ L \subseteq nTx \cup {b}
          /\ \A x \in L : Anc[x] \subseteq nChainTx \cup L
      BY <2>a, <1>g, NewlyLinkedClosed
    <3> HIDE DEF L
    <3>3. nSequenceId' \in [Block -> Nat] /\ nBlockSequenceId' \in Nat
      <4>1. PICK f \in Numberings(L) :
                nSequenceId' = [x \in Block |-> IF x \in L THEN f[x] ELSE nSequenceId[x]]
        BY <3>1
      <4>2. Cardinality(L) \in Nat /\ \A x \in L : f[x] \in Nat
        BY <3>2, NumberingsTyped DEF IInv, TypeOK
      <4> QED BY <4>1, <4>2, <3>1 DEF IInv, TypeOK
    <3>4. TypeOK' BY <3>1, <3>2, <3>3, <2>p, <2>x, <1>3, <1>f DEF IInv, TypeOK
    <3>5. LinkedClosed' BY <3>1, <3>2 DEF IInv, LinkedClosed
    <3>6. unlinked' \subseteq nTx' /\ candidates' \subseteq nChainTx' /\ nChainTx \subseteq nChainTx'
      BY <3>1, <2>x DEF IInv
    <3> QED BY <2>3, <2>5, <3>4, <3>5, <3>6, <1>f, IndexStep
  <2>b. CASE Parent[b] \notin nChainTx
    <3>1. /\ nChainTx' = nChainTx \ {b} /\ unlinked' \subseteq unlinked \cup {b}
          /\ UNCHANGED <<nSequenceId, nBlockSequenceId, candidates>>
      BY <1>3, <2>b DEF ReceivedBlockTransactions, ParkUnlinked
    <3>2. b \notin nChainTx
      <4>1. Parent[b] \in Anc[b] BY <1>g, AncOfChild, TreeAssumption
      <4> QED BY <4>1, <2>b DEF IInv, LinkedClosed
    <3>3. nChainTx' = nChainTx BY <3>1, <3>2
    <3>4. TypeOK' BY <3>1, <3>3, <2>p, <2>x, <1>3, <1>f DEF IInv, TypeOK
    <3>5. LinkedClosed' BY <3>3 DEF IInv, LinkedClosed
    <3>6. unlinked' \subseteq nTx' /\ candidates' \subseteq nChainTx' /\ nChainTx \subseteq nChainTx'
      BY <3>1, <3>3, <2>x DEF IInv
    <3> QED BY <2>3, <2>5, <3>4, <3>5, <3>6, <1>f, IndexStep
  <2> QED BY <2>a, <2>b
<1> QED BY <1>1, <1>2, <1>3 DEF ProcessNewBlock

LEMMA LoadBlockIndexDBOK ==
  ASSUME IInv, NEW t \in Thread, LoadBlockIndexDB(t)
  PROVE  IInv'
<1> DEFINE link == {b \in Block : Anc[b] \subseteq nTx}
<1>f. /\ node = "stopping" /\ node' = "running" /\ \A u \in Thread : pc[u] = "idle"
      /\ nSequenceId' = [b \in Block |-> 0] /\ nBlockSequenceId' = 1
      /\ nChainTx' = link /\ unlinked' \subseteq nTx /\ failedChild' \subseteq failedChild
      /\ candidates' \subseteq link /\ pc' = [pc EXCEPT ![t] = "find"]
      /\ UNCHANGED <<mapBlockIndex, nTx, haveData, failedValid, tip, mostWork, oldTip>>
  BY DEF LoadBlockIndexDB, threadVars
<1>l. link \subseteq nTx /\ \A x \in link : Anc[x] \subseteq link
  <2>1. \A x \in link : x \in nTx BY TreeAssumption
  <2>2. ASSUME NEW x \in link, NEW y \in Anc[x] PROVE y \in link
    <3>1. y \in Block /\ Anc[y] \subseteq Anc[x] BY AncTransitive
    <3> QED BY <3>1
  <2> QED BY <2>1, <2>2
<1>t. Anc[tip] \subseteq link
  <2>1. tip \in link BY DEF IInv, TypeOK, TipLinked
  <2> QED BY <2>1, <1>l
<1>b. link \subseteq Block OBVIOUS
<1> HIDE DEF link
<1>p. \A u \in Thread : pc'[u] # "switch" BY <1>f DEF IInv, TypeOK, PC
<1>1. TypeOK' BY <1>f, <1>l, <1>b DEF IInv, TypeOK, PC
<1>2. LinkedClosed' BY <1>f, <1>l DEF LinkedClosed
<1>3. TipLinked' BY <1>f, <1>t DEF IInv, TipLinked
<1>4. TipUnfailed' BY <1>f DEF IInv, TipUnfailed, failed
<1>5. SwitchSafe' BY <1>p DEF SwitchSafe
<1>6. OneSwitch' BY <1>p DEF OneSwitch
<1>7. unlinked' \subseteq nTx' /\ candidates' \subseteq nChainTx' BY <1>f
<1> QED BY <1>1, <1>2, <1>3, <1>4, <1>5, <1>6, <1>7 DEF IInv

----------------------------------------------------------------------------
(* The activation *)

LEMMA StartShutdownOK == ASSUME IInv, StartShutdown PROVE IInv'
<1> USE DEF StartShutdown, indexVars, threadVars
<1>1. TypeOK' BY DEF IInv, TypeOK
<1>2. LinkedClosed' BY DEF IInv, LinkedClosed
<1>3. TipLinked' BY DEF IInv, TipLinked
<1>4. TipUnfailed' BY DEF IInv, TipUnfailed, failed
<1>5. SwitchSafe' BY DEF IInv, SwitchSafe, failed
<1>6. OneSwitch' BY DEF IInv, OneSwitch
<1>7. unlinked' \subseteq nTx' /\ candidates' \subseteq nChainTx' BY DEF IInv
<1> QED BY <1>1, <1>2, <1>3, <1>4, <1>5, <1>6, <1>7 DEF IInv

\* a thread's step that changes nothing but where the thread is
LEMMA MoveOK ==
  ASSUME IInv, NEW t \in Thread, NEW s \in PC \ {"switch"}, pc' = [pc EXCEPT ![t] = s],
         UNCHANGED <<indexVars, failedValid, failedChild, candidates, tip, threadVars, node>>
  PROVE  IInv'
<1> USE DEF indexVars, threadVars
<1>1. TypeOK' BY DEF IInv, TypeOK
<1>2. LinkedClosed' BY DEF IInv, LinkedClosed
<1>3. TipLinked' BY DEF IInv, TipLinked
<1>4. TipUnfailed' BY DEF IInv, TipUnfailed, failed
<1>p. \A u \in Thread : pc'[u] = "switch" => pc[u] = "switch" BY DEF IInv, TypeOK, PC
<1>5. SwitchSafe' BY <1>p DEF IInv, SwitchSafe, failed
<1>6. OneSwitch' BY <1>p DEF IInv, OneSwitch
<1>7. unlinked' \subseteq nTx' /\ candidates' \subseteq nChainTx' BY DEF IInv
<1> QED BY <1>1, <1>2, <1>3, <1>4, <1>5, <1>6, <1>7 DEF IInv

LEMMA LeaveActivationOK == ASSUME IInv, NEW t \in Thread, LeaveActivation(t) PROVE IInv'
<1>1. "idle" \in PC \ {"switch"} BY DEF PC
<1> QED BY <1>1, MoveOK DEF LeaveActivation

LEMMA LoopConditionOK == ASSUME IInv, NEW t \in Thread, LoopCondition(t) PROVE IInv'
<1>1. (IF Unfinished(t) THEN "find" ELSE "idle") \in PC \ {"switch"} BY DEF PC
<1> QED BY <1>1, MoveOK DEF LoopCondition

(***************************************************************************)
(* FindMostWorkChain marks only blocks above a failed one, so neither the  *)
(* active chain nor the chain it returns is touched.                       *)
(***************************************************************************)
LEMMA FindMostWorkChainMarks ==
  ASSUME IInv, FindMostWorkChain
  PROVE  /\ candidates' \subseteq candidates
         /\ failedChild' \subseteq Block
         /\ unlinked' \subseteq nTx
         /\ \A c \in Block : Anc[c] \cap failed = {} => Anc[c] \cap failedChild' = {}
<1>1. ASSUME NEW x PROVE DroppedFor(x) \subseteq nChainTx
  <2>1. ASSUME NEW d \in Dropped PROVE Above(d, x) \subseteq nChainTx
    BY DEF Dropped, Above, IInv, LinkedClosed
  <2> QED BY <2>1 DEF DroppedFor
<1>2. ASSUME NEW x \in failed, NEW y \in DroppedFor(x) PROVE x \in Anc[y]
  BY DEF DroppedFor, Above
<1>3. candidates' \subseteq candidates BY DEF FindMostWorkChain
<1>4. failedChild' \subseteq Block /\ unlinked' \subseteq nTx
  <2>1. failedChild' \subseteq failedChild \cup nChainTx BY <1>1 DEF FindMostWorkChain
  <2>2. unlinked' \subseteq unlinked \cup nChainTx BY <1>1 DEF FindMostWorkChain
  <2> QED BY <2>1, <2>2 DEF IInv, TypeOK
<1>5. ASSUME NEW c \in Block, Anc[c] \cap failed = {}, NEW y \in Anc[c], y \in failedChild'
      PROVE  FALSE
  <2>1. y \notin failedChild BY <1>5 DEF failed
  <2>2. PICK x \in failed : y \in DroppedFor(x) BY <2>1, <1>5 DEF FindMostWorkChain
  <2>3. x \in Anc[y] BY <2>2, <1>2
  <2>4. x \in Anc[c] BY <2>3, AncTransitive
  <2> QED BY <2>4, <1>5
<1> QED BY <1>3, <1>4, <1>5

LEMMA ActivateBestChainOK ==
  ASSUME IInv, NEW t \in Thread, ActivateBestChain(t)
  PROVE  IInv'
<1>f. /\ node = "running" /\ node' = node /\ tip' = tip /\ Free /\ failedValid' = failedValid
      /\ UNCHANGED <<mapBlockIndex, nTx, haveData, nChainTx, nSequenceId, nBlockSequenceId>>
      /\ FindMostWorkChain
  BY DEF ActivateBestChain
<1>m. /\ candidates' \subseteq candidates /\ failedChild' \subseteq Block /\ unlinked' \subseteq nTx
      /\ \A c \in Block : Anc[c] \cap failed = {} => Anc[c] \cap failedChild' = {}
  BY <1>f, FindMostWorkChainMarks
<1>n. \A c \in Block : Anc[c] \cap failed = {} => Anc[c] \cap failed' = {}
  BY <1>m, <1>f DEF failed
<1>t. tip \in Block /\ Anc[tip] \cap failed = {} BY <1>f DEF IInv, TypeOK, TipUnfailed
<1>2. LinkedClosed' BY <1>f DEF IInv, LinkedClosed
<1>3. TipLinked' BY <1>f DEF IInv, TipLinked
<1>4. TipUnfailed' BY <1>f, <1>n, <1>t DEF TipUnfailed
<1>7. unlinked' \subseteq nTx' /\ candidates' \subseteq nChainTx' BY <1>f, <1>m DEF IInv
<1>y. /\ mapBlockIndex' \subseteq Block /\ nTx' \subseteq mapBlockIndex'
      /\ haveData' \subseteq nTx' /\ nChainTx' \subseteq nTx'
      /\ failedValid' \subseteq Block /\ failedChild' \subseteq Block
      /\ nSequenceId' \in [Block -> Nat] /\ nBlockSequenceId' \in Nat
      /\ candidates' \subseteq Block /\ unlinked' \subseteq Block
      /\ tip' \in Block /\ node' \in {"running", "stopping", "aborted"}
  BY <1>f, <1>m DEF IInv, TypeOK
<1>a. CASE pc' = [pc EXCEPT ![t] = "idle"] /\ mostWork' = mostWork /\ oldTip' = oldTip
  <2>p. \A u \in Thread : pc'[u] # "switch" BY <1>a, <1>f DEF IInv, TypeOK, PC, Free
  <2>1. TypeOK'
    <3>1. pc' \in [Thread -> PC] /\ mostWork' \in [Thread -> Block] /\ oldTip' \in [Thread -> Block]
      BY <1>a DEF IInv, TypeOK, PC
    <3> QED BY <1>y, <3>1 DEF TypeOK
  <2>5. SwitchSafe' BY <2>p DEF SwitchSafe
  <2>6. OneSwitch' BY <2>p DEF OneSwitch
  <2> QED BY <1>2, <1>3, <1>4, <1>7, <2>1, <2>5, <2>6 DEF IInv
<1>b. CASE \E c \in Usable \ {tip} : /\ pc' = [pc EXCEPT ![t] = "switch"]
                                     /\ mostWork' = [mostWork EXCEPT ![t] = c]
                                     /\ oldTip' = [oldTip EXCEPT ![t] = tip]
  <2>1. PICK c \in Usable : /\ pc' = [pc EXCEPT ![t] = "switch"]
                            /\ mostWork' = [mostWork EXCEPT ![t] = c]
                            /\ oldTip' = [oldTip EXCEPT ![t] = tip]
    BY <1>b
  <2>2. c \in nChainTx /\ c \in Block /\ Obstacles(c) = {} BY DEF Usable, IInv, TypeOK
  <2>3. Anc[c] \cap failed = {} BY <2>2, <1>t DEF Obstacles
  <2>4. Anc[c] \cap failed' = {} BY <2>2, <2>3, <1>n
  <2>5. TypeOK'
    <3>1. pc' \in [Thread -> PC] /\ mostWork' \in [Thread -> Block] /\ oldTip' \in [Thread -> Block]
      BY <2>1, <2>2, <1>t DEF IInv, TypeOK, PC
    <3> QED BY <1>y, <3>1 DEF TypeOK
  <2>6. \A u \in Thread : pc'[u] = "switch" => u = t /\ mostWork'[u] = c
    BY <2>1, <1>f DEF IInv, TypeOK, PC, Free
  <2>7. SwitchSafe' BY <2>2, <2>4, <2>6, <1>f DEF SwitchSafe
  <2>8. OneSwitch' BY <2>6 DEF OneSwitch
  <2> QED BY <1>2, <1>3, <1>4, <1>7, <2>5, <2>7, <2>8 DEF IInv
<1> QED BY <1>a, <1>b DEF ActivateBestChain, threadVars

LEMMA DisconnectTipOK ==
  ASSUME IInv, NEW t \in Thread, DisconnectTip(t)
  PROVE  IInv'
<1>f. /\ pc[t] = "switch" /\ tip \notin Anc[mostWork[t]]
      /\ UNCHANGED <<mapBlockIndex, nTx, haveData, nChainTx, nSequenceId, nBlockSequenceId,
                     unlinked, failedValid, failedChild, candidates, mostWork, oldTip>>
  BY DEF DisconnectTip, indexVars, threadVars
<1>g. tip \in Block \ {Genesis}
  <2>1. mostWork[t] \in Block BY DEF IInv, TypeOK
  <2> QED BY <2>1, <1>f, TreeAssumption DEF IInv, TypeOK
<1>u. \A u \in Thread \ {t} : pc[u] # "switch" BY <1>f DEF IInv, OneSwitch
<1>2. LinkedClosed' BY <1>f DEF IInv, LinkedClosed
<1>7. unlinked' \subseteq nTx' /\ candidates' \subseteq nChainTx' BY <1>f DEF IInv
<1>1. CASE tip' = Parent[tip] /\ pc' = pc /\ node' = node
  <2>1. tip' \in Block /\ Anc[tip'] \subseteq Anc[tip] BY <1>1, <1>g, AncOfChild
  <2>2. TypeOK' BY <1>1, <1>f, <2>1 DEF IInv, TypeOK
  <2>3. TipLinked' BY <1>f, <2>1 DEF IInv, TipLinked
  <2>4. TipUnfailed' BY <1>f, <1>1, <2>1 DEF IInv, TipUnfailed, failed
  <2>5. SwitchSafe' BY <1>f, <1>1 DEF IInv, SwitchSafe, failed
  <2>6. OneSwitch' BY <1>1 DEF IInv, OneSwitch
  <2> QED BY <1>2, <1>7, <2>2, <2>3, <2>4, <2>5, <2>6 DEF IInv
<1>3. CASE node' = "aborted" /\ pc' = [pc EXCEPT ![t] = "idle"] /\ tip' = tip
  <2>p. \A u \in Thread : pc'[u] # "switch" BY <1>3, <1>u DEF IInv, TypeOK, PC
  <2>2. TypeOK' BY <1>3, <1>f DEF IInv, TypeOK, PC
  <2>3. TipLinked' BY <1>f, <1>3 DEF IInv, TipLinked
  <2>4. TipUnfailed' BY <1>3 DEF TipUnfailed
  <2>5. SwitchSafe' BY <2>p DEF SwitchSafe
  <2>6. OneSwitch' BY <2>p DEF OneSwitch
  <2> QED BY <1>2, <1>7, <2>2, <2>3, <2>4, <2>5, <2>6 DEF IInv
<1> QED BY <1>1, <1>3 DEF DisconnectTip

(***************************************************************************)
(* The block that ConnectTip connects lies on the chain that was chosen,   *)
(* which cs_main has kept as it was (SwitchSafe).  One that ConnectBlock   *)
(* rejects is not on the active chain.                                     *)
(***************************************************************************)
LEMMA ConnectTipOK ==
  ASSUME IInv, NEW t \in Thread, ConnectTip(t)
  PROVE  IInv'
<1>f. /\ pc[t] = "switch"
      /\ UNCHANGED <<mapBlockIndex, nTx, haveData, nChainTx, nSequenceId, nBlockSequenceId,
                     unlinked, mostWork, oldTip>>
  BY DEF ConnectTip, indexVars, threadVars
<1>u. \A u \in Thread \ {t} : pc[u] # "switch" BY <1>f DEF IInv, OneSwitch
<1>s. /\ node # "aborted" /\ mostWork[t] \in Block
      /\ Anc[mostWork[t]] \subseteq nChainTx /\ Anc[mostWork[t]] \cap failed = {}
  BY <1>f DEF IInv, TypeOK, SwitchSafe, LinkedClosed
<1>a. Anc[tip] \cap failed = {} /\ Anc[tip] \subseteq nChainTx \cap Sound
  BY <1>s DEF IInv, TipUnfailed, TipLinked
<1> DEFINE next(b) == IF Released(t, b) THEN "loop" ELSE "switch"
<1>b. PICK b \in Anc[mostWork[t]] \ {Genesis} :
        /\ Parent[b] = tip
        /\ \/ /\ node' = "aborted" /\ pc' = [pc EXCEPT ![t] = "idle"]
              /\ UNCHANGED <<tip, candidates, failedValid, failedChild>>
           \/ /\ b \in Sound /\ tip' = b
              /\ candidates' = PruneBlockIndexCandidates(candidates, b)
              /\ pc' = [pc EXCEPT ![t] = next(b)]
              /\ UNCHANGED <<failedValid, failedChild, node>>
           \/ /\ b \notin Sound /\ InvalidBlockFound(b)
              /\ pc' = [pc EXCEPT ![t] = "loop"]
              /\ UNCHANGED <<tip, node>>
  BY DEF ConnectTip
<1>c. b \in Block \ {Genesis} BY <1>s, AncTransitive
<1>d. Anc[b] = Anc[tip] \cup {b} /\ b \notin Anc[tip] BY <1>b, <1>c, AncOfChild
<1>2. LinkedClosed' BY <1>f DEF IInv, LinkedClosed
<1>1. CASE /\ node' = "aborted" /\ pc' = [pc EXCEPT ![t] = "idle"]
           /\ UNCHANGED <<tip, candidates, failedValid, failedChild>>
  <2>p. \A u \in Thread : pc'[u] # "switch" BY <1>u, <1>1 DEF IInv, TypeOK
  <2>1. TypeOK' BY <1>f, <1>1 DEF IInv, TypeOK, PC
  <2>3. TipLinked' BY <1>f, <1>1 DEF IInv, TipLinked
  <2>4. TipUnfailed' BY <1>1 DEF TipUnfailed
  <2>5. SwitchSafe' BY <2>p DEF SwitchSafe
  <2>6. OneSwitch' BY <2>p DEF OneSwitch
  <2>7. unlinked' \subseteq nTx' /\ candidates' \subseteq nChainTx' BY <1>f, <1>1 DEF IInv
  <2> QED BY <1>2, <2>1, <2>3, <2>4, <2>5, <2>6, <2>7 DEF IInv
<1>3. CASE /\ b \in Sound /\ tip' = b
           /\ candidates' = PruneBlockIndexCandidates(candidates, b)
           /\ pc' = [pc EXCEPT ![t] = next(b)]
           /\ UNCHANGED <<failedValid, failedChild, node>>
  <2>n. next(b) \in PC BY DEF PC
  <2>a. /\ tip' = b /\ candidates' \subseteq candidates /\ pc' = [pc EXCEPT ![t] = next(b)]
        /\ UNCHANGED <<failedValid, failedChild, node>>
    BY <1>3 DEF PruneBlockIndexCandidates
  <2> HIDE DEF next
  <2>1. TypeOK' BY <1>f, <1>c, <2>a, <2>n DEF IInv, TypeOK
  <2>3. TipLinked' BY <1>3, <1>a, <1>d, <1>s, <1>f, <2>a DEF TipLinked
  <2>4. TipUnfailed' BY <1>a, <1>d, <1>s, <2>a DEF TipUnfailed, failed
  <2>p. \A u \in Thread : pc'[u] = "switch" => u = t BY <1>u, <2>a DEF IInv, TypeOK
  <2>5. SwitchSafe' BY <2>p, <1>f, <2>a DEF IInv, SwitchSafe, failed
  <2>6. OneSwitch' BY <2>p DEF OneSwitch
  <2>7. unlinked' \subseteq nTx' /\ candidates' \subseteq nChainTx' BY <1>f, <2>a DEF IInv
  <2> QED BY <1>2, <2>1, <2>3, <2>4, <2>5, <2>6, <2>7 DEF IInv
<1>4. CASE /\ b \notin Sound /\ InvalidBlockFound(b)
           /\ pc' = [pc EXCEPT ![t] = "loop"]
           /\ UNCHANGED <<tip, node>>
  <2>a. /\ failedValid' = failedValid \cup {b} /\ candidates' \subseteq candidates
        /\ failedChild' = failedChild /\ node' = node
        /\ pc' = [pc EXCEPT ![t] = "loop"] /\ tip' = tip
    BY <1>4 DEF InvalidBlockFound
  <2>1. TypeOK' BY <1>f, <1>c, <2>a DEF IInv, TypeOK, PC
  <2>3. TipLinked' BY <1>f, <2>a DEF IInv, TipLinked
  <2>4. TipUnfailed' BY <1>a, <1>d, <2>a DEF TipUnfailed, failed
  <2>p. \A u \in Thread : pc'[u] # "switch" BY <1>u, <2>a DEF IInv, TypeOK
  <2>5. SwitchSafe' BY <2>p DEF SwitchSafe
  <2>6. OneSwitch' BY <2>p DEF OneSwitch
  <2>7. unlinked' \subseteq nTx' /\ candidates' \subseteq nChainTx' BY <1>f, <2>a DEF IInv
  <2> QED BY <1>2, <2>1, <2>3, <2>4, <2>5, <2>6, <2>7 DEF IInv
<1> QED BY <1>b, <1>1, <1>3, <1>4

----------------------------------------------------------------------------
(* The theorems *)

LEMMA NextOK == IInv /\ [Next]_vars => IInv'
<1> SUFFICES ASSUME IInv, [Next]_vars PROVE IInv' OBVIOUS
<1>1. CASE UNCHANGED vars
  <2> USE <1>1 DEF vars
  <2>1. TypeOK' BY DEF IInv, TypeOK
  <2>2. LinkedClosed' BY DEF IInv, LinkedClosed
  <2>3. TipLinked' BY DEF IInv, TipLinked
  <2>4. TipUnfailed' BY DEF IInv, TipUnfailed, failed
  <2>5. SwitchSafe' BY DEF IInv, SwitchSafe, failed
  <2>6. OneSwitch' BY DEF IInv, OneSwitch
  <2>7. unlinked' \subseteq nTx' /\ candidates' \subseteq nChainTx' BY DEF IInv
  <2> QED BY <2>1, <2>2, <2>3, <2>4, <2>5, <2>6, <2>7 DEF IInv
<1>2. ASSUME NEW b \in Block, AcceptBlockHeader(b) PROVE IInv' BY <1>2, AcceptBlockHeaderOK
<1>3. ASSUME NEW b \in Block, PruneOneBlockFile(b) PROVE IInv' BY <1>3, PruneOneBlockFileOK
<1>4. ASSUME NEW t \in Thread, NEW b \in Block, NEW fRequested \in BOOLEAN,
             ProcessNewBlock(t, b, fRequested)
      PROVE  IInv'
  BY <1>4, ProcessNewBlockOK
<1>5. ASSUME NEW t \in Thread, ActivateBestChain(t) PROVE IInv' BY <1>5, ActivateBestChainOK
<1>6. ASSUME NEW t \in Thread, LeaveActivation(t) PROVE IInv' BY <1>6, LeaveActivationOK
<1>7. ASSUME NEW t \in Thread, DisconnectTip(t) PROVE IInv' BY <1>7, DisconnectTipOK
<1>8. ASSUME NEW t \in Thread, ConnectTip(t) PROVE IInv' BY <1>8, ConnectTipOK
<1>9. ASSUME NEW t \in Thread, LoopCondition(t) PROVE IInv' BY <1>9, LoopConditionOK
<1>10. ASSUME NEW t \in Thread, NEW b \in Invalidatable, InvalidateBlock(t, b) PROVE IInv'
  BY <1>10, InvalidateBlockOK
<1>11. ASSUME NEW t \in Thread, NEW b \in Reconsiderable, ReconsiderBlock(t, b) PROVE IInv'
  BY <1>11, ContentAssumption, ReconsiderBlockOK
<1>12. ASSUME NEW t \in Thread, LoadBlockIndexDB(t) PROVE IInv' BY <1>12, LoadBlockIndexDBOK
<1>13. CASE StartShutdown BY <1>13, StartShutdownOK
<1> QED
  BY <1>1, <1>2, <1>3, <1>4, <1>5, <1>6, <1>7, <1>8, <1>9, <1>10, <1>11, <1>12, <1>13 DEF Next

\* the inductive invariant holds in every behaviour
THEOREM ChainInvariant == Spec => []IInv
  BY InitOK, NextOK, PTL DEF Spec

(***************************************************************************)
(* The index, the candidate set and the threads' variables keep their      *)
(* types; data is kept only of received blocks, and only received blocks   *)
(* are linked.                                                             *)
(***************************************************************************)
THEOREM ChainTypeOK == Spec => []TypeOK
<1>1. IInv => TypeOK BY DEF IInv
<1> QED BY <1>1, ChainInvariant, PTL

(***************************************************************************)
(* Whatever the order of blocks, reorganisations, invalidateblock and      *)
(* reconsiderblock calls, prunings and restarts: the active chain of a     *)
(* node that has not aborted consists of linked blocks that ConnectBlock   *)
(* accepted, none of them marked as failed.                                *)
(***************************************************************************)
THEOREM ChainActiveValid == Spec => []ActiveChainValid
<1>1. IInv => ActiveChainValid BY DEF IInv, TipLinked, TipUnfailed, ActiveChainValid
<1> QED BY <1>1, ChainInvariant, PTL

(***************************************************************************)
(* The assertion in FindMostWorkChain's walk never fails: a candidate and  *)
(* all its ancestors have nChainTx.                                        *)
(***************************************************************************)
THEOREM ChainCandidatesLinked == Spec => []CandidatesLinked
<1>1. IInv => CandidatesLinked BY DEF IInv, LinkedClosed, CandidatesLinked
<1> QED BY <1>1, ChainInvariant, PTL

----------------------------------------------------------------------------
(* Without pruning and without reconsiderblock: the second invariant *)

\* a linked chain that nothing is known against
Good(x) == x \in nChainTx /\ NoInvalidParent(x)

\* one that ConnectBlock accepts: only the operator can mark a block of it
Proven(x) == Good(x) /\ Anc[x] \subseteq Sound

\* everything that was received is still there
AllData == haveData = nTx /\ nBlockSequenceId >= 1 /\ node # "aborted"

UnlinkedApart == unlinked \cap nChainTx = {}

CandidatesGood == \A c \in candidates : AsGoodAsTip(c)

\* a good chain is a candidate, or there is a better one: the active chain,
\* or a candidate that will not turn out to be invalid
NoneLost ==
    \A x \in Block : Good(x) =>
        \/ x \in candidates
        \/ Better(tip, x, nSequenceId)
        \/ \E c \in candidates : Proven(c) /\ Better(c, x, nSequenceId)

\* a thread will look for a better chain again
Looking(t) == pc[t] \in {"find", "switch"} \/ (pc[t] = "loop" /\ Unfinished(t))

\* as long as a good chain is better than the active one, some thread will look
SomeoneLooks ==
    node = "running" =>
        \A x \in Block : Good(x) /\ Better(x, tip, nSequenceId) => \E t \in Thread : Looking(t)

\* no good chain is better than the one a thread is switching to, and that
\* one is better than the one it leaves
SwitchBest ==
    \A t \in Thread : pc[t] = "switch" =>
        /\ \A x \in Block : Good(x) => ~Better(x, mostWork[t], nSequenceId)
        /\ Better(mostWork[t], oldTip[t], nSequenceId)

\* what has arrived and is not linked is in mapBlocksUnlinked, unless its
\* parent was known to be invalid
FailedChildLinked == failedChild \subseteq nChainTx
Parked == \A y \in nTx \ nChainTx : y \in unlinked \/ Parent[y] \in failedValid
GoodLinked == \A b \in Block : Processed(b) /\ NoInvalidParent(b) => b \in nChainTx

JInv ==
    /\ AllData /\ FailedHasInvalidParent /\ UnlinkedApart /\ CandidatesGood /\ NoneLost
    /\ SomeoneLooks /\ SwitchBest /\ FailedChildLinked /\ Parked /\ GoodLinked

\* with an operator who invalidates only blocks that are linked when they arrive
FailedUnreceived ==
    /\ failedValid \subseteq mapBlockIndex /\ failedValid \cap nTx \subseteq nChainTx
ParkedExact == \A y \in nTx \ nChainTx : y \in unlinked \/ Parent[y] \in failedValid \ nTx
AllLinked == \A b \in Block : Processed(b) => b \in nChainTx

UInv == FailedUnreceived /\ ParkedExact /\ AllLinked

----------------------------------------------------------------------------
(* CBlockIndexWorkComparator *)

LEMMA BetterOrder ==
  ASSUME NEW seq \in [Block -> Nat]
  PROVE  /\ \A a \in Block : ~Better(a, a, seq)
         /\ \A a, b \in Block : a # b => Better(a, b, seq) \/ Better(b, a, seq)
         /\ \A a, b, c \in Block : Better(a, b, seq) /\ Better(b, c, seq) => Better(a, c, seq)
<1>t. \A a \in Block : Work[a] \in Nat /\ seq[a] \in Nat /\ Addr[a] \in Nat BY TreeAssumption
<1>1. \A a \in Block : ~Better(a, a, seq) BY <1>t DEF Better
<1>2. ASSUME NEW a \in Block, NEW b \in Block, a # b PROVE Better(a, b, seq) \/ Better(b, a, seq)
  <2>1. Addr[a] # Addr[b] BY <1>2, TreeAssumption
  <2> QED BY <2>1, <1>t DEF Better
<1>3. ASSUME NEW a \in Block, NEW b \in Block, NEW c \in Block, Better(a, b, seq), Better(b, c, seq)
      PROVE  Better(a, c, seq)
  BY <1>3, <1>t DEF Better
<1> QED BY <1>1, <1>2, <1>3

LEMMA BetterThanAncestor ==
  ASSUME NEW b \in Block, NEW a \in Anc[b], a # b, NEW seq
  PROVE  Better(b, a, seq)
<1>1. a \in Block BY AncTransitive
<1>2. Work[a] < Work[b] /\ Work[a] \in Nat /\ Work[b] \in Nat BY <1>1, TreeAssumption
<1> QED BY <1>2 DEF Better

\* the comparison of blocks depends on their own numbers only
LEMMA BetterSame ==
  ASSUME NEW a, NEW b, NEW s1, NEW s2, s1[a] = s2[a], s1[b] = s2[b]
  PROVE  Better(a, b, s1) <=> Better(a, b, s2)
  BY DEF Better

\* good chains, whatever else is in the index
LEMMA GoodFacts ==
  ASSUME IInv, JInv
  PROVE  /\ nSequenceId \in [Block -> Nat] /\ tip \in Block /\ nChainTx \subseteq Block
         /\ candidates \subseteq nChainTx /\ Proven(tip)
         /\ \A x \in Block : Good(x) => Anc[x] \cap failed = {}
<1>1. /\ nSequenceId \in [Block -> Nat] /\ tip \in Block /\ nChainTx \subseteq Block
      /\ candidates \subseteq nChainTx
  BY DEF IInv, TypeOK
<1>2. Proven(tip)
  BY <1>1, TreeAssumption
  DEF Proven, Good, NoInvalidParent, IInv, TipLinked, TipUnfailed, JInv, AllData, failed
<1>3. ASSUME NEW x \in Block, Good(x), NEW y \in Anc[x], y \in failed PROVE FALSE
  <2>1. Anc[y] \cap failedValid # {} BY <1>3 DEF JInv, FailedHasInvalidParent, NoInvalidParent
  <2>2. Anc[y] \subseteq Anc[x] BY AncTransitive
  <2> QED BY <1>3, <2>1, <2>2 DEF Good, NoInvalidParent
<1> QED BY <1>1, <1>2, <1>3

----------------------------------------------------------------------------
(* Every action keeps the second invariant *)

\* a step that leaves the index, the tip and the choices of the threads alone
LEMMA IndexAlone ==
  ASSUME JInv, SomeoneLooks', node' # "aborted",
         \A t \in Thread : pc'[t] = "switch" => pc[t] = "switch",
         UNCHANGED <<nTx, haveData, nChainTx, failedValid, failedChild, nSequenceId,
                     nBlockSequenceId, candidates, unlinked, tip, mostWork, oldTip>>
  PROVE  JInv'
<1>1. AllData' BY DEF JInv, AllData
<1>2. FailedHasInvalidParent' BY DEF JInv, FailedHasInvalidParent, NoInvalidParent, failed
<1>3. UnlinkedApart' /\ FailedChildLinked' BY DEF JInv, UnlinkedApart, FailedChildLinked
<1>4. CandidatesGood' BY DEF JInv, CandidatesGood, AsGoodAsTip
<1>5. NoneLost' BY DEF JInv, NoneLost, Good, Proven, NoInvalidParent
<1>6. SwitchBest' BY DEF JInv, SwitchBest, Good, NoInvalidParent
<1>7. Parked' /\ GoodLinked' BY DEF JInv, Parked, GoodLinked, Processed, NoInvalidParent
<1> QED BY <1>1, <1>2, <1>3, <1>4, <1>5, <1>6, <1>7 DEF JInv

\* a block that ConnectBlock or AcceptBlock rejects is marked
LEMMA MarkInvalid ==
  ASSUME IInv, JInv, NEW b \in Block \ Sound, failedValid' = failedValid \cup {b},
         candidates \ {b} \subseteq candidates', candidates' \subseteq candidates,
         UNCHANGED <<nTx, haveData, nChainTx, failedChild, nSequenceId, nBlockSequenceId,
                     unlinked, tip, node, mostWork, oldTip>>,
         \A t \in Thread : pc'[t] # "switch", SomeoneLooks'
  PROVE  JInv'
<1>1. AllData' BY DEF JInv, AllData
<1>2. FailedHasInvalidParent'
  BY TreeAssumption DEF JInv, FailedHasInvalidParent, NoInvalidParent, failed
<1>3. UnlinkedApart' /\ FailedChildLinked' BY DEF JInv, UnlinkedApart, FailedChildLinked
<1>4. CandidatesGood' BY DEF JInv, CandidatesGood, AsGoodAsTip
<1>5. NoneLost'
  <2>1. ASSUME NEW x \in Block, Good(x)' PROVE Good(x) /\ x # b
    BY <2>1, TreeAssumption DEF Good, NoInvalidParent
  <2>2. ASSUME NEW c \in candidates, Proven(c) PROVE Proven(c)' /\ c \in candidates'
    <3>1. c \in Block BY GoodFacts
    <3>2. b \notin Anc[c] /\ c # b BY <2>2, <3>1, TreeAssumption DEF Proven
    <3> QED BY <2>2, <3>2 DEF Proven, Good, NoInvalidParent
  <2> QED BY <2>1, <2>2 DEF JInv, NoneLost
<1>6. SwitchBest' BY DEF SwitchBest
<1>7. Parked' /\ GoodLinked' BY DEF JInv, Parked, GoodLinked, Processed, NoInvalidParent
<1> QED BY <1>1, <1>2, <1>3, <1>4, <1>5, <1>6, <1>7 DEF JInv

LEMMA InitGood == Init => JInv
<1> SUFFICES ASSUME Init PROVE JInv OBVIOUS
<1> USE TreeAssumption DEF Init
<1>1. AllData BY DEF AllData
<1>2. FailedHasInvalidParent BY DEF FailedHasInvalidParent, failed
<1>3. UnlinkedApart /\ FailedChildLinked BY DEF UnlinkedApart, FailedChildLinked
<1>s. nSequenceId \in [Block -> Nat] OBVIOUS
<1>o. ~Better(Genesis, Genesis, nSequenceId) BY <1>s, BetterOrder
<1>4. CandidatesGood BY <1>o DEF CandidatesGood, AsGoodAsTip
<1>5. NoneLost BY DEF NoneLost, Good
<1>6. SwitchBest BY DEF SwitchBest
<1>7. SomeoneLooks BY <1>o DEF SomeoneLooks, Good
<1>8. Parked BY DEF Parked
<1>9. GoodLinked BY DEF GoodLinked, Processed
<1> QED BY <1>1, <1>2, <1>3, <1>4, <1>5, <1>6, <1>7, <1>8, <1>9 DEF JInv

\* a thread that is about to look
LEMMA FindLooks ==
  ASSUME TypeOK, NEW t \in Thread, pc' = [pc EXCEPT ![t] = "find"]
  PROVE  SomeoneLooks' /\ \A u \in Thread : pc'[u] = "switch" => pc[u] = "switch"
<1>1. pc'[t] = "find" /\ \A u \in Thread \ {t} : pc'[u] = pc[u] BY DEF TypeOK
<1>2. Looking(t)' BY <1>1 DEF Looking
<1>3. SomeoneLooks' BY <1>2 DEF SomeoneLooks
<1> QED BY <1>1, <1>3

LEMMA LeaveActivationGood ==
  ASSUME IInv, JInv, NEW t \in Thread, LeaveActivation(t)
  PROVE  JInv'
<1>1. /\ pc' = [pc EXCEPT ![t] = "idle"] /\ node # "running"
      /\ UNCHANGED <<nTx, haveData, nChainTx, failedValid, failedChild, nSequenceId,
                     nBlockSequenceId, candidates, unlinked, tip, mostWork, oldTip, node>>
  BY DEF LeaveActivation, indexVars, threadVars
<1>2. \A u \in Thread : pc'[u] = "switch" => pc[u] = "switch" BY <1>1 DEF IInv, TypeOK
<1>3. SomeoneLooks' BY <1>1 DEF SomeoneLooks
<1>4. node' # "aborted" BY <1>1 DEF JInv, AllData
<1> QED BY <1>1, <1>2, <1>3, <1>4, IndexAlone

LEMMA LoopConditionGood ==
  ASSUME IInv, JInv, NEW t \in Thread, LoopCondition(t)
  PROVE  JInv'
<1>1. /\ pc[t] = "loop" /\ pc' = [pc EXCEPT ![t] = IF Unfinished(t) THEN "find" ELSE "idle"]
      /\ UNCHANGED <<nTx, haveData, nChainTx, failedValid, failedChild, nSequenceId,
                     nBlockSequenceId, candidates, unlinked, tip, mostWork, oldTip, node>>
  BY DEF LoopCondition, indexVars, threadVars
<1>2. /\ pc'[t] = IF Unfinished(t) THEN "find" ELSE "idle"
      /\ \A u \in Thread \ {t} : pc'[u] = pc[u]
  BY <1>1 DEF IInv, TypeOK
<1>3. \A u \in Thread : Looking(u) => Looking(u)' BY <1>1, <1>2 DEF Looking, Unfinished
<1>4. SomeoneLooks' BY <1>1, <1>3 DEF JInv, SomeoneLooks, Good, NoInvalidParent
<1>5. node' # "aborted" BY <1>1 DEF JInv, AllData
<1>6. \A u \in Thread : pc'[u] = "switch" => pc[u] = "switch" BY <1>2
<1> QED BY <1>1, <1>4, <1>5, <1>6, IndexAlone

LEMMA AcceptBlockHeaderGood ==
  ASSUME IInv, JInv, NEW b \in Block, AcceptBlockHeader(b)
  PROVE  JInv'
<1>1. UNCHANGED <<nTx, haveData, nChainTx, failedValid, failedChild, nSequenceId,
                  nBlockSequenceId, candidates, unlinked, tip, pc, mostWork, oldTip, node>>
  BY DEF AcceptBlockHeader, threadVars
<1>2. SomeoneLooks' BY <1>1 DEF JInv, SomeoneLooks, Good, NoInvalidParent, Looking, Unfinished
<1>3. node' # "aborted" BY <1>1 DEF JInv, AllData
<1> QED BY <1>1, <1>2, <1>3, IndexAlone

LEMMA StartShutdownGood == ASSUME IInv, JInv, StartShutdown PROVE JInv'
<1>1. /\ node' = "stopping"
      /\ UNCHANGED <<nTx, haveData, nChainTx, failedValid, failedChild, nSequenceId,
                     nBlockSequenceId, candidates, unlinked, tip, pc, mostWork, oldTip>>
  BY DEF StartShutdown, indexVars, threadVars
<1>2. SomeoneLooks' BY <1>1 DEF SomeoneLooks
<1> QED BY <1>1, <1>2, IndexAlone

(***************************************************************************)
(* The arrival of a block.  Only blocks that were not linked get numbers,  *)
(* so the order of the others stays; and what hangs on the block by blocks *)
(* that have arrived is in mapBlocksUnlinked, unless it is invalid.        *)
(***************************************************************************)
LEMMA NewlyLinkedFresh ==
  ASSUME IInv, JInv, NEW b \in Block \ {Genesis}, b \notin nTx
  PROVE  NewlyLinked(b) \cap nChainTx = {} /\ b \in NewlyLinked(b)
<1>1. ASSUME NEW x \in NewlyLinked(b), x # b PROVE x \in unlinked
  <2>1. x \in Block /\ b \in Anc[x] /\ Anc[x] \ Anc[b] \subseteq unlinked BY DEF NewlyLinked
  <2>2. x \in Anc[x] /\ x \notin Anc[b] BY <2>1, <1>1, TreeAssumption
  <2> QED BY <2>1, <2>2
<1>2. b \notin nChainTx BY DEF IInv, TypeOK
<1>3. b \in NewlyLinked(b) BY TreeAssumption DEF NewlyLinked
<1> QED BY <1>1, <1>2, <1>3 DEF JInv, UnlinkedApart

LEMMA NewlyLinkedAll ==
  ASSUME IInv, JInv, NEW b \in Block \ {Genesis}, b \notin nTx,
         NEW x \in Block, b \in Anc[x], Anc[x] \subseteq nTx \cup {b}, NoInvalidParent(x)
  PROVE  x \in NewlyLinked(b)
<1>1. SUFFICES ASSUME NEW y \in Anc[x], y \notin Anc[b] PROVE y \in unlinked
  BY DEF NewlyLinked
<1>2. y \in Block \ {Genesis} /\ y # b /\ y \in nTx
  BY <1>1, TreeAssumption
<1>3. b \in Anc[y] BY <1>1, Comparable
<1>4. b \notin nChainTx BY DEF IInv, TypeOK
<1>5. y \notin nChainTx BY <1>3, <1>4 DEF IInv, LinkedClosed
<1>6. Parent[y] \in Anc[x]
  <2>1. Parent[y] \in Block /\ Anc[y] = Anc[Parent[y]] \cup {y} BY <1>2, AncOfChild
  <2>2. Parent[y] \in Anc[Parent[y]] BY <2>1, TreeAssumption
  <2>3. Anc[y] \subseteq Anc[x] BY <1>1, AncTransitive
  <2> QED BY <2>1, <2>2, <2>3
<1>7. Parent[y] \notin failedValid BY <1>6 DEF NoInvalidParent
<1> QED BY <1>2, <1>5, <1>7 DEF JInv, Parked

LEMMA BlockLinkedGood ==
  ASSUME IInv, JInv, NEW b \in Block \ {Genesis}, b \notin nTx, Parent[b] \in nChainTx,
         ReceivedBlockTransactions(b), nSequenceId' \in [Block -> Nat], nBlockSequenceId' \in Nat,
         UNCHANGED <<failedValid, failedChild, tip, node>>,
         \A t \in Thread : pc'[t] # "switch", SomeoneLooks'
  PROVE  JInv'
<1> DEFINE L == NewlyLinked(b)
<1>f. /\ nTx' = nTx \cup {b} /\ haveData' = haveData \cup {b}
      /\ nChainTx' = nChainTx \cup L
      /\ nBlockSequenceId' = nBlockSequenceId + Cardinality(L)
      /\ candidates' = candidates \cup {x \in L : ~Better(tip, x, nSequenceId')}
      /\ unlinked' = unlinked \ (L \ {b})
      /\ \E f \in Numberings(L) :
            nSequenceId' = [x \in Block |-> IF x \in L THEN f[x] ELSE nSequenceId[x]]
  BY DEF ReceivedBlockTransactions
<1>l. L \cap nChainTx = {} /\ b \in L /\ L \subseteq Block BY NewlyLinkedFresh DEF NewlyLinked
<1>g. \A x \in Block : b \in Anc[x] /\ Anc[x] \subseteq nTx \cup {b} /\ NoInvalidParent(x) => x \in L
  BY NewlyLinkedAll
<1> HIDE DEF L
<1>s. \A x \in Block \ L : nSequenceId'[x] = nSequenceId[x] BY <1>f
<1>e. /\ tip \in nChainTx /\ tip \in Block /\ candidates \subseteq nChainTx /\ nChainTx \subseteq Block
  BY GoodFacts DEF Proven, Good
<1>o. \A x, y \in nChainTx : Better(x, y, nSequenceId') <=> Better(x, y, nSequenceId)
  <2>1. \A x \in nChainTx : nSequenceId'[x] = nSequenceId[x] BY <1>s, <1>e, <1>l
  <2> QED BY <2>1, BetterSame
<1>1. AllData'
  <2>1. IsFiniteSet(L) BY <1>l, TreeAssumption, FS_Subset
  <2>2. Cardinality(L) \in Nat BY <2>1, FS_CardinalityType
  <2>3. nBlockSequenceId' >= 1 BY <2>2, <1>f DEF JInv, AllData, IInv, TypeOK
  <2> QED BY <2>3, <1>f DEF JInv, AllData
<1>2. FailedHasInvalidParent' BY DEF JInv, FailedHasInvalidParent, NoInvalidParent, failed
<1>3. UnlinkedApart'
  <2>1. b \notin unlinked BY DEF IInv
  <2> QED BY <1>f, <2>1 DEF JInv, UnlinkedApart
<1>4. FailedChildLinked' BY <1>f DEF JInv, FailedChildLinked
<1>5. CandidatesGood' BY <1>f, <1>e, <1>o DEF JInv, CandidatesGood, AsGoodAsTip
<1>6. NoneLost'
  <2> SUFFICES ASSUME NEW x \in Block, Good(x)'
               PROVE  \/ x \in candidates'
                      \/ Better(tip, x, nSequenceId')
                      \/ \E c \in candidates' : Proven(c)' /\ Better(c, x, nSequenceId')
    BY DEF NoneLost
  <2>1. CASE x \in L BY <2>1, <1>f
  <2>2. CASE x \notin L
    <3>1. Good(x) BY <2>2, <1>f DEF Good, NoInvalidParent
    <3>2. CASE x \in candidates BY <3>2, <1>f
    <3>3. CASE Better(tip, x, nSequenceId) BY <3>3, <3>1, <1>o, <1>e DEF Good
    <3>4. ASSUME NEW c \in candidates, Proven(c), Better(c, x, nSequenceId)
          PROVE  c \in candidates' /\ Proven(c)' /\ Better(c, x, nSequenceId')
      <4>1. Proven(c)' BY <3>4, <1>f DEF Proven, Good, NoInvalidParent
      <4>2. c \in nChainTx /\ x \in nChainTx BY <3>1, <1>e DEF Good
      <4> QED BY <4>1, <4>2, <3>4, <1>f, <1>o
    <3> QED BY <3>1, <3>2, <3>3, <3>4 DEF JInv, NoneLost
  <2> QED BY <2>1, <2>2
<1>7. SwitchBest' BY DEF SwitchBest
<1>8. Parked' BY <1>f, <1>l DEF JInv, Parked
<1>9. GoodLinked'
  <2> SUFFICES ASSUME NEW x \in Block, Processed(x)', NoInvalidParent(x)' PROVE x \in nChainTx'
    BY DEF GoodLinked
  <2>1. Anc[x] \subseteq nTx \cup {b} /\ NoInvalidParent(x) BY <1>f DEF Processed, NoInvalidParent
  <2>2. CASE b \in Anc[x] BY <2>1, <2>2, <1>g, <1>f
  <2>3. CASE b \notin Anc[x] BY <2>1, <2>3, <1>f DEF JInv, GoodLinked, Processed
  <2> QED BY <2>2, <2>3
<1> QED BY <1>1, <1>2, <1>3, <1>4, <1>5, <1>6, <1>7, <1>8, <1>9 DEF JInv

LEMMA BlockParkedGood ==
  ASSUME IInv, JInv, NEW b \in Block \ {Genesis}, b \notin nTx, Parent[b] \notin nChainTx,
         ReceivedBlockTransactions(b), UNCHANGED <<failedValid, failedChild, tip, node>>,
         \A t \in Thread : pc'[t] # "switch", SomeoneLooks'
  PROVE  JInv'
<1>n. b \notin nChainTx BY DEF IInv, TypeOK
<1>f. /\ nTx' = nTx \cup {b} /\ haveData' = haveData \cup {b} /\ nChainTx' = nChainTx
      /\ unlinked' = ParkUnlinked(b)
      /\ UNCHANGED <<nSequenceId, nBlockSequenceId, candidates>>
  BY <1>n DEF ReceivedBlockTransactions
<1>p. /\ Parent[b] \in Block /\ Anc[b] = Anc[Parent[b]] \cup {b} /\ b \notin Anc[Parent[b]]
  BY AncOfChild
<1>1. AllData' BY <1>f DEF JInv, AllData
<1>2. FailedHasInvalidParent' BY DEF JInv, FailedHasInvalidParent, NoInvalidParent, failed
<1>3. UnlinkedApart' BY <1>f, <1>n DEF JInv, UnlinkedApart, ParkUnlinked
<1>4. FailedChildLinked' BY <1>f DEF JInv, FailedChildLinked
<1>5. CandidatesGood' BY <1>f DEF JInv, CandidatesGood, AsGoodAsTip
<1>6. NoneLost' BY <1>f DEF JInv, NoneLost, Good, Proven, NoInvalidParent
<1>7. SwitchBest' BY DEF SwitchBest
<1>8. Parked'
  <2>1. b \in unlinked' \/ Parent[b] \in failedValid
    BY <1>f DEF JInv, FailedChildLinked, ParkUnlinked, failed
  <2>2. unlinked \subseteq unlinked' BY <1>f DEF ParkUnlinked
  <2> QED BY <2>1, <2>2, <1>f DEF JInv, Parked
<1>9. GoodLinked'
  <2> SUFFICES ASSUME NEW x \in Block, Processed(x)', NoInvalidParent(x)' PROVE x \in nChainTx
    BY <1>f DEF GoodLinked
  <2>1. Anc[x] \subseteq nTx \cup {b} /\ NoInvalidParent(x) BY <1>f DEF Processed, NoInvalidParent
  <2>2. CASE b \in Anc[x]
    <3>1. Anc[b] \subseteq Anc[x] BY <2>2, AncTransitive
    <3>2. Processed(Parent[b]) /\ NoInvalidParent(Parent[b])
      BY <3>1, <2>1, <1>p DEF Processed, NoInvalidParent
    <3> QED BY <3>2, <1>p DEF JInv, GoodLinked
  <2>3. CASE b \notin Anc[x] BY <2>1, <2>3 DEF JInv, GoodLinked, Processed
  <2> QED BY <2>2, <2>3
<1> QED BY <1>1, <1>2, <1>3, <1>4, <1>5, <1>6, <1>7, <1>8, <1>9 DEF JInv

LEMMA ProcessNewBlockGood ==
  ASSUME IInv, JInv, NEW t \in Thread, NEW b \in Block, NEW fRequested \in BOOLEAN,
         ProcessNewBlock(t, b, fRequested)
  PROVE  JInv'
<1>i. IInv' BY ProcessNewBlockOK
<1>f. /\ b \in Block \ {Genesis} /\ Free /\ node # "aborted"
      /\ UNCHANGED <<failedChild, tip, mostWork, oldTip, node>>
  BY DEF ProcessNewBlock, threadVars, JInv, AllData
<1>1. CASE /\ pc' = [pc EXCEPT ![t] = "find"]
           /\ UNCHANGED <<nTx, haveData, nChainTx, failedValid, nSequenceId, nBlockSequenceId,
                          candidates, unlinked>>
  <2>1. SomeoneLooks' /\ \A u \in Thread : pc'[u] = "switch" => pc[u] = "switch"
    BY <1>1, FindLooks DEF IInv
  <2> QED BY <1>1, <1>f, <2>1, IndexAlone
<1>2. CASE /\ b \notin WellFormed /\ failedValid' = failedValid \cup {b}
           /\ UNCHANGED <<nTx, haveData, nChainTx, nSequenceId, nBlockSequenceId, candidates,
                          unlinked, pc>>
  <2>1. b \in Block \ Sound BY <1>2, ContentAssumption
  <2>2. \A u \in Thread : pc'[u] # "switch" BY <1>2, <1>f DEF Free
  <2>3. SomeoneLooks'
    <3>1. \A x \in Block : Good(x)' => Good(x) BY <1>2 DEF Good, NoInvalidParent
    <3>2. \A u \in Thread : Looking(u)' <=> Looking(u) BY <1>2, <1>f DEF Looking, Unfinished
    <3> QED BY <1>2, <1>f, <3>1, <3>2 DEF JInv, SomeoneLooks
  <2> QED BY <1>2, <1>f, <2>1, <2>2, <2>3, MarkInvalid
<1>3. CASE /\ ~NotProcessed(b, fRequested) /\ ReceivedBlockTransactions(b)
           /\ pc' = [pc EXCEPT ![t] = "find"] /\ failedValid' = failedValid
  <2>1. SomeoneLooks' /\ \A u \in Thread : pc'[u] # "switch"
    BY <1>3, <1>f, FindLooks DEF IInv, Free
  <2>2. b \notin nTx BY <1>3 DEF NotProcessed, JInv, AllData
  <2>3. nSequenceId' \in [Block -> Nat] /\ nBlockSequenceId' \in Nat BY <1>i DEF IInv, TypeOK
  <2> QED BY <1>3, <1>f, <2>1, <2>2, <2>3, BlockLinkedGood, BlockParkedGood
<1> QED BY <1>1, <1>2, <1>3 DEF ProcessNewBlock

(***************************************************************************)
(* FindMostWorkChain.  Nothing is dropped for missing data; what is        *)
(* dropped has an invalid block below it; a good candidate is usable.      *)
(***************************************************************************)
LEMMA UsableIsGood ==
  ASSUME IInv, JInv, NEW c \in candidates
  PROVE  /\ Obstacles(c) \subseteq failed
         /\ c \in Usable <=> Good(c)
<1>1. c \in Block /\ c \in nChainTx /\ Anc[c] \subseteq haveData
  BY GoodFacts DEF IInv, TypeOK, LinkedClosed, JInv, AllData
<1>2. Obstacles(c) \subseteq failed BY <1>1 DEF Obstacles
<1>3. ASSUME Good(c) PROVE c \in Usable
  <2>1. Anc[c] \cap failed = {} BY <1>1, <1>3, GoodFacts
  <2> QED BY <1>2, <2>1 DEF Usable, Obstacles
<1>4. ASSUME c \in Usable PROVE Good(c)
  <2>1. Anc[tip] \cap failed = {} BY DEF JInv, AllData, IInv, TipUnfailed
  <2>2. Anc[c] \cap failed = {} BY <1>4, <2>1 DEF Usable, Obstacles
  <2> QED BY <1>1, <2>2 DEF Good, NoInvalidParent, failed
<1> QED BY <1>2, <1>3, <1>4

LEMMA FindMostWorkChainGood ==
  ASSUME IInv, JInv, FindMostWorkChain
  PROVE  /\ unlinked' = unlinked
         /\ candidates' \subseteq candidates
         /\ \A c \in candidates : Good(c) => c \in candidates'
         /\ failedChild' \subseteq nChainTx
         /\ \A y \in failedChild' : Anc[y] \cap failedValid # {}
<1> DEFINE stops == {FirstObstacle(c) : c \in Dropped}
<1>f. /\ candidates' = candidates \ (stops \cup UNION {DroppedFor(x) : x \in stops})
      /\ failedChild' = failedChild \cup UNION {DroppedFor(x) : x \in stops \cap failed}
      /\ unlinked' = unlinked \cup UNION {DroppedFor(x) : x \in stops \ failed}
  BY DEF FindMostWorkChain
<1>s. stops \subseteq failed
  <2>1. ASSUME NEW c \in Dropped PROVE FirstObstacle(c) \in failed
    <3>1. c \in candidates /\ Obstacles(c) # {} BY DEF Dropped
    <3>2. c \in Block BY <3>1 DEF IInv, TypeOK
    <3>3. Obstacles(c) \in SUBSET Anc[c] BY DEF Obstacles
    <3>4. FirstObstacle(c) \in Obstacles(c) BY <3>1, <3>2, <3>3, HighestExists DEF FirstObstacle
    <3> QED BY <3>1, <3>4, UsableIsGood
  <2> QED BY <2>1
<1> HIDE DEF stops
<1>d. ASSUME NEW x \in failed, NEW y \in DroppedFor(x)
      PROVE  y \in nChainTx /\ x \in Anc[y] /\ Anc[y] \cap failedValid # {}
  <2>1. PICK d \in Dropped : y \in Above(d, x) BY DEF DroppedFor
  <2>2. d \in nChainTx /\ y \in Anc[d] /\ x \in Anc[y] BY <2>1 DEF Dropped, Above, IInv
  <2>3. y \in nChainTx /\ y \in Block BY <2>2 DEF IInv, LinkedClosed, TypeOK
  <2>4. Anc[x] \cap failedValid # {} BY DEF JInv, FailedHasInvalidParent, NoInvalidParent
  <2>5. Anc[x] \subseteq Anc[y] BY <2>2, <2>3, AncTransitive
  <2> QED BY <2>2, <2>3, <2>4, <2>5
<1>1. unlinked' = unlinked BY <1>f, <1>s
<1>2. candidates' \subseteq candidates BY <1>f
<1>3. ASSUME NEW c \in candidates, Good(c) PROVE c \in candidates'
  <2>1. c \in Block /\ Anc[c] \cap failed = {} BY <1>3, GoodFacts DEF IInv, TypeOK
  <2>2. c \in Anc[c] BY <2>1, TreeAssumption
  <2>3. c \notin stops BY <2>1, <2>2, <1>s
  <2>4. \A x \in stops : c \notin DroppedFor(x) BY <2>1, <1>s, <1>d
  <2> QED BY <2>3, <2>4, <1>f
<1>4. failedChild' \subseteq nChainTx BY <1>f, <1>d DEF JInv, FailedChildLinked
<1>5. ASSUME NEW y \in failedChild' PROVE Anc[y] \cap failedValid # {}
  <2>1. CASE y \in failedChild
    BY <2>1 DEF JInv, FailedHasInvalidParent, NoInvalidParent, failed
  <2>2. CASE y \notin failedChild BY <2>2, <1>f, <1>d
  <2> QED BY <2>1, <2>2
<1> QED BY <1>1, <1>2, <1>3, <1>4, <1>5

\* the block FindMostWorkChain returns, or the tip if there is none, is the best
LEMMA MostWorkIsBest ==
  ASSUME IInv, JInv, NEW m \in Block, AsGoodAsTip(m), IsMostWork(m),
         NEW x \in Block, Good(x), Better(x, m, nSequenceId)
  PROVE  FALSE
<1>e. nSequenceId \in [Block -> Nat] /\ tip \in Block /\ candidates \subseteq Block
  BY GoodFacts DEF IInv, TypeOK
<1>o. /\ \A a \in Block : ~Better(a, a, nSequenceId)
      /\ \A a, b, c \in Block : Better(a, b, nSequenceId) /\ Better(b, c, nSequenceId)
                                  => Better(a, c, nSequenceId)
  BY <1>e, BetterOrder
<1>1. ASSUME NEW c \in candidates, Good(c), Better(c, m, nSequenceId) PROVE FALSE
  <2>1. c \in Usable BY <1>1, UsableIsGood
  <2>2. c = m \/ Better(m, c, nSequenceId) BY <2>1 DEF IsMostWork
  <2> QED BY <2>2, <1>1, <1>o, <1>e
<1>2. CASE x \in candidates BY <1>2, <1>1
<1>3. CASE Better(tip, x, nSequenceId)
  <2>1. Better(tip, m, nSequenceId) BY <1>3, <1>o, <1>e
  <2> QED BY <2>1 DEF AsGoodAsTip
<1>4. ASSUME NEW c \in candidates, Proven(c), Better(c, x, nSequenceId) PROVE FALSE
  <2>1. c \in Block /\ Good(c) BY <1>4, <1>e DEF Proven
  <2>2. Better(c, m, nSequenceId) BY <1>4, <2>1, <1>o
  <2> QED BY <2>1, <2>2, <1>1
<1> QED BY <1>2, <1>3, <1>4 DEF JInv, NoneLost

LEMMA ActivateBestChainGood ==
  ASSUME IInv, JInv, NEW t \in Thread, ActivateBestChain(t)
  PROVE  JInv'
<1>f. /\ node = "running" /\ Free /\ FindMostWorkChain
      /\ UNCHANGED <<mapBlockIndex, nTx, haveData, nChainTx, failedValid, nSequenceId,
                     nBlockSequenceId, tip, node>>
  BY DEF ActivateBestChain
<1>m. /\ unlinked' = unlinked
      /\ candidates' \subseteq candidates
      /\ \A c \in candidates : Good(c) => c \in candidates'
      /\ failedChild' \subseteq nChainTx
      /\ \A y \in failedChild' : Anc[y] \cap failedValid # {}
  BY <1>f, FindMostWorkChainGood
<1>g. \A x : (Good(x)' <=> Good(x)) /\ (Proven(x)' <=> Proven(x))
  BY <1>f DEF Proven, Good, NoInvalidParent
<1>e. nSequenceId \in [Block -> Nat] /\ tip \in Block /\ candidates \subseteq Block
  BY GoodFacts DEF IInv, TypeOK
<1>1. AllData' BY <1>f DEF JInv, AllData
<1>2. FailedHasInvalidParent'
  BY <1>f, <1>m DEF JInv, FailedHasInvalidParent, NoInvalidParent, failed
<1>3. UnlinkedApart' BY <1>f, <1>m DEF JInv, UnlinkedApart
<1>4. FailedChildLinked' BY <1>f, <1>m DEF FailedChildLinked
<1>5. CandidatesGood' BY <1>f, <1>m DEF JInv, CandidatesGood, AsGoodAsTip
<1>6. NoneLost'
  <2>1. \A c \in candidates : Proven(c) => c \in candidates' BY <1>m DEF Proven
  <2> QED BY <1>f, <1>m, <1>g, <2>1 DEF JInv, NoneLost
<1>7. Parked' BY <1>f, <1>m DEF JInv, Parked
<1>8. GoodLinked' BY <1>f DEF JInv, GoodLinked, Processed, NoInvalidParent
<1>9. SomeoneLooks' /\ SwitchBest'
  <2>1. CASE /\ Usable = {} \/ (tip \in Usable /\ IsMostWork(tip))
             /\ pc' = [pc EXCEPT ![t] = "idle"]
    <3>1. IsMostWork(tip) BY <2>1 DEF IsMostWork
    <3>2. AsGoodAsTip(tip) BY <1>e, BetterOrder DEF AsGoodAsTip
    <3>3. \A x \in Block : Good(x) => ~Better(x, tip, nSequenceId) BY <3>1, <3>2, <1>e, MostWorkIsBest
    <3>4. SomeoneLooks' BY <3>3, <1>f, <1>g DEF SomeoneLooks
    <3>5. \A u \in Thread : pc'[u] # "switch" BY <2>1, <1>f DEF IInv, TypeOK, Free
    <3> QED BY <3>4, <3>5 DEF SwitchBest
  <2>2. ASSUME NEW c \in Usable \ {tip}, IsMostWork(c), pc' = [pc EXCEPT ![t] = "switch"],
               mostWork' = [mostWork EXCEPT ![t] = c], oldTip' = [oldTip EXCEPT ![t] = tip]
        PROVE  SomeoneLooks' /\ SwitchBest'
    <3>1. c \in candidates /\ c \in Block /\ AsGoodAsTip(c)
      BY <1>e DEF Usable, JInv, CandidatesGood
    <3>2. \A x \in Block : Good(x) => ~Better(x, c, nSequenceId) BY <2>2, <3>1, MostWorkIsBest
    <3>3. Better(c, tip, nSequenceId) BY <3>1, <1>e, BetterOrder DEF AsGoodAsTip
    <3>4. /\ pc'[t] = "switch" /\ mostWork'[t] = c /\ oldTip'[t] = tip
          /\ \A u \in Thread \ {t} : pc'[u] # "switch"
      BY <2>2, <1>f DEF IInv, TypeOK, Free
    <3>5. SwitchBest' BY <3>2, <3>3, <3>4, <1>f, <1>g DEF SwitchBest
    <3>6. Looking(t)' BY <3>4 DEF Looking
    <3> QED BY <3>5, <3>6 DEF SomeoneLooks
  <2> QED BY <2>1, <2>2 DEF ActivateBestChain
<1> QED BY <1>1, <1>2, <1>3, <1>4, <1>5, <1>6, <1>7, <1>8, <1>9 DEF JInv

(***************************************************************************)
(* DisconnectTip.  The block that leaves the active chain is a candidate,  *)
(* or something better is.                                                 *)
(***************************************************************************)
LEMMA DisconnectTipGood ==
  ASSUME IInv, JInv, NEW t \in Thread, DisconnectTip(t)
  PROVE  JInv'
<1>e. /\ nSequenceId \in [Block -> Nat] /\ tip \in Block /\ candidates \subseteq Block
      /\ Proven(tip) /\ tip \in haveData
  BY GoodFacts DEF IInv, TypeOK, Proven, Good, JInv, AllData
<1>f. /\ pc[t] = "switch" /\ tip \notin Anc[mostWork[t]] /\ tip' = Parent[tip]
      /\ UNCHANGED <<nTx, haveData, nChainTx, nSequenceId, nBlockSequenceId, unlinked,
                     failedValid, failedChild, candidates, mostWork, oldTip, pc, node>>
  BY <1>e DEF DisconnectTip, indexVars, threadVars
<1>g. tip \in Block \ {Genesis}
  <2>1. mostWork[t] \in Block BY DEF IInv, TypeOK
  <2> QED BY <2>1, <1>f, <1>e, TreeAssumption
<1>p. tip' \in Block /\ Better(tip, tip', nSequenceId)
  <2>1. Parent[tip] \in Block /\ Anc[tip] = Anc[Parent[tip]] \cup {tip} /\ tip \notin Anc[Parent[tip]]
    BY <1>g, AncOfChild
  <2>2. Parent[tip] \in Anc[tip] /\ Parent[tip] # tip BY <2>1, TreeAssumption
  <2> QED BY <2>1, <2>2, <1>f, <1>e, BetterThanAncestor
<1>o. /\ \A a \in Block : ~Better(a, a, nSequenceId)
      /\ \A a, b, c \in Block : Better(a, b, nSequenceId) /\ Better(b, c, nSequenceId)
                                  => Better(a, c, nSequenceId)
  BY <1>e, BetterOrder
<1>h. \A x : (Good(x)' <=> Good(x)) /\ (Proven(x)' <=> Proven(x))
  BY <1>f DEF Proven, Good, NoInvalidParent
<1>1. AllData' BY <1>f DEF JInv, AllData
<1>2. FailedHasInvalidParent' BY <1>f DEF JInv, FailedHasInvalidParent, NoInvalidParent, failed
<1>3. UnlinkedApart' /\ FailedChildLinked' BY <1>f DEF JInv, UnlinkedApart, FailedChildLinked
<1>4. CandidatesGood' BY <1>f, <1>p, <1>o, <1>e DEF JInv, CandidatesGood, AsGoodAsTip
<1>5. NoneLost'
  <2> SUFFICES ASSUME NEW x \in Block, Good(x)
               PROVE  \/ x \in candidates \/ Better(tip', x, nSequenceId)
                      \/ \E c \in candidates : Proven(c) /\ Better(c, x, nSequenceId)
    BY <1>h, <1>f DEF NoneLost
  <2>1. CASE Better(tip, x, nSequenceId)
    <3>1. CASE tip \in candidates BY <3>1, <2>1, <1>e
    <3>2. ASSUME NEW c \in candidates, Proven(c), Better(c, tip, nSequenceId)
          PROVE  Proven(c) /\ Better(c, x, nSequenceId)
      BY <3>2, <2>1, <1>o, <1>e
    <3>3. Good(tip) /\ ~Better(tip, tip, nSequenceId) BY <1>e, <1>o DEF Proven
    <3> QED BY <3>1, <3>2, <3>3, <1>e DEF JInv, NoneLost
  <2> QED BY <2>1 DEF JInv, NoneLost
<1>6. SwitchBest' BY <1>f, <1>h DEF JInv, SwitchBest
<1>7. SomeoneLooks' BY <1>f DEF SomeoneLooks, Looking
<1>8. Parked' BY <1>f DEF JInv, Parked
<1>9. GoodLinked' BY <1>f DEF JInv, GoodLinked, Processed, NoInvalidParent
<1> QED BY <1>1, <1>2, <1>3, <1>4, <1>5, <1>6, <1>7, <1>8, <1>9 DEF JInv

(***************************************************************************)
(* ConnectTip.  The activation ends with the chain it chose, which is the  *)
(* best there is (SwitchBest), or it goes round again.                     *)
(***************************************************************************)
LEMMA ConnectTipGood ==
  ASSUME IInv, JInv, NEW t \in Thread, ConnectTip(t)
  PROVE  JInv'
<1>f. /\ pc[t] = "switch"
      /\ UNCHANGED <<mapBlockIndex, nTx, haveData, nChainTx, nSequenceId, nBlockSequenceId,
                     unlinked, mostWork, oldTip>>
  BY DEF ConnectTip, indexVars, threadVars
<1>e. /\ nSequenceId \in [Block -> Nat] /\ tip \in Block /\ candidates \subseteq Block
      /\ pc \in [Thread -> PC]
  BY GoodFacts DEF IInv, TypeOK
<1>s. mostWork[t] \in Block /\ Anc[mostWork[t]] \subseteq haveData
  BY <1>f DEF IInv, TypeOK, SwitchSafe, LinkedClosed, JInv, AllData
<1>u. \A u \in Thread \ {t} : pc[u] # "switch" BY <1>f DEF IInv, OneSwitch
<1> DEFINE next(b) == IF Released(t, b) THEN "loop" ELSE "switch"
<1>b. PICK b \in Anc[mostWork[t]] \ {Genesis} :
        /\ Parent[b] = tip
        /\ \/ /\ tip' = b
              /\ candidates' = PruneBlockIndexCandidates(candidates, b)
              /\ pc' = [pc EXCEPT ![t] = next(b)]
              /\ UNCHANGED <<failedValid, failedChild, node>>
           \/ /\ b \notin Sound /\ InvalidBlockFound(b)
              /\ pc' = [pc EXCEPT ![t] = "loop"]
              /\ UNCHANGED <<tip, node>>
  BY <1>s DEF ConnectTip
<1>c. b \in Block \ {Genesis} BY <1>s, AncTransitive
<1>d. Anc[b] = Anc[tip] \cup {b} /\ b \notin Anc[tip] BY <1>b, <1>c, AncOfChild
<1>1. CASE /\ tip' = b
           /\ candidates' = PruneBlockIndexCandidates(candidates, b)
           /\ pc' = [pc EXCEPT ![t] = next(b)]
           /\ UNCHANGED <<failedValid, failedChild, node>>
  <2>p. /\ pc'[t] = next(b) /\ \A u \in Thread \ {t} : pc'[u] = pc[u]
    BY <1>1, <1>e
  <2>c. candidates' = {c \in candidates : ~Better(b, c, nSequenceId)}
    BY <1>1 DEF PruneBlockIndexCandidates
  <2>b. Better(b, tip, nSequenceId)
    <3>1. tip \in Anc[b] /\ tip # b BY <1>d, <1>e, TreeAssumption
    <3> QED BY <3>1, <1>c, BetterThanAncestor
  <2>o. \A x, y, z \in Block : Better(x, y, nSequenceId) /\ Better(y, z, nSequenceId)
                                  => Better(x, z, nSequenceId)
    BY <1>e, BetterOrder
  <2>h. \A x : (Good(x)' <=> Good(x)) /\ (Proven(x)' <=> Proven(x))
    BY <1>f, <1>1 DEF Proven, Good, NoInvalidParent
  <2>1. AllData' BY <1>f, <1>1 DEF JInv, AllData
  <2>2. FailedHasInvalidParent'
    BY <1>f, <1>1 DEF JInv, FailedHasInvalidParent, NoInvalidParent, failed
  <2>3. UnlinkedApart' /\ FailedChildLinked' BY <1>f, <1>1 DEF JInv, UnlinkedApart, FailedChildLinked
  <2>4. CandidatesGood' BY <2>c, <1>1, <1>f DEF CandidatesGood, AsGoodAsTip
  <2>5. NoneLost'
    <3> SUFFICES ASSUME NEW x \in Block, Good(x)
                 PROVE  \/ x \in candidates' \/ Better(b, x, nSequenceId)
                        \/ \E c \in candidates' : Proven(c) /\ Better(c, x, nSequenceId)
      BY <2>h, <1>1, <1>f DEF NoneLost
    <3>1. CASE x \in candidates BY <3>1, <2>c
    <3>2. CASE Better(tip, x, nSequenceId) BY <3>2, <2>b, <2>o, <1>c, <1>e
    <3>3. ASSUME NEW c \in candidates, Proven(c), Better(c, x, nSequenceId)
          PROVE  Better(b, x, nSequenceId) \/ c \in candidates'
      BY <3>3, <2>c, <2>o, <1>c, <1>e
    <3> QED BY <3>1, <3>2, <3>3 DEF JInv, NoneLost
  <2>6. SwitchBest'
    <3>1. \A u \in Thread : pc'[u] = "switch" => pc[u] = "switch" BY <2>p, <1>f
    <3> QED BY <3>1, <1>f, <2>h DEF JInv, SwitchBest
  <2>7. SomeoneLooks'
    <3>1. CASE b = mostWork[t]
      <4>1. \A x \in Block : Good(x) => ~Better(x, b, nSequenceId)
        BY <3>1, <1>f DEF JInv, SwitchBest
      <4> QED BY <4>1, <2>h, <1>1, <1>f DEF SomeoneLooks
    <3>2. CASE b # mostWork[t]
      <4>1. Looking(t)' BY <3>2, <2>p, <1>1, <1>f DEF Looking, Unfinished
      <4> QED BY <4>1 DEF SomeoneLooks
    <3> QED BY <3>1, <3>2
  <2>8. Parked' BY <1>f, <1>1 DEF JInv, Parked
  <2>9. GoodLinked' BY <1>f, <1>1 DEF JInv, GoodLinked, Processed, NoInvalidParent
  <2> QED BY <2>1, <2>2, <2>3, <2>4, <2>5, <2>6, <2>7, <2>8, <2>9 DEF JInv
<1>2. CASE /\ b \notin Sound /\ InvalidBlockFound(b)
           /\ pc' = [pc EXCEPT ![t] = "loop"]
           /\ UNCHANGED <<tip, node>>
  <2>1. pc'[t] = "loop" /\ \A u \in Thread \ {t} : pc'[u] = pc[u] BY <1>2, <1>e
  <2>2. mostWork[t] # tip BY <1>d
  <2>3. Looking(t)' BY <2>1, <2>2, <1>2, <1>f DEF Looking, Unfinished
  <2>4. SomeoneLooks' BY <2>3 DEF SomeoneLooks
  <2>5. \A u \in Thread : pc'[u] # "switch" BY <2>1, <1>u
  <2>6. b \in Block \ Sound BY <1>2, <1>c
  <2>7. /\ failedValid' = failedValid \cup {b} /\ candidates' = candidates \ {b}
        /\ failedChild' = failedChild
    BY <1>2 DEF InvalidBlockFound
  <2> QED BY <2>4, <2>5, <2>6, <2>7, <1>2, <1>f, MarkInvalid
<1> QED BY <1>b, <1>1, <1>2

(***************************************************************************)
(* InvalidateBlock.  The branches that are not worse than the new tip are  *)
(* candidates again; everything it marks has the block below it.           *)
(***************************************************************************)
LEMMA WalkFacts ==
  ASSUME IInv, NEW b \in Block \ {Genesis}
  PROVE  /\ Walk(b) \subseteq Anc[tip]
         /\ \A y \in Walk(b) : b \in Anc[y]
         /\ Walk(b) # {} => Parent[b] \in Anc[tip]
<1>1. tip \in Block BY DEF IInv, TypeOK
<1>2. Parent[b] \in Block /\ Anc[b] = Anc[Parent[b]] \cup {b} BY AncOfChild
<1>3. CASE b \notin Anc[tip] BY <1>3 DEF Walk
<1>4. CASE b \in Anc[tip]
  <2>1. Walk(b) = Anc[tip] \ Anc[Parent[b]] BY <1>4 DEF Walk
  <2>2. Parent[b] \in Anc[tip]
    <3>1. Parent[b] \in Anc[b] BY <1>2, TreeAssumption
    <3> QED BY <3>1, <1>1, <1>4, AncTransitive
  <2>3. ASSUME NEW y \in Walk(b) PROVE b \in Anc[y]
    <3>1. y \in Anc[tip] /\ y \notin Anc[Parent[b]] BY <2>1
    <3>2. CASE y = b BY <3>2, TreeAssumption
    <3>3. CASE y # b
      <4>1. y \notin Anc[b] BY <3>1, <3>3, <1>2
      <4> QED BY <4>1, <3>1, <1>1, <1>4, Comparable
    <3> QED BY <3>2, <3>3
  <2> QED BY <2>1, <2>2, <2>3
<1> QED BY <1>3, <1>4

LEMMA InvalidateBlockGood ==
  ASSUME IInv, JInv, NEW t \in Thread, NEW b \in Invalidatable, InvalidateBlock(t, b)
  PROVE  JInv'
<1> DEFINE walk == Walk(b)
           newTip == IF walk = {} THEN tip ELSE Parent[b]
<1>b. b \in Block \ {Genesis} BY ContentAssumption
<1>e. /\ nSequenceId \in [Block -> Nat] /\ tip \in Block /\ candidates \subseteq Block
      /\ Anc[tip] \subseteq nChainTx /\ nChainTx \subseteq haveData /\ nTx \subseteq mapBlockIndex
  BY GoodFacts DEF IInv, TypeOK, TipLinked, JInv, AllData
<1>w. /\ walk \subseteq Anc[tip] /\ \A y \in walk : b \in Anc[y]
      /\ walk # {} => Parent[b] \in Anc[tip]
  BY <1>b, WalkFacts
<1>f. /\ Free /\ failedValid' = failedValid \cup {b}
      /\ tip' = newTip /\ failedChild' = failedChild \cup walk
      /\ candidates' = (candidates \ (walk \cup {b}))
                          \cup RestoreCandidates(newTip, failed \cup walk \cup {b})
      /\ pc' = [pc EXCEPT ![t] = "find"]
      /\ UNCHANGED <<mapBlockIndex, nTx, haveData, nChainTx, nSequenceId, nBlockSequenceId,
                     unlinked, mostWork, oldTip, node>>
  <2>1. walk \ haveData = {} BY <1>w, <1>e
  <2> QED BY <2>1 DEF InvalidateBlock, indexVars, threadVars
<1>n. newTip \in Anc[tip] /\ newTip \in Block
  <2>1. newTip \in Anc[tip] BY <1>w, <1>e, TreeAssumption
  <2> QED BY <2>1, <1>e, AncTransitive
<1>r. RestoreCandidates(newTip, failed \cup walk \cup {b}) =
        {x \in mapBlockIndex \ (failed \cup walk \cup {b}) :
            x \in nTx /\ x \in nChainTx /\ ~Better(newTip, x, nSequenceId)}
  BY DEF RestoreCandidates
<1> HIDE DEF walk, newTip
<1>p. SomeoneLooks' /\ \A u \in Thread : pc'[u] # "switch"
  BY <1>f, FindLooks DEF IInv, Free
<1>1. AllData' BY <1>f DEF JInv, AllData
<1>2. FailedHasInvalidParent'
  <2>1. b \in Anc[b] BY <1>b, TreeAssumption
  <2> QED BY <2>1, <1>f, <1>w DEF JInv, FailedHasInvalidParent, NoInvalidParent, failed
<1>3. UnlinkedApart' BY <1>f DEF JInv, UnlinkedApart
<1>4. FailedChildLinked' BY <1>f, <1>w, <1>e DEF JInv, FailedChildLinked
<1>5. CandidatesGood'
  <2>1. ASSUME NEW c \in candidates, Better(newTip, c, nSequenceId) PROVE FALSE
    <3>1. ~Better(tip, c, nSequenceId) BY DEF JInv, CandidatesGood, AsGoodAsTip
    <3>2. newTip # tip BY <2>1, <3>1
    <3>3. Better(tip, newTip, nSequenceId) BY <3>2, <1>n, <1>e, BetterThanAncestor
    <3> QED BY <3>1, <3>3, <2>1, <1>n, <1>e, BetterOrder
  <2> QED BY <2>1, <1>f, <1>r DEF CandidatesGood, AsGoodAsTip
<1>6. NoneLost'
  <2>1. ASSUME NEW x \in Block, Good(x)', ~Better(newTip, x, nSequenceId) PROVE x \in candidates'
    <3>1. x \in nChainTx /\ NoInvalidParent(x) /\ b \notin Anc[x]
      BY <2>1, <1>f DEF Good, NoInvalidParent
    <3>2. Anc[x] \cap failed = {} BY <3>1, GoodFacts DEF Good
    <3>3. x \in Anc[x] BY TreeAssumption
    <3>4. x \in mapBlockIndex /\ x \in nTx BY <3>1 DEF IInv, TypeOK
    <3>5. x \notin failed \cup walk \cup {b} BY <3>1, <3>2, <3>3, <1>w
    <3>6. x \in RestoreCandidates(newTip, failed \cup walk \cup {b})
      BY <2>1, <3>1, <3>4, <3>5, <1>r
    <3> QED BY <3>6, <1>f
  <2> QED BY <2>1, <1>f DEF NoneLost
<1>7. SwitchBest' BY <1>p DEF SwitchBest
<1>8. Parked' BY <1>f DEF JInv, Parked
<1>9. GoodLinked' BY <1>f DEF JInv, GoodLinked, Processed, NoInvalidParent
<1> QED BY <1>p, <1>1, <1>2, <1>3, <1>4, <1>5, <1>6, <1>7, <1>8, <1>9 DEF JInv

(***************************************************************************)
(* LoadBlockIndexDB.  A FAILED_CHILD flag that was lost is no loss: the    *)
(* block it stems from still has its own.                                  *)
(***************************************************************************)
LEMMA LoadBlockIndexDBGood ==
  ASSUME IInv, JInv, NEW t \in Thread, LoadBlockIndexDB(t)
  PROVE  JInv'
<1> DEFINE seq  == [b \in Block |-> 0]
           link == {b \in Block : Anc[b] \subseteq nTx}
<1>f. /\ node' = "running" /\ \A u \in Thread : pc[u] = "idle"
      /\ nSequenceId' = seq /\ nBlockSequenceId' = 1 /\ nChainTx' = link
      /\ unlinked' = {b \in nTx \ {Genesis} : Parent[b] \notin link}
      /\ failedChild' \subseteq failedChild
      /\ candidates' = {b \in link : b \notin failedValid \cup failedChild' /\ ~Better(tip, b, seq)}
      /\ pc' = [pc EXCEPT ![t] = "find"]
      /\ UNCHANGED <<nTx, haveData, failedValid, tip, mostWork, oldTip>>
  BY DEF LoadBlockIndexDB, threadVars
<1>l. \A x \in Block : x \in link <=> Processed(x) BY DEF Processed
<1>k. nChainTx \subseteq link BY DEF IInv, TypeOK, LinkedClosed
<1>s. link \subseteq Block OBVIOUS
<1> HIDE DEF seq, link
<1>p. SomeoneLooks' /\ \A u \in Thread : pc'[u] # "switch"
  BY <1>f, FindLooks DEF IInv
<1>c. \A y \in Block \ {Genesis} : y \in link <=> Parent[y] \in link /\ y \in nTx
  <2> TAKE y \in Block \ {Genesis}
  <2>1. Parent[y] \in Block /\ Anc[y] = Anc[Parent[y]] \cup {y} BY AncOfChild
  <2> QED BY <2>1, <1>l DEF Processed
<1>1. AllData' BY <1>f DEF JInv, AllData
<1>2. FailedHasInvalidParent' BY <1>f DEF JInv, FailedHasInvalidParent, NoInvalidParent, failed
<1>3. UnlinkedApart' BY <1>f, <1>c DEF UnlinkedApart, IInv, TypeOK
<1>4. FailedChildLinked' BY <1>f, <1>k DEF JInv, FailedChildLinked
<1>5. CandidatesGood' BY <1>f DEF CandidatesGood, AsGoodAsTip
<1>6. NoneLost'
  <2>1. ASSUME NEW x \in Block, Good(x)' PROVE x \in candidates' \/ Better(tip, x, seq)
    <3>1. x \in link /\ NoInvalidParent(x) BY <2>1, <1>f DEF Good, NoInvalidParent
    <3>2. x \notin failed BY <3>1 DEF JInv, FailedHasInvalidParent
    <3> QED BY <3>1, <3>2, <1>f DEF failed
  <2> QED BY <2>1, <1>f DEF NoneLost
<1>7. SwitchBest' BY <1>p DEF SwitchBest
<1>8. Parked'
  <2>1. Genesis \in link
    <3>1. tip \in Block /\ tip \in link BY <1>k, GoodFacts DEF Proven, Good
    <3>2. Genesis \in Anc[tip] BY <3>1, TreeAssumption
    <3> QED BY <3>1, <3>2, <1>l, TreeAssumption DEF Processed
  <2> QED BY <2>1, <1>f, <1>c DEF Parked, IInv, TypeOK
<1>9. GoodLinked' BY <1>f, <1>l DEF GoodLinked, Processed
<1> QED BY <1>p, <1>1, <1>2, <1>3, <1>4, <1>5, <1>6, <1>7, <1>8, <1>9 DEF JInv

LEMMA NextGood ==
  ASSUME PruneBound = 0, Reconsiderable = {}
  PROVE  IInv /\ JInv /\ [Next]_vars => JInv'
<1> SUFFICES ASSUME IInv, JInv, [Next]_vars PROVE JInv' OBVIOUS
<1>1. CASE UNCHANGED vars
  <2>1. UNCHANGED <<nTx, haveData, nChainTx, failedValid, failedChild, nSequenceId,
                    nBlockSequenceId, candidates, unlinked, tip, pc, mostWork, oldTip, node>>
    BY <1>1 DEF vars
  <2>2. SomeoneLooks' BY <2>1 DEF JInv, SomeoneLooks, Good, NoInvalidParent, Looking, Unfinished
  <2>3. node' # "aborted" BY <2>1 DEF JInv, AllData
  <2> QED BY <2>1, <2>2, <2>3, IndexAlone
<1>2. ASSUME NEW b \in Block, AcceptBlockHeader(b) PROVE JInv' BY <1>2, AcceptBlockHeaderGood
<1>3. ASSUME NEW b \in Block, PruneOneBlockFile(b) PROVE JInv'
  <2>1. nBlockSequenceId <= PruneBound BY <1>3 DEF PruneOneBlockFile
  <2>2. nBlockSequenceId \in Nat /\ nBlockSequenceId >= 1 BY DEF IInv, TypeOK, JInv, AllData
  <2> QED BY <2>1, <2>2
<1>4. ASSUME NEW t \in Thread, NEW b \in Block, NEW fRequested \in BOOLEAN,
             ProcessNewBlock(t, b, fRequested)
      PROVE  JInv'
  BY <1>4, ProcessNewBlockGood
<1>5. ASSUME NEW t \in Thread, ActivateBestChain(t) PROVE JInv' BY <1>5, ActivateBestChainGood
<1>6. ASSUME NEW t \in Thread, LeaveActivation(t) PROVE JInv' BY <1>6, LeaveActivationGood
<1>7. ASSUME NEW t \in Thread, DisconnectTip(t) PROVE JInv' BY <1>7, DisconnectTipGood
<1>8. ASSUME NEW t \in Thread, ConnectTip(t) PROVE JInv' BY <1>8, ConnectTipGood
<1>9. ASSUME NEW t \in Thread, LoopCondition(t) PROVE JInv' BY <1>9, LoopConditionGood
<1>10. ASSUME NEW t \in Thread, NEW b \in Invalidatable, InvalidateBlock(t, b) PROVE JInv'
  BY <1>10, InvalidateBlockGood
<1>11. ASSUME NEW t \in Thread, LoadBlockIndexDB(t) PROVE JInv' BY <1>11, LoadBlockIndexDBGood
<1>12. CASE StartShutdown BY <1>12, StartShutdownGood
<1> QED
  BY <1>1, <1>2, <1>3, <1>4, <1>5, <1>6, <1>7, <1>8, <1>9, <1>10, <1>11, <1>12 DEF Next

\* without pruning and reconsiderblock the second invariant holds as well
THEOREM SelectionInvariant ==
  ASSUME PruneBound = 0, Reconsiderable = {}
  PROVE  Spec => [](IInv /\ JInv)
<1>1. Init => IInv /\ JInv BY InitOK, InitGood
<1>2. IInv /\ JInv /\ [Next]_vars => (IInv /\ JInv)' BY NextOK, NextGood
<1> QED BY <1>1, <1>2, PTL DEF Spec

(***************************************************************************)
(* No wakeup of the activation loop is missed: whenever every activation   *)
(* has ended, whatever threads received, found invalid or invalidated and  *)
(* in which order, the tip is the best chain the node could switch to.     *)
(* For a node that neither prunes nor is told to reconsider a block.       *)
(***************************************************************************)
THEOREM BestChainAlwaysAtRest ==
  ASSUME PruneBound = 0, Reconsiderable = {}
  PROVE  Spec => []BestChainAtRest
<1>1. IInv /\ JInv => BestChainAtRest
  <2> SUFFICES ASSUME IInv, JInv, Quiet, node = "running",
                      NEW b \in nChainTx, NoInvalidParent(b), Better(b, tip, nSequenceId)
               PROVE  FALSE
    BY DEF BestChainAtRest
  <2>1. b \in Block /\ Good(b) BY DEF IInv, TypeOK, Good
  <2>2. PICK t \in Thread : Looking(t) BY <2>1 DEF JInv, SomeoneLooks
  <2> QED BY <2>2 DEF Looking, Quiet
<1> QED BY <1>1, SelectionInvariant, PTL

(***************************************************************************)
(* No candidate sorts worse than the tip when cs_main is free, none lacks  *)
(* an ancestor, and FindMostWorkChain always has a block to return.        *)
(***************************************************************************)
THEOREM CandidatesAlwaysSound ==
  ASSUME PruneBound = 0, Reconsiderable = {}
  PROVE  Spec => []CandidatesSound
<1>1. IInv /\ JInv => CandidatesSound
  <2> SUFFICES ASSUME IInv, JInv PROVE CandidatesSound OBVIOUS
  <2>1. \A c \in candidates : AsGoodAsTip(c) BY DEF JInv, CandidatesGood
  <2>2. \A c \in candidates : Processed(c) BY DEF IInv, TypeOK, LinkedClosed, Processed
  <2>3. SomewhereToGo
    <3>1. tip \in Block /\ Good(tip) /\ nSequenceId \in [Block -> Nat] BY GoodFacts DEF Proven
    <3>2. ~Better(tip, tip, nSequenceId) BY <3>1, BetterOrder
    <3>3. PICK c \in candidates : Good(c) BY <3>1, <3>2 DEF JInv, NoneLost, Proven
    <3>4. c \in Usable BY <3>3, UsableIsGood
    <3> QED BY <3>4 DEF SomewhereToGo
  <2> QED BY <2>1, <2>2, <2>3 DEF CandidatesSound
<1> QED BY <1>1, SelectionInvariant, PTL

(***************************************************************************)
(* When cs_main is released by an activation that met no invalid block,    *)
(* the tip sorts before the one the reorganisation started from, although  *)
(* an iteration may end before it has reached pindexMostWork.              *)
(***************************************************************************)
THEOREM ReorgAlwaysImproves ==
  ASSUME PruneBound = 0, Reconsiderable = {}
  PROVE  Spec => ReorgImproves
<1> DEFINE A == \A t \in Thread : pc[t] = "switch" /\ pc'[t] = "loop" /\ failedValid' = failedValid
                                     => Better(tip', oldTip[t], nSequenceId)
<1>1. ASSUME IInv, JInv, [Next]_vars, NEW t \in Thread, pc[t] = "switch", pc'[t] = "loop",
             failedValid' = failedValid
      PROVE  Better(tip', oldTip[t], nSequenceId)
  <2>t. pc \in [Thread -> PC] /\ \A u \in Thread : pc[u] = "switch" => u = t
    BY <1>1 DEF IInv, TypeOK, OneSwitch
  <2>f. ~Free BY <1>1 DEF Free
  <2>1. ConnectTip(t)
    <3>1. CASE UNCHANGED vars BY <3>1, <1>1 DEF vars
    <3>2. ASSUME NEW b \in Block, AcceptBlockHeader(b) PROVE FALSE
      BY <3>2, <2>f DEF AcceptBlockHeader
    <3>3. ASSUME NEW b \in Block, PruneOneBlockFile(b) PROVE FALSE
      BY <3>3, <1>1 DEF PruneOneBlockFile
    <3>4. ASSUME NEW u \in Thread, NEW b \in Block, NEW fRequested \in BOOLEAN,
                 ProcessNewBlock(u, b, fRequested)
          PROVE  FALSE
      BY <3>4, <2>f DEF ProcessNewBlock
    <3>5. ASSUME NEW u \in Thread, ActivateBestChain(u) PROVE FALSE
      BY <3>5, <2>f DEF ActivateBestChain
    <3>6. ASSUME NEW u \in Thread, LeaveActivation(u) PROVE FALSE
      BY <3>6, <2>t, <1>1 DEF LeaveActivation
    <3>7. ASSUME NEW u \in Thread, DisconnectTip(u) PROVE FALSE
      BY <3>7, <2>t, <1>1 DEF DisconnectTip
    <3>8. ASSUME NEW u \in Thread, ConnectTip(u) PROVE ConnectTip(t)
      <4>1. u = t BY <3>8, <2>t DEF ConnectTip
      <4> QED BY <3>8, <4>1
    <3>9. ASSUME NEW u \in Thread, LoopCondition(u) PROVE FALSE
      BY <3>9, <2>t, <1>1 DEF LoopCondition
    <3>10. ASSUME NEW u \in Thread, NEW b \in Invalidatable, InvalidateBlock(u, b) PROVE FALSE
      BY <3>10, <2>f DEF InvalidateBlock
    <3>11. ASSUME NEW u \in Thread, LoadBlockIndexDB(u) PROVE FALSE
      BY <3>11, <1>1 DEF LoadBlockIndexDB
    <3>12. CASE StartShutdown BY <3>12, <1>1 DEF StartShutdown
    <3> QED
      BY <3>1, <3>2, <3>3, <3>4, <3>5, <3>6, <3>7, <3>8, <3>9, <3>10, <3>11, <3>12, <1>1 DEF Next
  <2>s. /\ mostWork[t] \in Block /\ Anc[mostWork[t]] \cap failed = {}
        /\ Better(mostWork[t], oldTip[t], nSequenceId)
    BY <1>1 DEF IInv, TypeOK, SwitchSafe, JInv, SwitchBest
  <2>2. PICK b \in Anc[mostWork[t]] : tip' = b /\ Released(t, b)
    <3>1. ASSUME NEW b \in Anc[mostWork[t]], InvalidBlockFound(b) PROVE FALSE
      BY <3>1, <1>1, <2>s DEF InvalidBlockFound, failed
    <3>2. PICK b \in Anc[mostWork[t]] :
            \/ pc' = [pc EXCEPT ![t] = "idle"]
            \/ tip' = b /\ pc' = [pc EXCEPT ![t] = IF Released(t, b) THEN "loop" ELSE "switch"]
            \/ InvalidBlockFound(b)
      BY <2>1 DEF ConnectTip
    <3>3. pc'[t] # "idle" BY <1>1
    <3>4. CASE tip' = b /\ pc' = [pc EXCEPT ![t] = IF Released(t, b) THEN "loop" ELSE "switch"]
      <4>1. pc'[t] = IF Released(t, b) THEN "loop" ELSE "switch" BY <3>4, <2>t
      <4> QED BY <4>1, <3>4, <1>1
    <3> QED BY <3>1, <3>2, <3>3, <3>4, <2>t
  <2> QED BY <2>2, <2>s DEF Released, Better
<1>2. IInv /\ JInv /\ [Next]_vars => [A]_vars BY <1>1
<1> QED BY <1>2, SelectionInvariant, PTL DEF Spec, ReorgImproves

----------------------------------------------------------------------------
(* When the operator invalidates only blocks that are linked as soon as    *)
(* they arrive: the third invariant                                        *)

LEMMA InitExact == Init => UInv
<1> SUFFICES ASSUME Init PROVE UInv OBVIOUS
<1>1. FailedUnreceived /\ ParkedExact BY DEF Init, FailedUnreceived, ParkedExact
<1>2. AllLinked BY TreeAssumption DEF Init, AllLinked, Processed
<1> QED BY <1>1, <1>2 DEF UInv

\* a step that changes none of what UInv speaks of, except that a block that
\* is linked or was never received is marked
LEMMA MarkExact ==
  ASSUME UInv, mapBlockIndex \subseteq mapBlockIndex', NEW F \in SUBSET mapBlockIndex',
         failedValid' = failedValid \cup F, F \cap nTx \subseteq nChainTx,
         UNCHANGED <<nTx, nChainTx, unlinked>>
  PROVE  UInv'
<1>1. FailedUnreceived' BY DEF UInv, FailedUnreceived
<1>2. ParkedExact' BY DEF UInv, ParkedExact
<1>3. AllLinked' BY DEF UInv, AllLinked, Processed
<1> QED BY <1>1, <1>2, <1>3 DEF UInv

LEMMA SameExact ==
  ASSUME UInv, mapBlockIndex \subseteq mapBlockIndex',
         UNCHANGED <<nTx, nChainTx, unlinked, failedValid>>
  PROVE  UInv'
<1>1. /\ {} \in SUBSET mapBlockIndex' /\ {} \cap nTx \subseteq nChainTx
      /\ failedValid' = failedValid \cup {}
  OBVIOUS
<1> QED BY <1>1, MarkExact

\* as NewlyLinkedAll, and here an invalid parent makes no difference
LEMMA NewlyLinkedExact ==
  ASSUME IInv, UInv, NEW b \in Block \ {Genesis}, b \notin nTx, b \notin failedValid,
         NEW x \in Block, b \in Anc[x], Anc[x] \subseteq nTx \cup {b}
  PROVE  x \in NewlyLinked(b)
<1>1. SUFFICES ASSUME NEW y \in Anc[x], y \notin Anc[b] PROVE y \in unlinked
  BY DEF NewlyLinked
<1>2. y \in Block \ {Genesis} /\ y # b /\ y \in nTx
  BY <1>1, TreeAssumption
<1>3. b \in Anc[y] BY <1>1, Comparable
<1>4. b \notin nChainTx BY DEF IInv, TypeOK
<1>5. y \notin nChainTx BY <1>3, <1>4 DEF IInv, LinkedClosed
<1>6. Parent[y] \in Anc[x]
  <2>1. Parent[y] \in Block /\ Anc[y] = Anc[Parent[y]] \cup {y} BY <1>2, AncOfChild
  <2>2. Parent[y] \in Anc[Parent[y]] BY <2>1, TreeAssumption
  <2>3. Anc[y] \subseteq Anc[x] BY <1>1, AncTransitive
  <2> QED BY <2>1, <2>2, <2>3
<1>7. Parent[y] \notin failedValid \ nTx BY <1>6
<1> QED BY <1>2, <1>5, <1>7 DEF UInv, ParkedExact

LEMMA ProcessNewBlockExact ==
  ASSUME IInv, JInv, UInv, NEW t \in Thread, NEW b \in Block, NEW fRequested \in BOOLEAN,
         ProcessNewBlock(t, b, fRequested)
  PROVE  UInv'
<1>f. /\ b \in Block \ {Genesis} /\ mapBlockIndex' = mapBlockIndex \cup {b} /\ HeaderAccepted(b)
  BY DEF ProcessNewBlock
<1>v. b \notin failedValid
  BY <1>f DEF HeaderAccepted, failed, UInv, FailedUnreceived
<1>1. CASE UNCHANGED <<nTx, haveData, nChainTx, failedValid, nSequenceId, nBlockSequenceId,
                       candidates, unlinked>>
  BY <1>1, <1>f, SameExact
<1>2. CASE /\ ~NotProcessed(b, fRequested) /\ failedValid' = failedValid \cup {b}
           /\ UNCHANGED <<nTx, nChainTx, unlinked>>
  <2>1. b \notin nTx BY <1>2 DEF NotProcessed, JInv, AllData
  <2>2. {b} \in SUBSET mapBlockIndex' /\ {b} \cap nTx \subseteq nChainTx BY <2>1, <1>f
  <2> QED BY <1>2, <1>f, <2>2, MarkExact
<1>3. CASE /\ ~NotProcessed(b, fRequested) /\ ReceivedBlockTransactions(b)
           /\ failedValid' = failedValid
  <2>n. b \notin nTx BY <1>3 DEF NotProcessed, JInv, AllData
  <2>x. nTx' = nTx \cup {b} BY <1>3 DEF ReceivedBlockTransactions
  <2>1. CASE Parent[b] \in nChainTx
    <3> DEFINE L == NewlyLinked(b)
    <3>1. nChainTx' = nChainTx \cup L /\ unlinked' = unlinked \ (L \ {b})
      BY <1>3, <2>1 DEF ReceivedBlockTransactions
    <3>2. b \in L BY <1>f, <2>n, NewlyLinkedFresh
    <3>3. \A x \in Block : b \in Anc[x] /\ Anc[x] \subseteq nTx \cup {b} => x \in L
      BY <1>f, <1>v, <2>n, NewlyLinkedExact
    <3> HIDE DEF L
    <3>4. FailedUnreceived' BY <3>1, <2>x, <1>3, <1>f, <1>v DEF UInv, FailedUnreceived
    <3>5. ParkedExact' BY <3>1, <3>2, <2>x, <1>3, <1>v DEF UInv, ParkedExact
    <3>6. AllLinked'
      <4> SUFFICES ASSUME NEW x \in Block, Anc[x] \subseteq nTx \cup {b} PROVE x \in nChainTx \cup L
        BY <3>1, <2>x DEF AllLinked, Processed
      <4>1. CASE b \in Anc[x] BY <4>1, <3>3
      <4>2. CASE b \notin Anc[x] BY <4>2 DEF UInv, AllLinked, Processed
      <4> QED BY <4>1, <4>2
    <3> QED BY <3>4, <3>5, <3>6 DEF UInv
  <2>2. CASE Parent[b] \notin nChainTx
    <3>0. b \notin nChainTx BY <2>n DEF IInv, TypeOK
    <3>1. nChainTx' = nChainTx /\ unlinked' = ParkUnlinked(b)
      BY <1>3, <2>2, <3>0 DEF ReceivedBlockTransactions
    <3>p. Parent[b] \in Block /\ Anc[b] = Anc[Parent[b]] \cup {b} /\ b \notin Anc[Parent[b]]
      BY <1>f, AncOfChild
    <3>4. FailedUnreceived' BY <3>1, <2>x, <1>3, <1>f, <1>v DEF UInv, FailedUnreceived
    <3>5. ParkedExact'
      <4>1. b \in unlinked' \/ Parent[b] \in failedValid \ nTx
        BY <3>1, <2>2 DEF JInv, FailedChildLinked, ParkUnlinked, failed, UInv, FailedUnreceived
      <4>2. Parent[b] # b BY <3>p, TreeAssumption
      <4>3. unlinked \subseteq unlinked' BY <3>1 DEF ParkUnlinked
      <4> QED BY <4>1, <4>2, <4>3, <3>1, <2>x, <1>3, <1>v DEF UInv, ParkedExact
    <3>6. AllLinked'
      <4> SUFFICES ASSUME NEW x \in Block, Anc[x] \subseteq nTx \cup {b} PROVE x \in nChainTx
        BY <3>1, <2>x DEF AllLinked, Processed
      <4>1. CASE b \in Anc[x]
        <5>1. Anc[b] \subseteq Anc[x] BY <4>1, AncTransitive
        <5>2. Anc[Parent[b]] \subseteq nTx BY <5>1, <3>p
        <5> QED BY <5>2, <3>p, <2>2 DEF UInv, AllLinked, Processed
      <4>2. CASE b \notin Anc[x] BY <4>2 DEF UInv, AllLinked, Processed
      <4> QED BY <4>1, <4>2
    <3> QED BY <3>4, <3>5, <3>6 DEF UInv
  <2> QED BY <2>1, <2>2
<1> QED BY <1>1, <1>2, <1>3 DEF ProcessNewBlock

LEMMA ConnectTipExact ==
  ASSUME IInv, JInv, UInv, NEW t \in Thread, ConnectTip(t)
  PROVE  UInv'
<1>f. /\ pc[t] = "switch" /\ UNCHANGED <<mapBlockIndex, nTx, nChainTx, unlinked>>
  BY DEF ConnectTip, indexVars
<1>1. Anc[mostWork[t]] \subseteq nChainTx BY <1>f DEF IInv, SwitchSafe, LinkedClosed
<1>2. PICK b \in Anc[mostWork[t]] : failedValid' = failedValid \/ failedValid' = failedValid \cup {b}
  BY DEF ConnectTip, InvalidBlockFound
<1>3. {b} \in SUBSET mapBlockIndex' /\ {b} \cap nTx \subseteq nChainTx
  BY <1>f, <1>1 DEF IInv, TypeOK
<1> QED BY <1>f, <1>2, <1>3, SameExact, MarkExact

LEMMA InvalidateBlockExact ==
  ASSUME IInv, UInv, NEW t \in Thread, NEW b \in Invalidatable, Parent[b] = Genesis,
         InvalidateBlock(t, b)
  PROVE  UInv'
<1>1. /\ failedValid' = failedValid \cup {b} /\ b \in mapBlockIndex
      /\ UNCHANGED <<mapBlockIndex, nTx, nChainTx, unlinked>>
  BY DEF InvalidateBlock, indexVars
<1>2. b \in Block \ {Genesis} BY ContentAssumption
<1>3. Anc[b] = {Genesis, b} BY <1>2, AncOfChild, TreeAssumption
<1>4. Genesis \in nTx
  <2>1. Genesis \in Anc[tip] BY TreeAssumption DEF IInv, TypeOK
  <2> QED BY <2>1 DEF IInv, TypeOK, TipLinked
<1>5. {b} \cap nTx \subseteq nChainTx BY <1>2, <1>3, <1>4 DEF UInv, AllLinked, Processed
<1> QED BY <1>1, <1>5, MarkExact

LEMMA LoadBlockIndexDBExact ==
  ASSUME IInv, UInv, NEW t \in Thread, LoadBlockIndexDB(t)
  PROVE  UInv'
<1> DEFINE link == {b \in Block : Anc[b] \subseteq nTx}
<1>f. /\ nChainTx' = link /\ unlinked' = {b \in nTx \ {Genesis} : Parent[b] \notin link}
      /\ UNCHANGED <<mapBlockIndex, nTx, failedValid>>
  BY DEF LoadBlockIndexDB
<1>l. \A x \in Block : x \in link <=> Processed(x) BY DEF Processed
<1>k. nChainTx \subseteq link BY DEF IInv, TypeOK, LinkedClosed
<1> HIDE DEF link
<1>1. FailedUnreceived' BY <1>f, <1>k DEF UInv, FailedUnreceived
<1>2. ParkedExact'
  <2> SUFFICES ASSUME NEW y \in nTx, y \notin link PROVE y \in unlinked'
    BY <1>f DEF ParkedExact
  <2>1. y \in Block BY DEF IInv, TypeOK
  <2>2. y # Genesis BY <2>1, <1>l, TreeAssumption DEF Processed
  <2>3. Parent[y] \in Block /\ Anc[y] = Anc[Parent[y]] \cup {y} BY <2>1, <2>2, AncOfChild
  <2>4. Parent[y] \notin link BY <2>1, <2>3, <1>l DEF Processed
  <2> QED BY <2>2, <2>4, <1>f
<1>3. AllLinked' BY <1>f, <1>l DEF AllLinked, Processed
<1> QED BY <1>1, <1>2, <1>3 DEF UInv

LEMMA NextExact ==
  ASSUME PruneBound = 0, Reconsiderable = {}, \A b \in Invalidatable : Parent[b] = Genesis
  PROVE  IInv /\ JInv /\ UInv /\ [Next]_vars => UInv'
<1> SUFFICES ASSUME IInv, JInv, UInv, [Next]_vars PROVE UInv' OBVIOUS
<1>1. CASE UNCHANGED vars BY <1>1, SameExact DEF vars
<1>2. ASSUME NEW b \in Block, AcceptBlockHeader(b) PROVE UInv'
  BY <1>2, SameExact DEF AcceptBlockHeader
<1>3. ASSUME NEW b \in Block, PruneOneBlockFile(b) PROVE UInv'
  <2>1. nBlockSequenceId <= PruneBound BY <1>3 DEF PruneOneBlockFile
  <2>2. nBlockSequenceId \in Nat /\ nBlockSequenceId >= 1 BY DEF IInv, TypeOK, JInv, AllData
  <2> QED BY <2>1, <2>2
<1>4. ASSUME NEW t \in Thread, NEW b \in Block, NEW fRequested \in BOOLEAN,
             ProcessNewBlock(t, b, fRequested)
      PROVE  UInv'
  BY <1>4, ProcessNewBlockExact
<1>5. ASSUME NEW t \in Thread, ActivateBestChain(t) PROVE UInv'
  BY <1>5, FindMostWorkChainGood, SameExact DEF ActivateBestChain
<1>6. ASSUME NEW t \in Thread, LeaveActivation(t) PROVE UInv'
  BY <1>6, SameExact DEF LeaveActivation, indexVars
<1>7. ASSUME NEW t \in Thread, DisconnectTip(t) PROVE UInv'
  BY <1>7, SameExact DEF DisconnectTip, indexVars
<1>8. ASSUME NEW t \in Thread, ConnectTip(t) PROVE UInv' BY <1>8, ConnectTipExact
<1>9. ASSUME NEW t \in Thread, LoopCondition(t) PROVE UInv'
  BY <1>9, SameExact DEF LoopCondition, indexVars
<1>10. ASSUME NEW t \in Thread, NEW b \in Invalidatable, InvalidateBlock(t, b) PROVE UInv'
  BY <1>10, InvalidateBlockExact
<1>11. ASSUME NEW t \in Thread, LoadBlockIndexDB(t) PROVE UInv' BY <1>11, LoadBlockIndexDBExact
<1>12. CASE StartShutdown BY <1>12, SameExact DEF StartShutdown, indexVars
<1> QED
  BY <1>1, <1>2, <1>3, <1>4, <1>5, <1>6, <1>7, <1>8, <1>9, <1>10, <1>11, <1>12 DEF Next

\* all three invariants
THEOREM IndexInvariant ==
  ASSUME PruneBound = 0, Reconsiderable = {}, \A b \in Invalidatable : Parent[b] = Genesis
  PROVE  Spec => [](IInv /\ JInv /\ UInv)
<1>1. Init => UInv BY InitExact
<1>2. IInv /\ JInv /\ UInv /\ [Next]_vars => UInv' BY NextExact
<1> QED BY <1>1, <1>2, SelectionInvariant, PTL DEF Spec

----------------------------------------------------------------------------
(* What CheckBlockIndex asserts *)

\* at rest the tip is the one block that sorts as good as the tip
LEMMA CompleteAtRest ==
  ASSUME IInv, JInv
  PROVE  CandidatesCompleteAtRest
<1> SUFFICES ASSUME Quiet, node = "running", NEW b \in mapBlockIndex,
                    AsGoodAsTip(b), Processed(b), NoInvalidParent(b)
             PROVE  b \in candidates
  BY DEF CandidatesCompleteAtRest, CandidatesComplete
<1>e. /\ nSequenceId \in [Block -> Nat] /\ tip \in Block /\ Good(tip) /\ candidates \subseteq Block
  BY GoodFacts DEF Proven, IInv, TypeOK
<1>1. b \in Block /\ Good(b) BY DEF IInv, TypeOK, JInv, GoodLinked, Good
<1>2. \A x \in Block : Good(x) => ~Better(x, tip, nSequenceId)
  BY DEF JInv, SomeoneLooks, Looking, Quiet
<1>3. b = tip BY <1>1, <1>2, <1>e, BetterOrder DEF AsGoodAsTip
<1>4. ~Better(tip, tip, nSequenceId) BY <1>e, BetterOrder
<1>5. \A c \in candidates : Proven(c) => ~Better(c, tip, nSequenceId) BY <1>2, <1>e DEF Proven
<1> QED BY <1>1, <1>3, <1>4, <1>5, <1>e DEF JInv, NoneLost

(***************************************************************************)
(* Without reconsiderblock no candidate is lost: at rest, the candidate    *)
(* set holds whatever sorts as good as the tip and could be connected.     *)
(* (With it, the run lost_candidate shows one that is.)                    *)
(***************************************************************************)
THEOREM NoCandidateLost ==
  ASSUME PruneBound = 0, Reconsiderable = {}
  PROVE  Spec => []CandidatesCompleteAtRest
<1>1. IInv /\ JInv => CandidatesCompleteAtRest BY CompleteAtRest
<1> QED BY <1>1, SelectionInvariant, PTL

LEMMA IndexKept ==
  ASSUME IInv, JInv, UInv
  PROVE  CandidatesKept /\ LinkedIffProcessed /\ FailedHasInvalidParent
<1>1. \A b \in nChainTx : Processed(b) BY DEF IInv, TypeOK, LinkedClosed, Processed
<1>2. LinkedIffProcessed BY <1>1 DEF LinkedIffProcessed, UInv, AllLinked, IInv, TypeOK
<1>3. UnlinkedComplete
  <2> SUFFICES ASSUME NEW b \in mapBlockIndex, b \in haveData, ~Processed(b), NoInvalidParent(b)
               PROVE  b \in unlinked
    BY DEF UnlinkedComplete
  <2>1. b \in Block /\ b \in nTx \ nChainTx BY <1>1 DEF IInv, TypeOK
  <2>2. b # Genesis BY <2>1, TreeAssumption DEF Processed, IInv, TypeOK
  <2>3. Parent[b] \in Anc[b] BY <2>1, <2>2, AncOfChild, TreeAssumption
  <2> QED BY <2>1, <2>3 DEF JInv, Parked, NoInvalidParent
<1>4. ASSUME NEW b \in unlinked, Complete(b) PROVE FALSE
  <2>1. b \in Block /\ Processed(b) BY <1>4 DEF Complete, Processed, IInv, TypeOK
  <2> QED BY <2>1 DEF UInv, AllLinked, JInv, UnlinkedApart
<1>5. UnlinkedExact BY <1>3, <1>4 DEF UnlinkedExact
<1> QED BY <1>2, <1>5, CompleteAtRest DEF CandidatesKept, JInv

(***************************************************************************)
(* The assertions of the function CheckBlockIndex about candidates,        *)
(* mapBlocksUnlinked, nChainTx and the failed flags, when the operator     *)
(* invalidates only blocks whose parent is the genesis block.              *)
(***************************************************************************)
THEOREM CheckBlockIndexHolds ==
  ASSUME PruneBound = 0, Reconsiderable = {}, \A b \in Invalidatable : Parent[b] = Genesis
  PROVE  Spec => []CheckBlockIndex
<1>1. IInv /\ JInv /\ UInv => CheckBlockIndex BY IndexKept DEF CheckBlockIndex
<1> QED BY <1>1, IndexInvariant, PTL

----------------------------------------------------------------------------
(* With pruning: the fourth invariant *)

\* the blocks of x's chain that are not active are on disk
Reach(x) == Anc[x] \ Anc[tip] \subseteq haveData

\* a block that keeps its children in mapBlocksUnlinked
Blocking(p) == \/ p \in unlinked
               \/ p \notin haveData /\ p \notin Anc[tip]
               \/ p # Genesis /\ Parent[p] \in failedValid \ nTx

\* what is in mapBlocksUnlinked, and what is linked, whatever was pruned
ReceivedSound == nTx \subseteq WellFormed
ForkLinked == \A y \in nTx \ {Genesis} : Parent[y] = Genesis => y \in nChainTx
ParkedWithData == \A y \in (nTx \cap haveData) \ nChainTx :
                      y \in unlinked \/ Parent[y] \in failedValid \ nTx
DataLinked == \A y \in haveData \ {Genesis} : Parent[y] \in nChainTx => y \in nChainTx
UnlinkedBlocked == \A y \in unlinked : y # Genesis /\ Blocking(Parent[y])

\* nothing waits for the block a thread is switching to: it was on disk when it
\* was chosen, and mapBlocksUnlinked only shrinks until the switch has ended
NoneWaits == \A t \in Thread : pc[t] = "switch" => \A y \in unlinked : Parent[y] # mostWork[t]

ParkInv == /\ FailedHasInvalidParent /\ FailedChildLinked /\ FailedUnreceived
           /\ ReceivedSound /\ ForkLinked /\ ParkedWithData /\ DataLinked /\ UnlinkedBlocked
           /\ NoneWaits

\* a valid chain that has more work than every other valid one that is linked
Heaviest(x) == Proven(x) /\ \A y \in Block : y # x /\ Proven(y) => Work[y] < Work[x]

\* it is a candidate, or is remembered in mapBlocksUnlinked
NoneForgotten == \A x \in haveData \cup {tip} : Heaviest(x) => x \in candidates \cup unlinked

\* when it could be connected, a thread will look for it
ReachLooks ==
    node = "running" =>
        \A x \in Block : Heaviest(x) /\ Reach(x) /\ x # tip => \E t \in Thread : Looking(t)

\* a thread switches to nothing worse; it may have the last block in memory
ReachFor(x, m) == Anc[x] \ Anc[tip] \subseteq haveData \cup {m}

SwitchReach ==
    \A t \in Thread : pc[t] = "switch" =>
        /\ mostWork[t] \in candidates
        /\ \A x \in Block : Heaviest(x) /\ ReachFor(x, mostWork[t])
                               => ~Better(x, mostWork[t], nSequenceId)

PickInv == NoneForgotten /\ ReachLooks /\ SwitchReach

KInv == ParkInv /\ (node # "aborted" => PickInv)

----------------------------------------------------------------------------
(* The lowest block of a part of a chain *)

LEMMA LeastNat ==
  ASSUME NEW T, T \subseteq Nat, T # {}
  PROVE  \E n \in T : \A m \in T : n <= m
<1>1. PICK x \in T : \A y \in T : ~(<<y, x>> \in OpToRel(<, Nat))
  BY NatLessThanWellFounded, WFMin
<1>2. \A y \in T : y < x => <<y, x>> \in OpToRel(<, Nat) BY DEF OpToRel
<1>3. \A y \in T : ~(y < x) BY <1>1, <1>2
<1> QED BY <1>3

LEMMA ParentBelow ==
  ASSUME NEW b \in Block, NEW y \in Anc[b], y # Genesis
  PROVE  /\ y \in Block /\ Parent[y] \in Block /\ Parent[y] \in Anc[b] /\ Parent[y] # y
         /\ Parent[y] \in Anc[y] /\ Work[Parent[y]] < Work[y]
<1>1. y \in Block /\ Anc[y] \subseteq Anc[b] BY AncTransitive
<1>2. /\ Parent[y] \in Block /\ Anc[y] = Anc[Parent[y]] \cup {y} /\ y \notin Anc[Parent[y]]
  BY <1>1, AncOfChild
<1>3. Parent[y] \in Anc[Parent[y]] BY <1>2, TreeAssumption
<1>4. Work[Parent[y]] < Work[y] BY <1>1, TreeAssumption
<1> QED BY <1>1, <1>2, <1>3, <1>4

LEMMA LowestExists ==
  ASSUME NEW b \in Block, NEW S \in SUBSET Anc[b], S # {}, Genesis \notin S
  PROVE  \E y \in S : Parent[y] \notin S
<1>1. \A y \in S : y \in Block /\ Work[y] \in Nat BY AncTransitive, TreeAssumption
<1> DEFINE T == {Work[y] : y \in S}
<1>2. PICK n \in T : \A m \in T : n <= m
  <2>1. T \subseteq Nat /\ T # {} BY <1>1
  <2> QED BY <2>1, LeastNat
<1>3. PICK y \in S : n = Work[y] BY <1>2
<1>4. ASSUME Parent[y] \in S PROVE FALSE
  <2>1. Work[Parent[y]] < Work[y] BY ParentBelow
  <2>2. Work[Parent[y]] \in T BY <1>4
  <2>3. Work[y] <= Work[Parent[y]] BY <2>2, <1>2, <1>3
  <2>4. Work[y] \in Nat /\ Work[Parent[y]] \in Nat BY <1>1, <1>4
  <2> QED BY <2>1, <2>3, <2>4
<1> QED BY <1>4

\* more work decides, whatever the sequence ids are
LEMMA WorkBest ==
  ASSUME NEW x \in Block, NEW y \in Block, NEW seq \in [Block -> Nat], y # x => Work[y] < Work[x]
  PROVE  ~Better(y, x, seq) /\ (y # x => Better(x, y, seq))
<1>1. ~Better(x, x, seq) BY BetterOrder
<1>2. Work[x] \in Nat /\ Work[y] \in Nat BY TreeAssumption
<1>3. y # x => ~Better(y, x, seq) /\ Better(x, y, seq) BY <1>2 DEF Better
<1> QED BY <1>1, <1>3

\* the work of the blocks of a chain
LEMMA AncWork ==
  ASSUME NEW b \in Block, NEW a \in Anc[b]
  PROVE  a \in Block /\ Work[a] \in Nat /\ Work[b] \in Nat /\ Work[a] <= Work[b] /\ (a # b => Work[a] < Work[b])
<1>1. a \in Block BY AncTransitive
<1>2. Work[a] \in Nat /\ Work[b] \in Nat /\ (a # b => Work[a] < Work[b]) BY <1>1, TreeAssumption
<1> QED BY <1>1, <1>2

----------------------------------------------------------------------------
(* What follows from ParkInv *)

\* a block waits in mapBlocksUnlinked for a block below it, off the active
\* chain, that is missing or was rejected
LEMMA UnlinkedWaits ==
  ASSUME IInv, ParkInv, NEW y \in unlinked
  PROVE  /\ y \in Block /\ y \notin Anc[tip] /\ ~Complete(y)
         /\ ~(NoInvalidParent(y) /\ Reach(y))
<1>1. y \in Block /\ tip \in Block /\ Anc[tip] \subseteq nTx /\ haveData \subseteq nTx
  BY DEF IInv, TypeOK, TipLinked
<1> DEFINE S == Anc[y] \cap unlinked
<1>2. S \in SUBSET Anc[y] /\ S # {} /\ Genesis \notin S
  BY <1>1, TreeAssumption DEF ParkInv, UnlinkedBlocked
<1>3. PICK w \in S : Parent[w] \notin S BY <1>1, <1>2, LowestExists
<1>4. w # Genesis /\ Parent[w] \in Anc[y] /\ Parent[w] \in Block
  BY <1>1, <1>2, <1>3, ParentBelow
<1> DEFINE p == Parent[w]
<1>5. \/ p \notin haveData /\ p \notin Anc[tip]
      \/ p # Genesis /\ Parent[p] \in failedValid \ nTx
  BY <1>3, <1>4 DEF ParkInv, UnlinkedBlocked, Blocking
<1>6. p # Genesis => Parent[p] \in Anc[y] BY <1>1, <1>4, ParentBelow
<1>7. ~Complete(y) BY <1>1, <1>4, <1>5, <1>6 DEF Complete
<1>8. ~(NoInvalidParent(y) /\ Reach(y)) BY <1>4, <1>5, <1>6 DEF NoInvalidParent, Reach
<1>9. ASSUME y \in Anc[tip] PROVE FALSE
  <2>1. Anc[y] \subseteq Anc[tip] BY <1>1, <1>9, AncTransitive
  <2> QED BY <1>1, <1>4, <1>5, <1>6, <2>1
<1> QED BY <1>1, <1>7, <1>8, <1>9

\* a chain that is on disk is linked
LEMMA CompleteLinked ==
  ASSUME IInv, ParkInv, NEW b \in Block, Complete(b)
  PROVE  b \in nChainTx
<1> SUFFICES ASSUME b \notin nChainTx PROVE FALSE OBVIOUS
<1> DEFINE S == Anc[b] \ nChainTx
<1>1. S \in SUBSET Anc[b] /\ S # {} BY TreeAssumption
<1>2. Genesis \notin S
  <2>1. Genesis \in Anc[tip] BY TreeAssumption DEF IInv, TypeOK
  <2> QED BY <2>1 DEF IInv, TipLinked
<1>3. PICK w \in S : Parent[w] \notin S BY <1>1, <1>2, LowestExists
<1>4. w # Genesis /\ Parent[w] \in Anc[b] BY <1>2, <1>3, ParentBelow
<1>5. w \in haveData \ {Genesis} /\ Parent[w] \in nChainTx BY <1>3, <1>4 DEF Complete
<1> QED BY <1>3, <1>5 DEF ParkInv, DataLinked

----------------------------------------------------------------------------
(* Good chains, usable candidates, the heaviest chain *)

LEMMA PickFacts ==
  ASSUME IInv, ParkInv, node # "aborted"
  PROVE  /\ nSequenceId \in [Block -> Nat] /\ tip \in Block /\ nChainTx \subseteq Block
         /\ candidates \subseteq nChainTx /\ candidates \subseteq Block /\ haveData \subseteq Block
         /\ Proven(tip) /\ Good(tip) /\ Reach(tip)
         /\ \A x \in Block : Good(x) => Anc[x] \cap failed = {}
<1>1. /\ nSequenceId \in [Block -> Nat] /\ tip \in Block /\ nChainTx \subseteq Block
      /\ candidates \subseteq nChainTx /\ haveData \subseteq Block
  BY DEF IInv, TypeOK
<1>2. Proven(tip) /\ Good(tip) /\ Reach(tip)
  BY <1>1, TreeAssumption
  DEF Reach, Proven, Good, NoInvalidParent, IInv, TipLinked, TipUnfailed, failed
<1>3. ASSUME NEW x \in Block, Good(x), NEW y \in Anc[x], y \in failed PROVE FALSE
  <2>1. Anc[y] \cap failedValid # {} BY <1>3 DEF ParkInv, FailedHasInvalidParent, NoInvalidParent
  <2>2. Anc[y] \subseteq Anc[x] BY AncTransitive
  <2> QED BY <1>3, <2>1, <2>2 DEF Good, NoInvalidParent
<1> QED BY <1>1, <1>2, <1>3

\* good chains that could be connected are exactly the usable candidates
LEMMA UsableIsReach ==
  ASSUME IInv, ParkInv, node # "aborted", NEW c \in candidates
  PROVE  c \in Usable <=> Good(c) /\ Reach(c)
<1>1. c \in Block /\ c \in nChainTx BY PickFacts
<1>2. Anc[tip] \cap failed = {} BY DEF IInv, TipUnfailed
<1>3. ASSUME Good(c), Reach(c) PROVE c \in Usable
  <2>1. Anc[c] \cap failed = {} BY <1>1, <1>3, PickFacts
  <2> QED BY <1>3, <2>1 DEF Usable, Obstacles, Reach
<1>4. ASSUME c \in Usable PROVE Good(c) /\ Reach(c)
  <2>1. Obstacles(c) = {} BY <1>4 DEF Usable
  <2>2. Reach(c) BY <2>1 DEF Obstacles, Reach
  <2>3. Anc[c] \cap failed = {} BY <1>2, <2>1 DEF Obstacles
  <2> QED BY <1>1, <2>2, <2>3 DEF Good, NoInvalidParent, failed
<1> QED BY <1>3, <1>4

\* the heaviest chain, when it could be connected, is the best usable candidate
LEMMA BestIsBest ==
  ASSUME IInv, ParkInv, PickInv, node # "aborted", NEW m \in Block, IsMostWork(m),
         NEW x \in Block, Heaviest(x), Reach(x)
  PROVE  x = m \/ Better(m, x, nSequenceId)
<1>1. tip \in Block /\ Proven(tip) BY PickFacts
<1>2. x \in haveData \cup {tip}
  <2>1. ASSUME x \in Anc[tip], x # tip PROVE FALSE
    <3>1. Work[x] < Work[tip] BY <1>1, <2>1, AncWork
    <3>2. Work[tip] < Work[x] BY <1>1, <2>1 DEF Heaviest
    <3>3. Work[x] \in Nat /\ Work[tip] \in Nat BY <1>1, TreeAssumption
    <3> QED BY <3>1, <3>2, <3>3
  <2> QED BY <2>1, TreeAssumption DEF Reach
<1>3. Good(x) BY DEF Heaviest, Proven
<1>4. x \notin unlinked BY <1>3, UnlinkedWaits DEF Good
<1>5. x \in candidates BY <1>2, <1>4 DEF PickInv, NoneForgotten
<1>6. x \in Usable BY <1>3, <1>5, UsableIsReach
<1> QED BY <1>6 DEF IsMostWork

----------------------------------------------------------------------------
(* Every action keeps the fourth invariant: steps that leave most alone *)

\* a step that only marks blocks, or moves the tip down or to a block no other
\* one waits for
LEMMA ParkMark ==
  ASSUME ParkInv, FailedHasInvalidParent', FailedChildLinked',
         mapBlockIndex \subseteq mapBlockIndex', NEW F \in SUBSET mapBlockIndex',
         failedValid' = failedValid \cup F, F \cap nTx \subseteq nChainTx,
         \A y \in unlinked : Parent[y] \in Anc[tip'] \ haveData => Parent[y] \in Anc[tip],
         \A u \in Thread : pc'[u] = "switch" => pc[u] = "switch" /\ mostWork'[u] = mostWork[u],
         UNCHANGED <<nTx, haveData, nChainTx, unlinked>>
  PROVE  ParkInv'
<1>1. FailedUnreceived' BY DEF ParkInv, FailedUnreceived
<1>2. ReceivedSound' /\ ForkLinked' /\ DataLinked' BY DEF ParkInv, ReceivedSound, ForkLinked, DataLinked
<1>3. ParkedWithData' BY DEF ParkInv, ParkedWithData
<1>4. \A y \in unlinked : Blocking(Parent[y]) => Blocking(Parent[y])' BY DEF Blocking
<1>5. UnlinkedBlocked' BY <1>4 DEF ParkInv, UnlinkedBlocked
<1>6. NoneWaits' BY DEF ParkInv, NoneWaits
<1> QED BY <1>1, <1>2, <1>3, <1>5, <1>6 DEF ParkInv

LEMMA ParkSame ==
  ASSUME ParkInv, mapBlockIndex \subseteq mapBlockIndex',
         \A y \in unlinked : Parent[y] \in Anc[tip'] \ haveData => Parent[y] \in Anc[tip],
         \A u \in Thread : pc'[u] = "switch" => pc[u] = "switch" /\ mostWork'[u] = mostWork[u],
         UNCHANGED <<nTx, haveData, nChainTx, failedValid, failedChild, unlinked>>
  PROVE  ParkInv'
<1>1. FailedHasInvalidParent' BY DEF ParkInv, FailedHasInvalidParent, NoInvalidParent, failed
<1>2. FailedChildLinked' BY DEF ParkInv, FailedChildLinked
<1>3. {} \in SUBSET mapBlockIndex' /\ {} \cap nTx \subseteq nChainTx /\ failedValid' = failedValid \cup {}
  OBVIOUS
<1> QED BY <1>1, <1>2, <1>3, ParkMark

\* a step that leaves the index, the tip and the choices of the threads alone
LEMMA PickSame ==
  ASSUME PickInv, ReachLooks',
         \A t \in Thread : pc'[t] = "switch" => pc[t] = "switch",
         UNCHANGED <<haveData, nChainTx, failedValid, nSequenceId, candidates, unlinked, tip,
                     mostWork>>
  PROVE  PickInv'
<1>1. \A x : Heaviest(x)' <=> Heaviest(x) BY DEF Heaviest, Proven, Good, NoInvalidParent
<1>2. \A x, m : ReachFor(x, m)' <=> ReachFor(x, m) BY DEF ReachFor
<1>3. NoneForgotten' BY <1>1 DEF PickInv, NoneForgotten
<1>4. SwitchReach' BY <1>1, <1>2 DEF PickInv, SwitchReach
<1> QED BY <1>3, <1>4 DEF PickInv

LEMMA FindReaches ==
  ASSUME TypeOK, NEW t \in Thread, pc' = [pc EXCEPT ![t] = "find"]
  PROVE  ReachLooks' /\ \A u \in Thread : pc'[u] = "switch" => pc[u] = "switch"
<1>1. pc'[t] = "find" /\ \A u \in Thread \ {t} : pc'[u] = pc[u] BY DEF TypeOK
<1>2. Looking(t)' BY <1>1 DEF Looking
<1>3. ReachLooks' BY <1>2 DEF ReachLooks
<1> QED BY <1>1, <1>3

LEMMA InitKept == Init => KInv
<1> SUFFICES ASSUME Init PROVE KInv OBVIOUS
<1> USE TreeAssumption, ContentAssumption DEF Init
<1>1. FailedHasInvalidParent /\ FailedChildLinked /\ FailedUnreceived
  BY DEF FailedHasInvalidParent, FailedChildLinked, FailedUnreceived, failed
<1>2. ReceivedSound /\ ForkLinked /\ ParkedWithData /\ DataLinked /\ UnlinkedBlocked /\ NoneWaits
  BY DEF ReceivedSound, ForkLinked, ParkedWithData, DataLinked, UnlinkedBlocked, NoneWaits
<1>3. NoneForgotten BY DEF NoneForgotten
<1>4. ReachLooks BY DEF ReachLooks, Heaviest, Proven, Good
<1>5. SwitchReach BY DEF SwitchReach
<1> QED BY <1>1, <1>2, <1>3, <1>4, <1>5 DEF KInv, ParkInv, PickInv

LEMMA LeaveActivationKept ==
  ASSUME IInv, KInv, NEW t \in Thread, LeaveActivation(t)
  PROVE  KInv'
<1>1. /\ pc' = [pc EXCEPT ![t] = "idle"] /\ node # "running"
      /\ UNCHANGED <<mapBlockIndex, nTx, haveData, nChainTx, failedValid, failedChild, nSequenceId,
                     candidates, unlinked, tip, mostWork, node>>
  BY DEF LeaveActivation, indexVars, threadVars
<1>2. \A u \in Thread : pc'[u] = "switch" => pc[u] = "switch" BY <1>1 DEF IInv, TypeOK
<1>3. ReachLooks' BY <1>1 DEF ReachLooks
<1>4. ParkInv' BY <1>1, <1>2, ParkSame DEF KInv
<1> QED BY <1>1, <1>2, <1>3, <1>4, PickSame DEF KInv

LEMMA LoopConditionKept ==
  ASSUME IInv, KInv, NEW t \in Thread, LoopCondition(t)
  PROVE  KInv'
<1>1. /\ pc[t] = "loop" /\ pc' = [pc EXCEPT ![t] = IF Unfinished(t) THEN "find" ELSE "idle"]
      /\ UNCHANGED <<mapBlockIndex, nTx, haveData, nChainTx, failedValid, failedChild, nSequenceId,
                     candidates, unlinked, tip, mostWork, node>>
  BY DEF LoopCondition, indexVars, threadVars
<1>2. /\ pc'[t] = IF Unfinished(t) THEN "find" ELSE "idle"
      /\ \A u \in Thread \ {t} : pc'[u] = pc[u]
  BY <1>1 DEF IInv, TypeOK
<1>3. \A u \in Thread : Looking(u) => Looking(u)' BY <1>1, <1>2 DEF Looking, Unfinished
<1>4. \A u \in Thread : pc'[u] = "switch" => pc[u] = "switch" BY <1>2
<1>5. ParkInv' BY <1>1, <1>4, ParkSame DEF KInv
<1>6. ASSUME PickInv PROVE PickInv'
  <2>1. ReachLooks' BY <1>1, <1>3, <1>6 DEF PickInv, ReachLooks, Heaviest, Proven, Good, Reach, NoInvalidParent
  <2> QED BY <1>1, <1>4, <1>6, <2>1, PickSame
<1> QED BY <1>1, <1>5, <1>6 DEF KInv

LEMMA AcceptBlockHeaderKept ==
  ASSUME IInv, KInv, NEW b \in Block, AcceptBlockHeader(b)
  PROVE  KInv'
<1>1. /\ mapBlockIndex \subseteq mapBlockIndex'
      /\ UNCHANGED <<nTx, haveData, nChainTx, failedValid, failedChild, nSequenceId, candidates,
                     unlinked, tip, pc, mostWork, node>>
  BY DEF AcceptBlockHeader, threadVars
<1>2. ParkInv' BY <1>1, ParkSame DEF KInv
<1>3. ASSUME PickInv PROVE PickInv'
  <2>1. ReachLooks'
    BY <1>1, <1>3 DEF PickInv, ReachLooks, Heaviest, Proven, Good, Reach, NoInvalidParent, Looking, Unfinished
  <2> QED BY <1>1, <1>3, <2>1, PickSame
<1> QED BY <1>1, <1>2, <1>3 DEF KInv

LEMMA StartShutdownKept == ASSUME IInv, KInv, StartShutdown PROVE KInv'
<1>1. /\ node = "running" /\ node' = "stopping"
      /\ UNCHANGED <<mapBlockIndex, nTx, haveData, nChainTx, failedValid, failedChild, nSequenceId,
                     candidates, unlinked, tip, pc, mostWork>>
  BY DEF StartShutdown, indexVars, threadVars
<1>2. ReachLooks' BY <1>1 DEF ReachLooks
<1>3. ParkInv' BY <1>1, ParkSame DEF KInv
<1>4. PickInv BY <1>1 DEF KInv
<1>5. PickInv' BY <1>1, <1>2, <1>4, PickSame
<1> QED BY <1>3, <1>5 DEF KInv

(***************************************************************************)
(* PruneOneBlockFile.  What is pruned leaves mapBlocksUnlinked, and is not *)
(* on disk any more; the candidates are left alone, the tip among them.    *)
(***************************************************************************)
LEMMA PruneOneBlockFileKept ==
  ASSUME IInv, KInv, NEW b \in Block, PruneOneBlockFile(b)
  PROVE  KInv'
<1>f. /\ b \in haveData
      /\ haveData' = haveData \ {b} /\ unlinked' = unlinked \ {b}
      /\ UNCHANGED <<mapBlockIndex, nTx, nChainTx, failedValid, failedChild, nSequenceId, candidates,
                     tip, pc, mostWork, node>>
  BY DEF PruneOneBlockFile, threadVars
<1>p. ParkInv BY DEF KInv
<1>1. ParkInv'
  <2>1. FailedHasInvalidParent' /\ FailedChildLinked'
    BY <1>f, <1>p DEF ParkInv, FailedHasInvalidParent, NoInvalidParent, FailedChildLinked, failed
  <2>2. FailedUnreceived' /\ ReceivedSound' /\ ForkLinked' /\ DataLinked' /\ ParkedWithData'
    BY <1>f, <1>p
    DEF ParkInv, FailedUnreceived, ReceivedSound, ForkLinked, DataLinked, ParkedWithData
  <2>3. b \in unlinked => b \notin Anc[tip] BY <1>p, UnlinkedWaits
  <2>4. \A q : Blocking(q) => Blocking(q)' BY <1>f, <2>3 DEF Blocking
  <2>5. UnlinkedBlocked' BY <1>f, <1>p, <2>4 DEF ParkInv, UnlinkedBlocked
  <2>6. NoneWaits' BY <1>f, <1>p DEF ParkInv, NoneWaits
  <2> QED BY <2>1, <2>2, <2>5, <2>6 DEF ParkInv
<1>2. ASSUME node # "aborted", PickInv PROVE PickInv'
  <2>1. \A x : Heaviest(x)' <=> Heaviest(x) BY <1>f DEF Heaviest, Proven, Good, NoInvalidParent
  <2>2. \A x, m : /\ Reach(x)' => Reach(x)
                  /\ ReachFor(x, m)' => ReachFor(x, m)
    BY <1>f DEF Reach, ReachFor
  <2>3. tip \in Block /\ tip \notin unlinked BY <1>2, <1>p, PickFacts, UnlinkedWaits, TreeAssumption
  <2>4. NoneForgotten' BY <1>f, <1>2, <2>1, <2>3 DEF PickInv, NoneForgotten
  <2>5. ReachLooks' BY <1>f, <1>2, <2>1, <2>2 DEF PickInv, ReachLooks, Looking, Unfinished
  <2>6. SwitchReach' BY <1>f, <1>2, <2>1, <2>2 DEF PickInv, SwitchReach
  <2> QED BY <2>4, <2>5, <2>6 DEF PickInv
<1> QED BY <1>f, <1>1, <1>2 DEF KInv

----------------------------------------------------------------------------
(* The arrival of a block *)

\* what is newly linked: the block, and blocks that waited for it
LEMMA NewlyLinkedWaiting ==
  ASSUME NEW b \in Block
  PROVE  /\ b \in NewlyLinked(b) /\ NewlyLinked(b) \subseteq Block
         /\ \A x \in NewlyLinked(b) : b \in Anc[x] /\ (x # b => x \in unlinked)
         /\ \A y \in unlinked \ {Genesis} :
               y \in Block /\ Parent[y] \in NewlyLinked(b) => y \in NewlyLinked(b)
<1>1. b \in NewlyLinked(b) BY TreeAssumption DEF NewlyLinked
<1>2. ASSUME NEW x \in NewlyLinked(b), x # b PROVE x \in unlinked
  <2>1. x \in Block /\ b \in Anc[x] /\ Anc[x] \ Anc[b] \subseteq unlinked BY DEF NewlyLinked
  <2>2. x \in Anc[x] /\ x \notin Anc[b] BY <2>1, <1>2, TreeAssumption
  <2> QED BY <2>1, <2>2
<1>3. ASSUME NEW y \in unlinked \ {Genesis}, y \in Block, Parent[y] \in NewlyLinked(b)
      PROVE  y \in NewlyLinked(b)
  <2>1. Anc[y] = Anc[Parent[y]] \cup {y} BY <1>3, AncOfChild
  <2> QED BY <1>3, <2>1 DEF NewlyLinked
<1> QED BY <1>1, <1>2, <1>3 DEF NewlyLinked

LEMMA BlockLinkedParks ==
  ASSUME IInv, ParkInv, NEW b \in Block \ {Genesis}, b \in WellFormed, b \notin failedValid,
         Parent[b] \in nChainTx, ReceivedBlockTransactions(b), \A u \in Thread : pc'[u] # "switch",
         mapBlockIndex' = mapBlockIndex \cup {b}, UNCHANGED <<failedValid, failedChild, tip>>
  PROVE  ParkInv'
<1> DEFINE L == NewlyLinked(b)
<1>f. /\ nTx' = nTx \cup {b} /\ haveData' = haveData \cup {b}
      /\ nChainTx' = nChainTx \cup L
      /\ unlinked' = unlinked \ (L \ {b})
  BY DEF ReceivedBlockTransactions
<1>l. /\ b \in L /\ L \subseteq Block
      /\ \A x \in L : b \in Anc[x] /\ (x # b => x \in unlinked)
      /\ \A y \in unlinked \ {Genesis} : y \in Block /\ Parent[y] \in L => y \in L
  BY NewlyLinkedWaiting
<1> HIDE DEF L
<1>t. /\ nTx \subseteq Block /\ haveData \subseteq nTx /\ unlinked \subseteq nTx /\ nChainTx \subseteq nTx
  BY DEF IInv, TypeOK
<1>1. FailedHasInvalidParent' /\ FailedChildLinked'
  BY <1>f DEF ParkInv, FailedHasInvalidParent, NoInvalidParent, FailedChildLinked, failed
<1>2. FailedUnreceived' /\ ReceivedSound' /\ ForkLinked'
  BY <1>f, <1>l DEF ParkInv, FailedUnreceived, ReceivedSound, ForkLinked
<1>3. ParkedWithData' BY <1>f, <1>l DEF ParkInv, ParkedWithData
<1>4. DataLinked'
  <2> SUFFICES ASSUME NEW y \in haveData' \ {Genesis}, Parent[y] \in nChainTx', y \notin nChainTx'
               PROVE  FALSE
    BY DEF DataLinked
  <2>1. y # b /\ y \in haveData /\ y \notin nChainTx /\ y \notin L BY <1>f, <1>l
  <2>2. Parent[y] \in L BY <2>1, <1>f DEF ParkInv, DataLinked
  <2>3. Parent[y] = b \/ Parent[y] \in nTx BY <2>2, <1>l, <1>t
  <2>4. y \in unlinked BY <2>1, <2>3, <1>t DEF ParkInv, ParkedWithData
  <2> QED BY <2>1, <2>2, <2>4, <1>l, <1>t
<1>5. UnlinkedBlocked'
  <2> SUFFICES ASSUME NEW y \in unlinked' PROVE y # Genesis /\ Blocking(Parent[y])'
    BY DEF UnlinkedBlocked
  <2>1. y \in unlinked /\ y # Genesis /\ Blocking(Parent[y]) BY <1>f DEF ParkInv, UnlinkedBlocked
  <2>2. Parent[y] \notin L
    <3>1. CASE y \in L
      <4>1. y = b BY <3>1, <1>f
      <4>2. Parent[b] \in Anc[b] /\ Parent[b] # b BY ParentBelow, TreeAssumption
      <4>3. Parent[b] \in Block BY AncOfChild
      <4>4. b \notin Anc[Parent[b]] BY AncOfChild
      <4> QED BY <4>1, <4>4, <1>l
    <3>2. CASE y \notin L BY <3>2, <2>1, <1>l, <1>t
    <3> QED BY <3>1, <3>2
  <2>3. CASE Parent[y] \in unlinked BY <2>1, <2>2, <2>3, <1>f DEF Blocking
  <2>4. CASE Parent[y] \notin haveData /\ Parent[y] \notin Anc[tip]
    BY <2>1, <2>2, <2>4, <1>f, <1>l DEF Blocking
  <2>5. CASE Parent[y] # Genesis /\ Parent[Parent[y]] \in failedValid \ nTx
    BY <2>1, <2>5, <1>f DEF Blocking
  <2> QED BY <2>1, <2>3, <2>4, <2>5 DEF Blocking
<1>6. NoneWaits' BY DEF NoneWaits
<1> QED BY <1>1, <1>2, <1>3, <1>4, <1>5, <1>6 DEF ParkInv

LEMMA BlockParkedParks ==
  ASSUME IInv, ParkInv, NEW b \in Block \ {Genesis}, b \in WellFormed, b \notin failedValid,
         Parent[b] \notin nChainTx, ReceivedBlockTransactions(b), \A u \in Thread : pc'[u] # "switch",
         mapBlockIndex' = mapBlockIndex \cup {b}, UNCHANGED <<failedValid, failedChild, tip>>
  PROVE  ParkInv' /\ nChainTx' = nChainTx /\ unlinked \subseteq unlinked' /\ b \notin nChainTx
<1>p. /\ Parent[b] \in Block /\ Anc[b] = Anc[Parent[b]] \cup {b} /\ b \notin Anc[Parent[b]]
      /\ Parent[b] \in Anc[b] /\ Parent[b] # b
  BY AncOfChild, TreeAssumption
<1>n. b \notin nChainTx BY <1>p DEF IInv, LinkedClosed
<1>f. /\ nTx' = nTx \cup {b} /\ haveData' = haveData \cup {b} /\ nChainTx' = nChainTx
      /\ unlinked' = ParkUnlinked(b)
  BY <1>n DEF ReceivedBlockTransactions
<1>t. /\ nTx \subseteq Block /\ haveData \subseteq nTx /\ unlinked \subseteq nTx /\ nChainTx \subseteq nTx
      /\ Genesis \in nChainTx /\ Anc[tip] \subseteq nChainTx
  <2>1. Genesis \in Anc[tip] BY TreeAssumption DEF IInv, TypeOK
  <2> QED BY <2>1 DEF IInv, TypeOK, TipLinked
<1>b. b \in unlinked' \/ Parent[b] \in failedValid \ nTx
  BY <1>f DEF ParkInv, FailedChildLinked, ParkUnlinked, failed, FailedUnreceived
<1>u. unlinked \subseteq unlinked' /\ unlinked' \subseteq unlinked \cup {b} BY <1>f DEF ParkUnlinked
<1>1. FailedHasInvalidParent' /\ FailedChildLinked'
  BY <1>f DEF ParkInv, FailedHasInvalidParent, NoInvalidParent, FailedChildLinked, failed
<1>2. FailedUnreceived' /\ ReceivedSound'
  BY <1>f DEF ParkInv, FailedUnreceived, ReceivedSound
<1>3. ForkLinked' BY <1>f, <1>t DEF ParkInv, ForkLinked
<1>4. ParkedWithData' BY <1>f, <1>b, <1>u, <1>p DEF ParkInv, ParkedWithData
<1>5. DataLinked' BY <1>f DEF ParkInv, DataLinked
<1>6. UnlinkedBlocked'
  <2>1. \A q \in Block : Blocking(q) => Blocking(q)'
    <3> SUFFICES ASSUME NEW q \in Block, Blocking(q) PROVE Blocking(q)' OBVIOUS
    <3>1. CASE q = b BY <3>1, <1>b, <1>f, <1>p DEF Blocking
    <3>2. CASE q # b
      <4>1. Parent[q] # b \/ b \notin failedValid OBVIOUS
      <4> QED BY <3>2, <1>u, <1>f DEF Blocking
    <3> QED BY <3>1, <3>2
  <2>2. Blocking(Parent[b])'
    <3>1. CASE Parent[b] \notin haveData BY <3>1, <1>f, <1>p, <1>t DEF Blocking
    <3>2. CASE Parent[b] \in haveData
      <4>1. \/ Parent[b] \in unlinked \/ Parent[Parent[b]] \in failedValid \ nTx
        BY <3>2, <1>t DEF ParkInv, ParkedWithData
      <4>2. Parent[b] # Genesis BY <1>t
      <4>3. Blocking(Parent[b]) BY <4>1, <4>2 DEF Blocking
      <4> QED BY <4>3, <2>1, <1>p
    <3> QED BY <3>1, <3>2
  <2>3. \A y \in unlinked : y # Genesis /\ Parent[y] \in Block /\ Blocking(Parent[y])
    BY <1>t, AncOfChild DEF ParkInv, UnlinkedBlocked
  <2> QED BY <2>1, <2>2, <2>3, <1>u DEF UnlinkedBlocked
<1>7. NoneWaits' BY DEF NoneWaits
<1> QED BY <1>1, <1>2, <1>3, <1>4, <1>5, <1>6, <1>7, <1>f, <1>u, <1>n DEF ParkInv

(***************************************************************************)
(* A block that arrives again gets a new number, and so do the blocks that *)
(* waited for it: they sort after others of the same work, which is why    *)
(* only a chain with more work than all others is never dropped for them.  *)
(***************************************************************************)
LEMMA BlockLinkedPicks ==
  ASSUME IInv, ParkInv, PickInv, node # "aborted", NEW b \in Block \ {Genesis},
         Parent[b] \in nChainTx,
         ReceivedBlockTransactions(b), nSequenceId' \in [Block -> Nat], ReachLooks',
         UNCHANGED <<failedValid, tip>>, \A t \in Thread : pc'[t] # "switch"
  PROVE  PickInv'
<1> DEFINE L == NewlyLinked(b)
<1>f. /\ haveData' = haveData \cup {b}
      /\ nChainTx' = nChainTx \cup L
      /\ candidates' = candidates \cup {x \in L : ~Better(tip, x, nSequenceId')}
      /\ unlinked' = unlinked \ (L \ {b})
  BY DEF ReceivedBlockTransactions
<1>l. b \in L /\ L \subseteq Block BY NewlyLinkedWaiting
<1> HIDE DEF L
<1>e. tip \in Block /\ haveData \subseteq Block /\ Proven(tip) BY PickFacts
<1>g. \A x : Proven(x) => Proven(x)' BY <1>f DEF Proven, Good, NoInvalidParent
<1>1. NoneForgotten'
  <2> SUFFICES ASSUME NEW x \in haveData' \cup {tip}, Heaviest(x)'
               PROVE  x \in candidates' \cup unlinked'
    BY DEF NoneForgotten
  <2>b. x \in Block BY <1>f, <1>e
  <2>1. CASE x \in L
    <3>1. tip # x => Work[tip] < Work[x] BY <1>e, <1>g DEF Heaviest
    <3>2. ~Better(tip, x, nSequenceId') BY <3>1, <2>b, <1>e, WorkBest
    <3> QED BY <3>2, <2>1, <1>f
  <2>2. CASE x \notin L
    <3>1. x \in haveData \cup {tip} BY <2>2, <1>f, <1>l
    <3>2. Proven(x) BY <2>2, <1>f DEF Heaviest, Proven, Good, NoInvalidParent
    <3>3. Heaviest(x) BY <3>2, <1>g DEF Heaviest
    <3> QED BY <3>1, <3>3, <2>2, <1>f DEF PickInv, NoneForgotten
  <2> QED BY <2>1, <2>2
<1>2. SwitchReach' BY DEF SwitchReach
<1> QED BY <1>1, <1>2 DEF PickInv

LEMMA BlockParkedPicks ==
  ASSUME PickInv, NEW b \in Block \ {Genesis},
         Parent[b] \notin nChainTx, ReceivedBlockTransactions(b), ReachLooks',
         b \notin nChainTx, nChainTx' = nChainTx, unlinked \subseteq unlinked',
         UNCHANGED <<failedValid, tip>>, \A t \in Thread : pc'[t] # "switch"
  PROVE  PickInv'
<1>f. haveData' = haveData \cup {b} /\ candidates' = candidates BY DEF ReceivedBlockTransactions
<1>g. \A x : Heaviest(x)' <=> Heaviest(x) BY DEF Heaviest, Proven, Good, NoInvalidParent
<1>1. NoneForgotten'
  <2>1. \A x : Heaviest(x) => x # b BY DEF Heaviest, Proven, Good
  <2> QED BY <2>1, <1>f, <1>g DEF PickInv, NoneForgotten
<1>2. SwitchReach' BY DEF SwitchReach
<1> QED BY <1>1, <1>2 DEF PickInv

\* a block that ConnectBlock or AcceptBlock rejects is marked
LEMMA MarkHeaviest ==
  ASSUME NEW b \in Block \ Sound, failedValid' = failedValid \cup {b}, UNCHANGED nChainTx
  PROVE  \A x : (Proven(x)' <=> Proven(x)) /\ (Heaviest(x)' <=> Heaviest(x))
<1>1. \A x : Proven(x)' <=> Proven(x) BY DEF Proven, Good, NoInvalidParent
<1> QED BY <1>1 DEF Heaviest

LEMMA MarkPicks ==
  ASSUME IInv, PickInv, NEW b \in Block \ Sound,
         failedValid' = failedValid \cup {b}, candidates \ {b} \subseteq candidates',
         UNCHANGED <<haveData, nChainTx, unlinked, tip>>,
         \A t \in Thread : pc'[t] # "switch", ReachLooks'
  PROVE  PickInv'
<1>1. \A x \in Block : Heaviest(x) => x # b BY TreeAssumption DEF Heaviest, Proven
<1>2. haveData \cup {tip} \subseteq Block BY DEF IInv, TypeOK
<1>3. NoneForgotten' BY <1>1, <1>2, MarkHeaviest DEF PickInv, NoneForgotten
<1>4. SwitchReach' BY DEF SwitchReach
<1> QED BY <1>3, <1>4 DEF PickInv

LEMMA ProcessNewBlockKept ==
  ASSUME IInv, KInv, NEW t \in Thread, NEW b \in Block, NEW fRequested \in BOOLEAN,
         ProcessNewBlock(t, b, fRequested)
  PROVE  KInv'
<1>i. IInv' BY ProcessNewBlockOK
<1>p. ParkInv BY DEF KInv
<1>f. /\ b \in Block \ {Genesis} /\ Free /\ HeaderAccepted(b)
      /\ mapBlockIndex' = mapBlockIndex \cup {b}
      /\ UNCHANGED <<failedChild, tip, mostWork, node>>
  BY DEF ProcessNewBlock, threadVars
<1>v. b \notin failedValid BY <1>f, <1>p DEF HeaderAccepted, failed, ParkInv, FailedUnreceived
<1>1. CASE /\ pc' = [pc EXCEPT ![t] = "find"]
           /\ UNCHANGED <<nTx, haveData, nChainTx, failedValid, nSequenceId, candidates, unlinked>>
  <2>1. ReachLooks' /\ \A u \in Thread : pc'[u] = "switch" => pc[u] = "switch"
    BY <1>1, FindReaches DEF IInv
  <2>2. ParkInv' BY <2>1, <1>1, <1>f, <1>p, ParkSame
  <2> QED BY <1>1, <1>f, <2>1, <2>2, PickSame DEF KInv
<1>2. CASE /\ ~NotProcessed(b, fRequested) /\ b \notin WellFormed /\ failedValid' = failedValid \cup {b}
           /\ UNCHANGED <<nTx, haveData, nChainTx, nSequenceId, candidates, unlinked, pc>>
  <2>1. b \in Block \ Sound BY <1>2, ContentAssumption
  <2>2. \A u \in Thread : pc'[u] # "switch" BY <1>2, <1>f DEF Free
  <2>3. ParkInv'
    <3>1. {b} \in SUBSET mapBlockIndex' /\ {b} \cap nTx \subseteq nChainTx
      BY <1>2, <1>f, <1>p DEF ParkInv, ReceivedSound
    <3>2. FailedHasInvalidParent'
      BY <1>2, <1>f, <1>p, TreeAssumption DEF ParkInv, FailedHasInvalidParent, NoInvalidParent, failed
    <3>3. FailedChildLinked' BY <1>2, <1>f, <1>p DEF ParkInv, FailedChildLinked
    <3> QED BY <3>1, <3>2, <3>3, <2>2, <1>2, <1>f, <1>p, ParkMark
  <2>4. ASSUME PickInv, node # "aborted" PROVE PickInv'
    <3>1. ReachLooks'
      <4>1. \A x : Heaviest(x)' <=> Heaviest(x) BY <2>1, <1>2, MarkHeaviest
      <4>2. \A u \in Thread : Looking(u)' <=> Looking(u) BY <1>2, <1>f DEF Looking, Unfinished
      <4>3. \A x : Reach(x)' <=> Reach(x) BY <1>2, <1>f DEF Reach
      <4> QED BY <1>2, <1>f, <2>4, <4>1, <4>2, <4>3 DEF PickInv, ReachLooks
    <3> QED BY <3>1, <2>1, <2>2, <2>4, <1>2, <1>f, MarkPicks
  <2> QED BY <2>3, <2>4, <1>f DEF KInv
<1>3. CASE /\ ~NotProcessed(b, fRequested) /\ b \in WellFormed /\ ReceivedBlockTransactions(b)
           /\ pc' = [pc EXCEPT ![t] = "find"] /\ failedValid' = failedValid
  <2>1. ReachLooks' /\ \A u \in Thread : pc'[u] # "switch"
    BY <1>3, <1>f, FindReaches DEF IInv, Free
  <2>3. nSequenceId' \in [Block -> Nat] BY <1>i DEF IInv, TypeOK
  <2>4. CASE Parent[b] \in nChainTx
    <3>1. ParkInv' BY <2>1, <2>4, <1>3, <1>f, <1>p, <1>v, BlockLinkedParks
    <3>2. PickInv /\ node # "aborted" => PickInv'
      BY <2>1, <2>3, <2>4, <1>3, <1>f, <1>p, BlockLinkedPicks
    <3> QED BY <3>1, <3>2, <1>f DEF KInv
  <2>5. CASE Parent[b] \notin nChainTx
    <3>1. ParkInv' /\ nChainTx' = nChainTx /\ unlinked \subseteq unlinked' /\ b \notin nChainTx
      BY <2>1, <2>5, <1>3, <1>f, <1>p, <1>v, BlockParkedParks
    <3>2. PickInv /\ node # "aborted" => PickInv'
      BY <3>1, <2>1, <2>5, <1>3, <1>f, BlockParkedPicks
    <3> QED BY <3>1, <3>2, <1>f DEF KInv
  <2> QED BY <2>4, <2>5
<1> QED BY <1>1, <1>2, <1>3 DEF ProcessNewBlock

(***************************************************************************)
(* FindMostWorkChain.  What it drops for an invalid block has one below    *)
(* it; what it drops for a missing block is kept in mapBlocksUnlinked,     *)
(* except the missing block itself.  What is usable stays.                 *)
(***************************************************************************)
LEMMA FindMostWorkChainKept ==
  ASSUME IInv, ParkInv, node # "aborted", FindMostWorkChain, UNCHANGED <<haveData, tip, failedValid, nTx>>
  PROVE  /\ candidates' \subseteq candidates /\ unlinked \subseteq unlinked'
         /\ \A c \in candidates : Good(c) /\ (Reach(c) \/ c \in haveData)
                                     => c \in candidates' \cup unlinked'
         /\ \A c \in candidates : Good(c) /\ Reach(c) => c \in candidates' /\ c \notin unlinked'
         /\ failedChild' \subseteq nChainTx
         /\ \A y \in failedChild' : Anc[y] \cap failedValid # {}
         /\ UnlinkedBlocked'
<1> DEFINE stops == {FirstObstacle(c) : c \in Dropped}
<1>f. /\ candidates' = candidates \ (stops \cup UNION {DroppedFor(x) : x \in stops})
      /\ failedChild' = failedChild \cup UNION {DroppedFor(x) : x \in stops \cap failed}
      /\ unlinked' = unlinked \cup UNION {DroppedFor(x) : x \in stops \ failed}
  BY DEF FindMostWorkChain
<1>s. \A x \in stops : x \in Block /\ x \notin Anc[tip] /\ (x \in failed \/ x \notin haveData)
  <2>1. ASSUME NEW c \in Dropped
        PROVE  /\ FirstObstacle(c) \in Block /\ FirstObstacle(c) \notin Anc[tip]
               /\ FirstObstacle(c) \in failed \/ FirstObstacle(c) \notin haveData
    <3>1. c \in candidates /\ Obstacles(c) # {} BY DEF Dropped
    <3>2. c \in Block BY <3>1 DEF IInv, TypeOK
    <3>3. Obstacles(c) \in SUBSET Anc[c] BY DEF Obstacles
    <3>4. FirstObstacle(c) \in Obstacles(c) BY <3>1, <3>2, <3>3, HighestExists DEF FirstObstacle
    <3> QED BY <3>2, <3>4, AncTransitive DEF Obstacles
  <2> QED BY <2>1
<1> HIDE DEF stops
<1>d. ASSUME NEW x \in Block, NEW y \in DroppedFor(x)
      PROVE  /\ y \in nChainTx /\ y \in Block /\ x \in Anc[y] /\ y # x /\ Anc[x] \subseteq Anc[y]
             /\ y # Genesis /\ (Parent[y] = x \/ Parent[y] \in DroppedFor(x))
  <2>1. PICK d \in Dropped : FirstObstacle(d) = x /\ y \in Above(d, x) BY DEF DroppedFor
  <2>2. d \in nChainTx /\ d \in Block /\ y \in Anc[d] /\ x \in Anc[y] /\ y # x
    BY <2>1 DEF Dropped, Above, IInv, TypeOK
  <2>3. y \in nChainTx /\ y \in Block BY <2>2 DEF IInv, LinkedClosed, TypeOK
  <2>4. Anc[x] \subseteq Anc[y] BY <2>2, <2>3, AncTransitive
  <2>5. y # Genesis BY <2>2, TreeAssumption
  <2>6. x \in Anc[Parent[y]] BY <2>2, <2>3, <2>5, AncOfChild
  <2>7. Parent[y] \in Anc[d] BY <2>2, <2>5, ParentBelow
  <2>8. Parent[y] = x \/ Parent[y] \in Above(d, x) BY <2>6, <2>7 DEF Above
  <2> QED BY <2>1, <2>2, <2>3, <2>4, <2>5, <2>8 DEF DroppedFor
<1>g. \A x \in Block : x \in failed => Anc[x] \cap failedValid # {}
  BY DEF ParkInv, FailedHasInvalidParent, NoInvalidParent
<1>1. candidates' \subseteq candidates /\ unlinked \subseteq unlinked' BY <1>f
<1>2. ASSUME NEW c \in candidates, Good(c), c \in haveData PROVE c \in candidates' \cup unlinked'
  <2>1. c \in Block /\ Anc[c] \cap failed = {} /\ c \in Anc[c] BY <1>2, PickFacts, TreeAssumption
  <2>2. c \notin stops BY <2>1, <1>2, <1>s
  <2>3. ASSUME NEW x \in stops, c \in DroppedFor(x) PROVE c \in unlinked'
    <3>1. x \in Anc[c] BY <2>3, <1>s, <1>d
    <3> QED BY <3>1, <2>1, <2>3, <1>f
  <2> QED BY <2>2, <2>3, <1>f, <1>2
<1>3. ASSUME NEW c \in candidates, Good(c), Reach(c) PROVE c \in candidates' /\ c \notin unlinked'
  <2>1. c \in Block /\ Anc[c] \cap failed = {} /\ c \in Anc[c] BY <1>3, PickFacts, TreeAssumption
  <2>2. c \notin stops BY <2>1, <1>3, <1>s DEF Reach
  <2>3. ASSUME NEW x \in stops, c \in DroppedFor(x) PROVE FALSE
    <3>1. x \in Anc[c] BY <2>3, <1>s, <1>d
    <3> QED BY <3>1, <2>1, <1>3, <1>s DEF Reach
  <2>4. c \notin unlinked BY <1>3, UnlinkedWaits DEF Good
  <2> QED BY <2>2, <2>3, <2>4, <1>f, <1>3
<1>5. failedChild' \subseteq nChainTx BY <1>f, <1>d, <1>s DEF ParkInv, FailedChildLinked
<1>6. ASSUME NEW y \in failedChild' PROVE Anc[y] \cap failedValid # {}
  <2>1. CASE y \in failedChild
    BY <2>1 DEF ParkInv, FailedHasInvalidParent, NoInvalidParent, failed
  <2>2. CASE y \notin failedChild
    <3>1. PICK x \in stops \cap failed : y \in DroppedFor(x) BY <2>2, <1>f
    <3>2. Anc[x] \subseteq Anc[y] /\ x \in Block BY <3>1, <1>s, <1>d
    <3> QED BY <3>1, <3>2, <1>g
  <2> QED BY <2>1, <2>2
<1>7. UnlinkedBlocked'
  <2> SUFFICES ASSUME NEW y \in unlinked' PROVE y # Genesis /\ Blocking(Parent[y])'
    BY DEF UnlinkedBlocked
  <2>1. CASE y \in unlinked
    BY <2>1, <1>1 DEF ParkInv, UnlinkedBlocked, Blocking
  <2>2. CASE y \notin unlinked
    <3>1. PICK x \in stops \ failed : y \in DroppedFor(x) BY <2>2, <1>f
    <3>2. x \in Block /\ x \notin Anc[tip] /\ x \notin haveData BY <3>1, <1>s
    <3>3. y # Genesis /\ (Parent[y] = x \/ Parent[y] \in DroppedFor(x)) BY <3>1, <3>2, <1>d
    <3>4. Parent[y] \in DroppedFor(x) => Parent[y] \in unlinked' BY <3>1, <1>f
    <3> QED BY <3>2, <3>3, <3>4 DEF Blocking
  <2> QED BY <2>1, <2>2
<1> QED BY <1>1, <1>2, <1>3, <1>5, <1>6, <1>7

LEMMA ActivateBestChainKept ==
  ASSUME IInv, KInv, NEW t \in Thread, ActivateBestChain(t)
  PROVE  KInv'
<1>f. /\ node = "running" /\ Free /\ FindMostWorkChain
      /\ UNCHANGED <<mapBlockIndex, nTx, haveData, nChainTx, failedValid, nSequenceId, tip, node>>
  BY DEF ActivateBestChain
<1>p. ParkInv /\ PickInv /\ node # "aborted" BY <1>f DEF KInv
<1>m. /\ candidates' \subseteq candidates /\ unlinked \subseteq unlinked'
      /\ \A c \in candidates : Good(c) /\ (Reach(c) \/ c \in haveData)
                                  => c \in candidates' \cup unlinked'
      /\ \A c \in candidates : Good(c) /\ Reach(c) => c \in candidates' /\ c \notin unlinked'
      /\ failedChild' \subseteq nChainTx
      /\ \A y \in failedChild' : Anc[y] \cap failedValid # {}
      /\ UnlinkedBlocked'
  BY <1>f, <1>p, FindMostWorkChainKept
<1>g. \A x, m : /\ Heaviest(x)' <=> Heaviest(x)
                /\ Reach(x)' <=> Reach(x)
                /\ ReachFor(x, m)' <=> ReachFor(x, m)
  BY <1>f DEF Heaviest, Proven, Good, NoInvalidParent, Reach, ReachFor
<1>e. /\ nSequenceId \in [Block -> Nat] /\ tip \in Block /\ candidates \subseteq Block
      /\ Proven(tip) /\ Reach(tip)
  BY <1>p, PickFacts
<1>1. /\ FailedHasInvalidParent' /\ FailedChildLinked' /\ FailedUnreceived' /\ ReceivedSound'
      /\ ForkLinked' /\ DataLinked' /\ ParkedWithData' /\ UnlinkedBlocked'
  <2>1. FailedHasInvalidParent'
    BY <1>f, <1>m, <1>p DEF ParkInv, FailedHasInvalidParent, NoInvalidParent, failed
  <2>2. FailedChildLinked' BY <1>f, <1>m DEF FailedChildLinked
  <2>3. FailedUnreceived' /\ ReceivedSound' /\ ForkLinked' /\ DataLinked'
    BY <1>f, <1>p DEF ParkInv, FailedUnreceived, ReceivedSound, ForkLinked, DataLinked
  <2>4. ParkedWithData' BY <1>f, <1>m, <1>p DEF ParkInv, ParkedWithData
  <2> QED BY <2>1, <2>2, <2>3, <2>4, <1>m
<1>2. NoneForgotten'
  <2>1. \A x : Heaviest(x) => Good(x) BY DEF Heaviest, Proven
  <2> QED BY <2>1, <1>f, <1>g, <1>m, <1>e, <1>p DEF PickInv, NoneForgotten
<1>3. NoneWaits' /\ ReachLooks' /\ SwitchReach'
  <2>1. CASE /\ Usable = {} \/ (tip \in Usable /\ IsMostWork(tip))
             /\ pc' = [pc EXCEPT ![t] = "idle"]
    <3>1. IsMostWork(tip) BY <2>1 DEF IsMostWork
    <3>2. ASSUME NEW x \in Block, Heaviest(x), Reach(x) PROVE x = tip
      <4>1. x = tip \/ Better(tip, x, nSequenceId) BY <3>1, <3>2, <1>e, <1>p, BestIsBest
      <4>2. tip # x => Work[tip] < Work[x] BY <3>2, <1>e DEF Heaviest
      <4> QED BY <4>1, <4>2, <1>e, WorkBest
    <3>3. ReachLooks' BY <3>2, <1>f, <1>g DEF ReachLooks
    <3>4. \A u \in Thread : pc'[u] # "switch" BY <2>1, <1>f DEF IInv, TypeOK, Free
    <3> QED BY <3>3, <3>4 DEF SwitchReach, NoneWaits
  <2>2. ASSUME NEW c \in Usable \ {tip}, IsMostWork(c), pc' = [pc EXCEPT ![t] = "switch"],
               mostWork' = [mostWork EXCEPT ![t] = c]
        PROVE  NoneWaits' /\ ReachLooks' /\ SwitchReach'
    <3>1. c \in candidates /\ c \in Block BY <1>e DEF Usable
    <3>2. Good(c) /\ Reach(c) BY <3>1, <2>2, <1>p, UsableIsReach
    <3>3. ASSUME NEW x \in Block, Heaviest(x), ReachFor(x, c) PROVE ~Better(x, c, nSequenceId)
      <4>1. Reach(x) BY <3>2, <3>3, <3>1, TreeAssumption DEF Reach, ReachFor
      <4>2. x = c \/ Better(c, x, nSequenceId) BY <4>1, <3>3, <2>2, <3>1, <1>p, BestIsBest
      <4>3. /\ \A a \in Block : ~Better(a, a, nSequenceId)
            /\ \A a, b, d \in Block : Better(a, b, nSequenceId) /\ Better(b, d, nSequenceId)
                                         => Better(a, d, nSequenceId)
        BY <1>e, BetterOrder
      <4> QED BY <4>2, <4>3, <3>1
    <3>4. c \in candidates' /\ c \notin unlinked' BY <3>1, <3>2, <1>m
    <3>5. /\ pc'[t] = "switch" /\ mostWork'[t] = c
          /\ \A u \in Thread \ {t} : pc'[u] # "switch"
      BY <2>2, <1>f DEF IInv, TypeOK, Free
    <3>6. SwitchReach' BY <3>3, <3>4, <3>5, <1>f, <1>g DEF SwitchReach
    <3>7. Looking(t)' BY <3>5 DEF Looking
    <3>8. ASSUME NEW y \in unlinked', Parent[y] = c PROVE FALSE
      <4>1. Blocking(c)' BY <3>8, <1>m DEF UnlinkedBlocked
      <4>2. c \in haveData \cup Anc[tip] BY <3>1, <3>2, TreeAssumption DEF Reach
      <4>3. c # Genesis => Parent[c] \in Anc[c] BY <3>1, TreeAssumption, ParentBelow
      <4>4. c # Genesis => Parent[c] \notin failedValid BY <4>3, <3>2 DEF Good, NoInvalidParent
      <4> QED BY <4>1, <4>2, <4>4, <3>4, <1>f DEF Blocking
    <3>9. NoneWaits' BY <3>8, <3>5 DEF NoneWaits
    <3> QED BY <3>6, <3>7, <3>9 DEF ReachLooks
  <2> QED BY <2>1, <2>2 DEF ActivateBestChain
<1> QED BY <1>1, <1>2, <1>3 DEF KInv, ParkInv, PickInv

(***************************************************************************)
(* DisconnectTip.  When the tip's data is gone the node aborts; otherwise  *)
(* nothing changes but the tip, and what is below it is not the heaviest.  *)
(***************************************************************************)
LEMMA DisconnectTipKept ==
  ASSUME IInv, KInv, NEW t \in Thread, DisconnectTip(t)
  PROVE  KInv'
<1>f. /\ pc[t] = "switch" /\ tip \notin Anc[mostWork[t]]
      /\ UNCHANGED <<mapBlockIndex, nTx, haveData, nChainTx, nSequenceId, unlinked,
                     failedValid, failedChild, candidates, mostWork>>
  BY DEF DisconnectTip, indexVars, threadVars
<1>p. ParkInv BY DEF KInv
<1>n. node # "aborted" /\ PickInv BY <1>f DEF IInv, SwitchSafe, KInv
<1>1. CASE tip \notin haveData
  <2>1. node' = "aborted" /\ tip' = tip /\ pc' = [pc EXCEPT ![t] = "idle"]
    BY <1>1 DEF DisconnectTip
  <2>2. \A u \in Thread : pc'[u] = "switch" => pc[u] = "switch" BY <2>1 DEF IInv, TypeOK
  <2>3. ParkInv' BY <2>1, <2>2, <1>f, <1>p, ParkSame
  <2> QED BY <2>1, <2>3 DEF KInv
<1>2. CASE tip \in haveData
  <2>t. tip' = Parent[tip] /\ UNCHANGED <<pc, node>> BY <1>2 DEF DisconnectTip
  <2>e. tip \in Block /\ haveData \subseteq Block /\ Proven(tip) BY <1>p, <1>n, PickFacts
  <2>g. tip \in Block \ {Genesis}
    <3>1. mostWork[t] \in Block BY DEF IInv, TypeOK
    <3> QED BY <3>1, <1>f, <2>e, TreeAssumption
  <2>a. /\ Parent[tip] \in Block /\ Anc[tip] = Anc[Parent[tip]] \cup {tip}
        /\ Parent[tip] # tip /\ Work[Parent[tip]] < Work[tip]
    BY <2>g, AncOfChild, TreeAssumption
  <2>h. \A x, m : /\ Heaviest(x)' <=> Heaviest(x)
                  /\ ReachFor(x, m)' <=> ReachFor(x, m)
    <3>1. \A x : Heaviest(x)' <=> Heaviest(x) BY <1>f DEF Heaviest, Proven, Good, NoInvalidParent
    <3>2. \A x, m : ReachFor(x, m)' <=> ReachFor(x, m) BY <1>f, <1>2, <2>t, <2>a DEF ReachFor
    <3> QED BY <3>1, <3>2
  <2>1. ParkInv' BY <2>t, <2>a, <1>f, <1>p, ParkSame
  <2>2. NoneForgotten'
    <3>1. ~Heaviest(Parent[tip])
      <4>1. Work[Parent[tip]] \in Nat /\ Work[tip] \in Nat BY <2>a, <2>e, TreeAssumption
      <4> QED BY <4>1, <2>a, <2>e DEF Heaviest
    <3> QED BY <3>1, <2>t, <2>h, <1>f, <1>n DEF PickInv, NoneForgotten
  <2>3. ReachLooks' BY <1>f, <2>t DEF ReachLooks, Looking
  <2>4. SwitchReach' BY <1>f, <2>t, <2>h, <1>n DEF PickInv, SwitchReach
  <2> QED BY <2>1, <2>2, <2>3, <2>4 DEF KInv, PickInv
<1> QED BY <1>1, <1>2

(***************************************************************************)
(* ConnectTip.  The node aborts when the next block was pruned meanwhile;  *)
(* the last one may have been, if it is still in memory.  The candidates   *)
(* that sort after the new tip are dropped: none of them is the heaviest.  *)
(***************************************************************************)
LEMMA ConnectTipKept ==
  ASSUME IInv, KInv, NEW t \in Thread, ConnectTip(t)
  PROVE  KInv'
<1>f. /\ pc[t] = "switch"
      /\ UNCHANGED <<mapBlockIndex, nTx, haveData, nChainTx, nSequenceId, unlinked, mostWork>>
  BY DEF ConnectTip, indexVars, threadVars
<1>p. ParkInv BY DEF KInv
<1>n. node # "aborted" /\ PickInv BY <1>f DEF IInv, SwitchSafe, KInv
<1>e. /\ nSequenceId \in [Block -> Nat] /\ tip \in Block /\ candidates \subseteq Block
      /\ haveData \subseteq Block /\ Proven(tip) /\ pc \in [Thread -> PC]
  BY <1>p, <1>n, PickFacts DEF IInv, TypeOK
<1>s. /\ mostWork[t] \in Block /\ mostWork[t] \in nChainTx /\ Anc[mostWork[t]] \cap failed = {}
      /\ mostWork[t] \in candidates
      /\ \A x \in Block : Heaviest(x) /\ ReachFor(x, mostWork[t])
                             => ~Better(x, mostWork[t], nSequenceId)
  BY <1>f, <1>n DEF IInv, TypeOK, SwitchSafe, PickInv, SwitchReach
<1>u. \A u \in Thread \ {t} : pc[u] # "switch" BY <1>f DEF IInv, OneSwitch
<1>w. \A y \in unlinked : Parent[y] # mostWork[t] BY <1>f, <1>p DEF ParkInv, NoneWaits
<1> DEFINE next(b) == IF Released(t, b) THEN "loop" ELSE "switch"
<1>b. PICK b \in Anc[mostWork[t]] \ {Genesis} :
        /\ Parent[b] = tip
        /\ \/ /\ node' = "aborted" /\ pc' = [pc EXCEPT ![t] = "idle"]
              /\ UNCHANGED <<tip, candidates, failedValid, failedChild>>
           \/ /\ b \in haveData \/ b = mostWork[t]
              /\ b \in Sound /\ tip' = b
              /\ candidates' = PruneBlockIndexCandidates(candidates, b)
              /\ pc' = [pc EXCEPT ![t] = next(b)]
              /\ UNCHANGED <<failedValid, failedChild, node>>
           \/ /\ b \notin Sound /\ InvalidBlockFound(b)
              /\ pc' = [pc EXCEPT ![t] = "loop"]
              /\ UNCHANGED <<tip, node>>
  BY DEF ConnectTip
<1>c. /\ b \in Block \ {Genesis} /\ Anc[b] = Anc[tip] \cup {b} /\ b \notin Anc[tip]
  <2>1. b \in Block \ {Genesis} BY <1>s, AncTransitive
  <2> QED BY <2>1, <1>b, AncOfChild
<1>0. CASE /\ node' = "aborted" /\ pc' = [pc EXCEPT ![t] = "idle"]
           /\ UNCHANGED <<tip, candidates, failedValid, failedChild>>
  <2>1. \A u \in Thread : pc'[u] = "switch" => pc[u] = "switch" BY <1>0, <1>e
  <2>2. ParkInv' BY <2>1, <1>0, <1>f, <1>p, ParkSame
  <2> QED BY <2>2, <1>0 DEF KInv
<1>1. CASE /\ b \in haveData \/ b = mostWork[t]
           /\ b \in Sound /\ tip' = b
           /\ candidates' = PruneBlockIndexCandidates(candidates, b)
           /\ pc' = [pc EXCEPT ![t] = next(b)]
           /\ UNCHANGED <<failedValid, failedChild, node>>
  <2>p. /\ pc'[t] = next(b) /\ \A u \in Thread \ {t} : pc'[u] = pc[u]
    BY <1>1, <1>e
  <2>c. candidates' = {c \in candidates : ~Better(b, c, nSequenceId)}
    BY <1>1 DEF PruneBlockIndexCandidates
  <2>h. \A x : Heaviest(x)' <=> Heaviest(x)
    BY <1>f, <1>1 DEF Heaviest, Proven, Good, NoInvalidParent
  <2>s. Proven(b)
    <3>1. b \in nChainTx BY <1>s, <1>b DEF IInv, LinkedClosed
    <3>2. Anc[b] \cap failed = {} BY <1>s, <1>b, AncTransitive
    <3>3. Anc[b] \subseteq Sound BY <1>c, <1>1 DEF IInv, TipLinked
    <3> QED BY <3>1, <3>2, <3>3 DEF Proven, Good, NoInvalidParent, failed
  <2>w. \A x \in Block : Heaviest(x) => ~Better(b, x, nSequenceId) /\ (b # x => Better(x, b, nSequenceId))
    <3> TAKE x \in Block
    <3> HAVE Heaviest(x)
    <3>1. b # x => Work[b] < Work[x] BY <2>s, <1>c DEF Heaviest
    <3> QED BY <3>1, <1>c, <1>e, WorkBest
  <2>m. ~Better(b, mostWork[t], nSequenceId)
    <3>1. b = mostWork[t] \/ Better(mostWork[t], b, nSequenceId) BY <1>b, <1>s, <1>e, BetterThanAncestor
    <3>2. /\ \A a \in Block : ~Better(a, a, nSequenceId)
          /\ \A x, y, z \in Block : Better(x, y, nSequenceId) /\ Better(y, z, nSequenceId)
                                      => Better(x, z, nSequenceId)
      BY <1>e, BetterOrder
    <3> QED BY <3>1, <3>2, <1>s, <1>c
  <2>k. mostWork[t] \in candidates' BY <2>m, <2>c, <1>s
  <2>r. \A x : /\ Reach(x)' => ReachFor(x, mostWork[t])
               /\ ReachFor(x, mostWork[t])' => ReachFor(x, mostWork[t])
    BY <1>1, <1>c, <1>f DEF Reach, ReachFor
  <2>1. ParkInv'
    <3>1. \A y \in unlinked : Parent[y] \in Anc[tip'] \ haveData => Parent[y] \in Anc[tip]
      BY <1>1, <1>c, <1>w
    <3>2. \A u \in Thread : pc'[u] = "switch" => pc[u] = "switch" BY <2>p, <1>f
    <3> QED BY <3>1, <3>2, <1>1, <1>f, <1>p, ParkSame
  <2>2. NoneForgotten'
    <3> SUFFICES ASSUME NEW x \in haveData \cup {b}, Heaviest(x) PROVE x \in candidates' \cup unlinked
      BY <1>f, <1>1, <2>h DEF NoneForgotten
    <3>1. CASE x \in haveData
      <4>1. x \in candidates \cup unlinked BY <3>1, <1>n DEF PickInv, NoneForgotten
      <4> QED BY <4>1, <3>1, <2>w, <2>c, <1>e
    <3>2. CASE x \notin haveData BY <3>2, <2>k, <1>1
    <3> QED BY <3>1, <3>2
  <2>3. ReachLooks'
    <3>1. CASE b = mostWork[t] BY <3>1, <1>s, <2>h, <2>r, <2>w, <1>1, <1>c DEF ReachLooks
    <3>2. CASE b # mostWork[t]
      <4>1. Looking(t)' BY <3>2, <2>p, <1>1, <1>f DEF Looking, Unfinished
      <4> QED BY <4>1 DEF ReachLooks
    <3> QED BY <3>1, <3>2
  <2>4. SwitchReach'
    <3>1. \A u \in Thread : pc'[u] = "switch" => u = t BY <2>p, <1>u
    <3> QED BY <3>1, <2>k, <2>h, <2>r, <1>s, <1>f DEF SwitchReach
  <2> QED BY <2>1, <2>2, <2>3, <2>4 DEF KInv, PickInv
<1>2. CASE /\ b \notin Sound /\ InvalidBlockFound(b)
           /\ pc' = [pc EXCEPT ![t] = "loop"]
           /\ UNCHANGED <<tip, node>>
  <2>1. pc'[t] = "loop" /\ \A u \in Thread \ {t} : pc'[u] = pc[u] BY <1>2, <1>e
  <2>2. mostWork[t] # tip BY <1>c, <1>b, <1>s, TreeAssumption
  <2>3. Looking(t)' BY <2>1, <2>2, <1>2, <1>f DEF Looking, Unfinished
  <2>4. ReachLooks' BY <2>3 DEF ReachLooks
  <2>5. \A u \in Thread : pc'[u] # "switch" BY <2>1, <1>u
  <2>6. b \in Block \ Sound BY <1>2, <1>c
  <2>7. /\ failedValid' = failedValid \cup {b} /\ candidates' = candidates \ {b}
        /\ failedChild' = failedChild
    BY <1>2 DEF InvalidBlockFound
  <2>8. PickInv' BY <2>4, <2>5, <2>6, <2>7, <1>2, <1>f, <1>n, MarkPicks
  <2>9. b \in nChainTx /\ {b} \in SUBSET mapBlockIndex'
    BY <1>s, <1>b, <1>f DEF IInv, LinkedClosed, TypeOK
  <2>10. FailedHasInvalidParent'
    <3>1. b \in Anc[b] BY <1>c
    <3> QED BY <3>1, <2>7, <1>p DEF ParkInv, FailedHasInvalidParent, NoInvalidParent, failed
  <2>11. FailedChildLinked' BY <2>7, <1>f, <1>p DEF ParkInv, FailedChildLinked
  <2>12. ParkInv' BY <2>5, <2>7, <2>9, <2>10, <2>11, <1>2, <1>f, <1>p, ParkMark
  <2> QED BY <2>8, <2>12 DEF KInv
<1> QED BY <1>b, <1>0, <1>1, <1>2

(***************************************************************************)
(* InvalidateBlock, of a child of the genesis block.  A pruned block on    *)
(* the way down aborts the node; otherwise every linked block that is as   *)
(* good as the new tip is a candidate again, the heaviest among them.      *)
(***************************************************************************)
LEMMA InvalidateBlockKept ==
  ASSUME IInv, KInv, NEW t \in Thread, NEW b \in Invalidatable, Parent[b] = Genesis,
         InvalidateBlock(t, b)
  PROVE  KInv'
<1> DEFINE walk == Walk(b)
           gone == walk \ haveData
           stop == Highest(gone)
           newTip == IF walk = {} THEN tip ELSE Parent[b]
<1>b. b \in Block \ {Genesis} /\ b \in Anc[b] BY ContentAssumption, TreeAssumption
<1>a. Anc[b] = {Genesis, b} /\ Anc[Genesis] = {Genesis} BY <1>b, AncOfChild, TreeAssumption
<1>p. ParkInv BY DEF KInv
<1>e. /\ tip \in Block /\ Anc[tip] \subseteq nChainTx /\ nTx \subseteq mapBlockIndex
      /\ nChainTx \subseteq nTx /\ pc \in [Thread -> PC] /\ nSequenceId \in [Block -> Nat]
  BY DEF IInv, TypeOK, TipLinked
<1>w. /\ walk \subseteq Anc[tip] /\ \A y \in walk : b \in Anc[y]
      /\ walk # {} => Parent[b] \in Anc[tip]
  BY <1>b, WalkFacts
<1>v. b \in Anc[tip] => walk # {} BY <1>a, <1>b DEF Walk
<1>f. /\ Free /\ b \in mapBlockIndex /\ failedValid' = failedValid \cup {b}
      /\ UNCHANGED <<mapBlockIndex, nTx, haveData, nChainTx, nSequenceId, unlinked, mostWork>>
  BY DEF InvalidateBlock, indexVars, threadVars
<1>m. ASSUME NEW marked \in SUBSET Anc[tip], \A y \in marked : b \in Anc[y],
             failedChild' = failedChild \cup marked, tip' \in Anc[tip],
             \A u \in Thread : pc'[u] # "switch"
      PROVE  ParkInv'
  <2>1. FailedHasInvalidParent'
    BY <1>m, <1>f, <1>b, <1>p DEF ParkInv, FailedHasInvalidParent, NoInvalidParent, failed
  <2>2. FailedChildLinked' BY <1>m, <1>f, <1>p, <1>e DEF ParkInv, FailedChildLinked
  <2>3. {b} \in SUBSET mapBlockIndex' BY <1>f
  <2>4. {b} \cap nTx \subseteq nChainTx BY <1>p, <1>b DEF ParkInv, ForkLinked
  <2>5. Anc[tip'] \subseteq Anc[tip] BY <1>m, <1>e, AncTransitive
  <2> QED BY <2>1, <2>2, <2>3, <2>4, <2>5, <1>f, <1>m, <1>p, ParkMark
<1>1. CASE gone # {}
  <2>1. /\ node' = "aborted" /\ tip' = stop /\ pc' = pc
        /\ failedChild' = failedChild \cup ({stop} \cup Above(tip, stop))
    BY <1>1 DEF InvalidateBlock
  <2>2. stop \in gone BY <1>1, <1>w, <1>e, HighestExists
  <2>3. stop \in Anc[tip] /\ b \in Anc[stop] BY <2>2, <1>w
  <2>4. \A y \in {stop} \cup Above(tip, stop) : y \in Anc[tip] /\ b \in Anc[y]
    <3>1. ASSUME NEW y \in Above(tip, stop) PROVE y \in Anc[tip] /\ b \in Anc[y]
      <4>1. y \in Anc[tip] /\ stop \in Anc[y] BY DEF Above
      <4>2. y \in Block BY <4>1, <1>e, AncTransitive
      <4>3. Anc[stop] \subseteq Anc[y] BY <4>1, <4>2, AncTransitive
      <4> QED BY <4>1, <4>3, <2>3
    <3> QED BY <3>1, <2>3
  <2> HIDE DEF stop, gone
  <2>5. ParkInv' BY <2>1, <2>3, <2>4, <1>f, <1>m DEF Free
  <2> QED BY <2>1, <2>5 DEF KInv
<1>2. CASE gone = {}
  <2>f. /\ tip' = newTip /\ failedChild' = failedChild \cup walk
        /\ candidates' = (candidates \ (walk \cup {b}))
                            \cup RestoreCandidates(newTip, failed \cup walk \cup {b})
        /\ pc' = [pc EXCEPT ![t] = "find"] /\ node' = node
    BY <1>2 DEF InvalidateBlock
  <2>n. newTip \in Anc[tip] /\ newTip \in Block
    <3>1. newTip \in Anc[tip] BY <1>w, <1>e, TreeAssumption
    <3> QED BY <3>1, <1>e, AncTransitive
  <2>r. RestoreCandidates(newTip, failed \cup walk \cup {b}) =
          {x \in mapBlockIndex \ (failed \cup walk \cup {b}) :
              x \in nTx /\ x \in nChainTx /\ ~Better(newTip, x, nSequenceId)}
    BY DEF RestoreCandidates
  <2>g. walk # {} => newTip = Genesis OBVIOUS
  <2>k. walk = {} => newTip = tip OBVIOUS
  <2> HIDE DEF walk, newTip, gone
  <2>p. ReachLooks' /\ \A u \in Thread : pc'[u] # "switch"
    BY <2>f, <1>f, FindReaches DEF IInv, Free
  <2>1. ParkInv' BY <2>f, <2>n, <2>p, <1>w, <1>m
  <2>2. ASSUME node # "aborted", PickInv PROVE PickInv'
    <3>e. /\ candidates \subseteq Block /\ haveData \subseteq Block /\ nChainTx \subseteq Block
          /\ \A x \in Block : Good(x) => Anc[x] \cap failed = {}
      BY <2>2, <1>p, PickFacts
    <3>t. Proven(tip)'
      <4>1. Anc[newTip] \subseteq Anc[tip] BY <2>n, <1>e, AncTransitive
      <4>2. b \notin Anc[newTip] BY <2>g, <2>k, <1>v, <1>a, <1>b
      <4>3. Anc[tip] \cap failedValid = {} /\ Anc[tip] \subseteq Sound
        BY <2>2 DEF IInv, TipLinked, TipUnfailed, failed
      <4>4. newTip \in nChainTx BY <2>n, <1>e
      <4> QED BY <4>1, <4>2, <4>3, <4>4, <2>f, <1>f DEF Proven, Good, NoInvalidParent
    <3>1. NoneForgotten'
      <4> SUFFICES ASSUME NEW x \in Block, Heaviest(x)' PROVE x \in candidates'
        BY <2>f, <2>n, <1>f, <3>e DEF NoneForgotten
      <4>1. x \in nChainTx /\ NoInvalidParent(x) /\ b \notin Anc[x]
        BY <1>f DEF Heaviest, Proven, Good, NoInvalidParent
      <4>2. Anc[x] \cap failed = {} BY <4>1, <3>e DEF Good
      <4>3. x \in Anc[x] BY TreeAssumption
      <4>4. x \in mapBlockIndex /\ x \in nTx BY <4>1, <1>e
      <4>5. x \notin failed \cup walk \cup {b} BY <4>1, <4>2, <4>3, <1>w
      <4>6. newTip # x => Work[newTip] < Work[x] BY <3>t, <2>f, <2>n DEF Heaviest
      <4>7. ~Better(newTip, x, nSequenceId) BY <4>6, <2>n, <1>e, WorkBest
      <4>8. x \in RestoreCandidates(newTip, failed \cup walk \cup {b})
        BY <4>1, <4>4, <4>5, <4>7, <2>r
      <4> QED BY <4>8, <2>f
    <3>2. SwitchReach' BY <2>p DEF SwitchReach
    <3> QED BY <2>p, <3>1, <3>2 DEF PickInv
  <2> QED BY <2>1, <2>2, <2>f DEF KInv
<1> QED BY <1>1, <1>2

(***************************************************************************)
(* LoadBlockIndexDB.  It rebuilds mapBlocksUnlinked from nTx alone: what   *)
(* waited for a pruned block, and not for one that never came, is no       *)
(* longer there, and is a candidate again if it is as good as the tip.     *)
(***************************************************************************)
LEMMA LoadBlockIndexDBKept ==
  ASSUME IInv, KInv, NEW t \in Thread, LoadBlockIndexDB(t)
  PROVE  KInv'
<1> DEFINE seq  == [b \in Block |-> 0]
           link == {b \in Block : Anc[b] \subseteq nTx}
<1>f. /\ node = "stopping" /\ \A u \in Thread : pc[u] = "idle"
      /\ nSequenceId' = seq /\ nChainTx' = link
      /\ unlinked' = {b \in nTx \ {Genesis} : Parent[b] \notin link}
      /\ failedChild' \subseteq failedChild
      /\ candidates' = {b \in link : b \notin failedValid \cup failedChild' /\ ~Better(tip, b, seq)}
      /\ pc' = [pc EXCEPT ![t] = "find"]
      /\ UNCHANGED <<mapBlockIndex, nTx, haveData, failedValid, tip, mostWork>>
  BY DEF LoadBlockIndexDB, threadVars
<1>p. ParkInv /\ PickInv /\ node # "aborted" BY <1>f DEF KInv
<1>l. \A x \in Block : x \in link <=> Processed(x) BY DEF Processed
<1>k. nChainTx \subseteq link BY DEF IInv, TypeOK, LinkedClosed
<1>s. link \subseteq Block /\ seq \in [Block -> Nat] OBVIOUS
<1> HIDE DEF seq, link
<1>e. /\ tip \in Block /\ candidates \subseteq Block /\ haveData \subseteq Block /\ nTx \subseteq Block
      /\ haveData \subseteq nTx /\ Anc[tip] \subseteq nTx /\ Proven(tip) /\ candidates \subseteq nChainTx
      /\ \A x \in Block : Good(x) => Anc[x] \cap failed = {}
  BY <1>p, PickFacts DEF IInv, TypeOK, TipLinked
<1>g. Genesis \in link
  <2>1. Genesis \in nTx BY <1>e, TreeAssumption
  <2> QED BY <2>1, <1>l, TreeAssumption DEF Processed
<1>c. \A y \in Block \ {Genesis} : y \in link <=> Parent[y] \in link /\ y \in nTx
  <2> TAKE y \in Block \ {Genesis}
  <2>1. Parent[y] \in Block /\ Anc[y] = Anc[Parent[y]] \cup {y} BY AncOfChild
  <2> QED BY <2>1, <1>l DEF Processed
<1>q. ReachLooks' /\ \A u \in Thread : pc'[u] # "switch"
  BY <1>f, FindReaches DEF IInv
<1>u. \A y \in nTx \ link : y \in unlinked' BY <1>f, <1>c, <1>g, <1>e
<1>1. ParkInv'
  <2>1. FailedHasInvalidParent'
    BY <1>f, <1>p DEF ParkInv, FailedHasInvalidParent, NoInvalidParent, failed
  <2>2. FailedChildLinked' BY <1>f, <1>k, <1>p DEF ParkInv, FailedChildLinked
  <2>3. FailedUnreceived' BY <1>f, <1>k, <1>p DEF ParkInv, FailedUnreceived
  <2>4. ReceivedSound' BY <1>f, <1>p DEF ParkInv, ReceivedSound
  <2>5. ForkLinked' BY <1>f, <1>c, <1>g, <1>e DEF ForkLinked
  <2>6. ParkedWithData' BY <1>f, <1>u DEF ParkedWithData
  <2>7. DataLinked' BY <1>f, <1>c, <1>e DEF DataLinked
  <2>8. UnlinkedBlocked'
    <3> SUFFICES ASSUME NEW y \in unlinked' PROVE y # Genesis /\ Blocking(Parent[y])'
      BY DEF UnlinkedBlocked
    <3>1. y \in nTx \ {Genesis} /\ Parent[y] \notin link BY <1>f
    <3>2. CASE Parent[y] \in nTx BY <3>1, <3>2, <1>u DEF Blocking
    <3>3. CASE Parent[y] \notin nTx BY <3>1, <3>3, <1>e, <1>f DEF Blocking
    <3> QED BY <3>2, <3>3
  <2>9. NoneWaits' BY <1>q DEF NoneWaits
  <2> QED BY <2>1, <2>2, <2>3, <2>4, <2>5, <2>6, <2>7, <2>8, <2>9 DEF ParkInv
<1>2. NoneForgotten'
  <2> SUFFICES ASSUME NEW x \in Block, Heaviest(x)' PROVE x \in candidates'
    BY <1>f, <1>e DEF NoneForgotten
  <2>1. x \in link /\ NoInvalidParent(x) BY <1>f DEF Heaviest, Proven, Good, NoInvalidParent
  <2>2. x \notin failed BY <2>1, <1>p DEF ParkInv, FailedHasInvalidParent
  <2>3. Proven(tip)' BY <1>e, <1>f, <1>k DEF Proven, Good, NoInvalidParent
  <2>4. tip # x => Work[tip] < Work[x] BY <2>3, <1>e, <1>f DEF Heaviest
  <2>5. ~Better(tip, x, seq) BY <2>4, <1>e, <1>s, WorkBest
  <2> QED BY <2>1, <2>2, <2>5, <1>f DEF failed
<1>3. SwitchReach' BY <1>q DEF SwitchReach
<1> QED BY <1>1, <1>2, <1>3, <1>q DEF KInv, PickInv

LEMMA NextKept ==
  ASSUME Reconsiderable = {}, \A b \in Invalidatable : Parent[b] = Genesis
  PROVE  IInv /\ KInv /\ [Next]_vars => KInv'
<1> SUFFICES ASSUME IInv, KInv, [Next]_vars PROVE KInv' OBVIOUS
<1>1. CASE UNCHANGED vars
  <2>1. UNCHANGED <<mapBlockIndex, nTx, haveData, nChainTx, failedValid, failedChild, nSequenceId,
                    candidates, unlinked, tip, pc, mostWork, node>>
    BY <1>1 DEF vars
  <2>2. ParkInv' BY <2>1, ParkSame DEF KInv
  <2>3. ASSUME PickInv PROVE PickInv'
    <3>1. ReachLooks'
      BY <2>1, <2>3 DEF PickInv, ReachLooks, Heaviest, Proven, Good, Reach, NoInvalidParent, Looking, Unfinished
    <3> QED BY <2>1, <2>3, <3>1, PickSame
  <2> QED BY <2>1, <2>2, <2>3 DEF KInv
<1>2. ASSUME NEW b \in Block, AcceptBlockHeader(b) PROVE KInv' BY <1>2, AcceptBlockHeaderKept
<1>3. ASSUME NEW b \in Block, PruneOneBlockFile(b) PROVE KInv' BY <1>3, PruneOneBlockFileKept
<1>4. ASSUME NEW t \in Thread, NEW b \in Block, NEW fRequested \in BOOLEAN,
             ProcessNewBlock(t, b, fRequested)
      PROVE  KInv'
  BY <1>4, ProcessNewBlockKept
<1>5. ASSUME NEW t \in Thread, ActivateBestChain(t) PROVE KInv' BY <1>5, ActivateBestChainKept
<1>6. ASSUME NEW t \in Thread, LeaveActivation(t) PROVE KInv' BY <1>6, LeaveActivationKept
<1>7. ASSUME NEW t \in Thread, DisconnectTip(t) PROVE KInv' BY <1>7, DisconnectTipKept
<1>8. ASSUME NEW t \in Thread, ConnectTip(t) PROVE KInv' BY <1>8, ConnectTipKept
<1>9. ASSUME NEW t \in Thread, LoopCondition(t) PROVE KInv' BY <1>9, LoopConditionKept
<1>10. ASSUME NEW t \in Thread, NEW b \in Invalidatable, InvalidateBlock(t, b) PROVE KInv'
  BY <1>10, InvalidateBlockKept
<1>11. ASSUME NEW t \in Thread, LoadBlockIndexDB(t) PROVE KInv' BY <1>11, LoadBlockIndexDBKept
<1>12. CASE StartShutdown BY <1>12, StartShutdownKept
<1> QED
  BY <1>1, <1>2, <1>3, <1>4, <1>5, <1>6, <1>7, <1>8, <1>9, <1>10, <1>11, <1>12 DEF Next

(***************************************************************************)
(* What the index, the candidates and the threads satisfy on a node that   *)
(* prunes, in the middle of reorganisations and after restarts too.        *)
(***************************************************************************)
THEOREM PruningInvariant ==
  ASSUME Reconsiderable = {}, \A b \in Invalidatable : Parent[b] = Genesis
  PROVE  Spec => [](IInv /\ KInv)
<1>1. Init => IInv /\ KInv BY InitOK, InitKept
<1>2. IInv /\ KInv /\ [Next]_vars => (IInv /\ KInv)' BY NextOK, NextKept
<1> QED BY <1>1, <1>2, PTL DEF Spec

LEMMA ExactWithPruning ==
  ASSUME IInv, ParkInv
  PROVE  UnlinkedExact
<1>1. Genesis \in nChainTx BY TreeAssumption DEF IInv, TypeOK, TipLinked
<1>2. \A b \in nChainTx : Processed(b) BY DEF IInv, TypeOK, LinkedClosed, Processed
<1>3. ASSUME NEW b \in haveData, b \notin nChainTx, NoInvalidParent(b) PROVE b \in unlinked
  <2>1. b \in Block /\ b \in nTx /\ b # Genesis BY <1>1, <1>3 DEF IInv, TypeOK
  <2>2. Parent[b] \in Anc[b] BY <2>1, AncOfChild, TreeAssumption
  <2> QED BY <1>3, <2>1, <2>2 DEF ParkInv, ParkedWithData, NoInvalidParent
<1>4. UnlinkedComplete BY <1>2, <1>3 DEF UnlinkedComplete
<1> QED BY <1>4, UnlinkedWaits DEF UnlinkedExact

(***************************************************************************)
(* What CheckBlockIndex asserts of mapBlocksUnlinked holds on a node that  *)
(* prunes, wherever it is in a reorganisation and however deep that goes,  *)
(* also when one was cut short because a block it had to read was pruned:  *)
(* a block that waits for one that never came is there, and nothing is     *)
(* there whose whole chain is on disk.  For an operator who reconsiders    *)
(* nothing and invalidates only children of the genesis block.             *)
(***************************************************************************)
THEOREM UnlinkedAlwaysExact ==
  ASSUME Reconsiderable = {}, \A b \in Invalidatable : Parent[b] = Genesis
  PROVE  Spec => []UnlinkedExact
<1>1. IInv /\ KInv => UnlinkedExact BY ExactWithPruning DEF KInv
<1> QED BY <1>1, PruningInvariant, PTL

\* when every activation has ended, the chain with the most work is the active
\* one if the blocks of it that are not active are on disk
HeaviestAtRest ==
    Quiet /\ node = "running" => \A x \in Block : Heaviest(x) /\ Reach(x) => x = tip

(***************************************************************************)
(* Pruning does not make a node miss the valid chain that has more work    *)
(* than all other valid ones it knows: whatever was pruned, received       *)
(* again, found invalid on the way or left half way by another thread, at  *)
(* rest that chain is active, unless blocks of it are missing on disk.  No *)
(* assumption on the depth of forks: reorganisations may go below what was *)
(* pruned, and may stop the node there.  (Of chains that are not the       *)
(* heaviest this is not so: BestChainAtRest fails on such trees.)          *)
(***************************************************************************)
THEOREM HeaviestChainAdopted ==
  ASSUME Reconsiderable = {}, \A b \in Invalidatable : Parent[b] = Genesis
  PROVE  Spec => []HeaviestAtRest
<1>1. KInv => HeaviestAtRest
  BY DEF KInv, PickInv, ReachLooks, Looking, Quiet, HeaviestAtRest
<1> QED BY <1>1, PruningInvariant, PTL
===============================================================================
