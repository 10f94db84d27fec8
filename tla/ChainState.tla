------------------------------ MODULE ChainState ------------------------------
(***************************************************************************)
(* The block index and the choice of the active chain, main.cpp:           *)
(* mapBlockIndex with its status flags, setBlockIndexCandidates,           *)
(* mapBlocksUnlinked, chainActive, and the operations that change them:    *)
(* AcceptBlockHeader, AcceptBlock with ReceivedBlockTransactions,          *)
(* ActivateBestChain with FindMostWorkChain, DisconnectTip and ConnectTip, *)
(* InvalidateBlock, ReconsiderBlock, pruning, shutdown and                 *)
(* LoadBlockIndexDB.                                                       *)
(*                                                                         *)
(* Threads (message handler, RPC, import) call them concurrently.  cs_main *)
(* serialises them, but ActivateBestChain gives it up between iterations,  *)
(* so what an operation finds may be the middle of another thread's        *)
(* reorganisation.  A critical section is one action, except the loop of   *)
(* ActivateBestChainStep: there every DisconnectTip and ConnectTip is one  *)
(* action of the thread that holds cs_main (pc "switch"), because the loop *)
(* condition of ActivateBestChain reads the tip without the lock.          *)
(*                                                                         *)
(* The tree of headers that exist is a constant.  A block's contents are   *)
(* summarised by what the checks say of it.  Sets stand for flags; a block *)
(* with nTx > 0 is at least BLOCK_VALID_TRANSACTIONS, one that is only in  *)
(* the index is BLOCK_VALID_TREE.  The coins, the mempool, the block files *)
(* and pindexBestInvalid/pindexBestHeader are not part of this module.     *)
(***************************************************************************)
EXTENDS Integers, FiniteSets

CONSTANTS
    Block,        \* headers that pass CheckBlockHeader and ContextualCheckBlockHeader
    Genesis,
    Parent,       \* pprev
    Anc,          \* a block's ancestors, itself included
    Work,         \* nChainWork
    Height,       \* nHeight
    Addr,         \* the address of the CBlockIndex, the comparator's last resort
    WellFormed,   \* blocks that pass ContextualCheckBlock (one that fails CheckBlock
                  \* is turned away before it reaches the index, as if it never came)
    Sound,        \* blocks that ConnectBlock accepts on top of their parent
    Invalidatable,\* blocks the operator may pass to invalidateblock
    Reconsiderable,\* and to reconsiderblock
    Keep,         \* MIN_BLOCKS_TO_KEEP
    PruneBound,   \* bound: pruning happens while nBlockSequenceId is at most this
    Thread

\* that ancestors form a finite chain, stated so that no induction is needed
ASSUME TreeAssumption ==
    /\ IsFiniteSet(Block) /\ Genesis \in Block
    /\ Parent \in [Block \ {Genesis} -> Block]
    /\ Anc \in [Block -> SUBSET Block]
    /\ Anc[Genesis] = {Genesis}
    /\ \A b \in Block \ {Genesis} : Anc[b] = Anc[Parent[b]] \cup {b} /\ b \notin Anc[Parent[b]]
    /\ \A b \in Block : b \in Anc[b] /\ Genesis \in Anc[b]
    /\ \A b \in Block : \A a \in Anc[b] : Anc[a] \subseteq Anc[b] /\ (a # b => b \notin Anc[a])
    /\ \A b \in Block : \A S \in SUBSET Anc[b] : S # {} => \E top \in S : S \subseteq Anc[top]
    /\ Work \in [Block -> Nat] /\ Height \in [Block -> Nat] /\ Addr \in [Block -> Nat]
    /\ \A b \in Block \ {Genesis} : Work[Parent[b]] < Work[b]
    /\ \A b \in Block : \A a \in Anc[b] : a # b => Work[a] < Work[b]
    /\ \A x, y \in Block : Addr[x] = Addr[y] => x = y

ASSUME ContentAssumption ==
    /\ WellFormed \subseteq Block /\ Sound \subseteq WellFormed
    /\ Genesis \in Sound
    /\ Invalidatable \subseteq Block \ {Genesis} /\ Reconsiderable \subseteq Block
    /\ Keep \in Nat /\ PruneBound \in Nat

VARIABLES
    mapBlockIndex,    \* headers in the index
    nTx,              \* blocks with nTx > 0: received at some time
    haveData,         \* BLOCK_HAVE_DATA
    nChainTx,         \* blocks with nChainTx > 0: linked to genesis
    failedValid,      \* BLOCK_FAILED_VALID
    failedChild,      \* BLOCK_FAILED_CHILD
    nSequenceId,
    nBlockSequenceId,
    candidates,       \* setBlockIndexCandidates
    unlinked,         \* mapBlocksUnlinked: the second components
    tip,              \* chainActive.Tip(); the chain is Anc[tip]
    pc,               \* of each thread, see PC
    mostWork,         \* pindexMostWork of each thread's activation
    oldTip,           \* pindexOldTip
    node              \* "running", "stopping" (ShutdownRequested) or "aborted"

indexVars  == <<mapBlockIndex, nTx, haveData, nChainTx, nSequenceId, nBlockSequenceId, unlinked>>
threadVars == <<mostWork, oldTip>>
vars == <<mapBlockIndex, nTx, haveData, nChainTx, failedValid, failedChild, nSequenceId,
          nBlockSequenceId, candidates, unlinked, tip, pc, mostWork, oldTip, node>>

\* idle; find: about to lock cs_main in ActivateBestChain; switch: in
\* ActivateBestChainStep, holding cs_main; loop: at the while condition
PC == {"idle", "find", "switch", "loop"}

TypeOK ==
    /\ mapBlockIndex \subseteq Block /\ nTx \subseteq mapBlockIndex
    /\ haveData \subseteq nTx /\ nChainTx \subseteq nTx
    /\ failedValid \subseteq Block /\ failedChild \subseteq Block
    /\ nSequenceId \in [Block -> Nat] /\ nBlockSequenceId \in Nat
    /\ candidates \subseteq Block /\ unlinked \subseteq Block
    /\ tip \in Block
    /\ pc \in [Thread -> PC]
    /\ mostWork \in [Thread -> Block] /\ oldTip \in [Thread -> Block]
    /\ node \in {"running", "stopping", "aborted"}

\* after InitBlockIndex on an empty data directory
Init ==
    /\ mapBlockIndex = {Genesis} /\ nTx = {Genesis} /\ haveData = {Genesis} /\ nChainTx = {Genesis}
    /\ failedValid = {} /\ failedChild = {}
    /\ nSequenceId = [b \in Block |-> IF b = Genesis THEN 1 ELSE 0]
    /\ nBlockSequenceId = 2
    /\ candidates = {Genesis} /\ unlinked = {}
    /\ tip = Genesis
    /\ pc = [t \in Thread |-> "idle"]
    /\ mostWork = [t \in Thread |-> Genesis] /\ oldTip = [t \in Thread |-> Genesis]
    /\ node = "running"

----------------------------------------------------------------------------
(* Reading the index. *)

failed == failedValid \cup failedChild

\* cs_main is free
Free == \A t \in Thread : pc[t] # "switch"

(***************************************************************************)
(* CBlockIndexWorkComparator: a sorts after b, that is, a is preferred.    *)
(* seq gives the sequence ids.                                             *)
(***************************************************************************)
Better(a, b, seq) ==
    \/ Work[a] > Work[b]
    \/ Work[a] = Work[b] /\ seq[a] < seq[b]
    \/ Work[a] = Work[b] /\ seq[a] = seq[b] /\ Addr[a] < Addr[b]

PruneNothing(cand, b) == cand  \* mutant: worse candidates stay

\* the candidates PruneBlockIndexCandidates leaves when the tip is b
PruneBlockIndexCandidates(cand, b) == {c \in cand : ~Better(b, c, nSequenceId)}

\* blocks that keep c from being activated: those on the path from the
\* active chain to c that are failed or whose data is gone
Obstacles(c) == {x \in Anc[c] \ Anc[tip] : x \in failed \/ x \notin haveData}

\* the block of S, part of one chain, that is nearest to its tip
Highest(S) == CHOOSE x \in S : S \subseteq Anc[x]

\* where FindMostWorkChain's walk from c down to the active chain stops
FirstObstacle(c) == Highest(Obstacles(c))

\* the part of c's chain above block x
Above(c, x) == {y \in Anc[c] : x \in Anc[y] /\ y # x}

----------------------------------------------------------------------------
(* Headers and blocks arrive. *)

\* AcceptBlockHeader returns true
HeaderAccepted(b) ==
    IF b \in mapBlockIndex THEN b \notin failed
    ELSE Parent[b] \in mapBlockIndex /\ Parent[b] \notin failed

\* a header of a `headers' message: AcceptBlockHeader, AddToBlockIndex
AcceptBlockHeader(b) ==
    /\ Free /\ b \notin mapBlockIndex
    /\ HeaderAccepted(b)
    /\ mapBlockIndex' = mapBlockIndex \cup {b}
    /\ UNCHANGED <<nTx, haveData, nChainTx, failedValid, failedChild, nSequenceId,
                   nBlockSequenceId, candidates, unlinked, tip, pc, threadVars, node>>

\* the blocks that become linked when b does: through mapBlocksUnlinked
NewlyLinked(b) == {x \in Block : b \in Anc[x] /\ Anc[x] \ Anc[b] \subseteq unlinked}

(***************************************************************************)
(* The sequence ids the breadth-first walk may give out: a parent before   *)
(* its child, siblings in either order.                                    *)
(***************************************************************************)
Numberings(L) ==
    {f \in [L -> nBlockSequenceId .. nBlockSequenceId + Cardinality(L) - 1] :
        \A x, y \in L : x # y => f[x] # f[y] /\ (x \in Anc[y] => f[x] < f[y])}

\* mapBlocksUnlinked after the arrival of a block that cannot be linked
ParkUnlinked(b) == IF Parent[b] \notin failed THEN unlinked \cup {b} ELSE unlinked

(***************************************************************************)
(* ReceivedBlockTransactions.                                              *)
(***************************************************************************)
ReceivedBlockTransactions(b) ==
    /\ nTx' = nTx \cup {b}
    /\ haveData' = haveData \cup {b}
    /\ IF Parent[b] \in nChainTx
       THEN LET L == NewlyLinked(b)
            IN  /\ nChainTx' = nChainTx \cup L
                /\ \E f \in Numberings(L) :
                      nSequenceId' = [x \in Block |-> IF x \in L THEN f[x] ELSE nSequenceId[x]]
                /\ nBlockSequenceId' = nBlockSequenceId + Cardinality(L)
                /\ candidates' = candidates \cup {x \in L : ~Better(tip, x, nSequenceId')}
                /\ unlinked' = unlinked \ (L \ {b})
       ELSE /\ nChainTx' = nChainTx \ {b}
            /\ unlinked' = ParkUnlinked(b)
            /\ UNCHANGED <<nSequenceId, nBlockSequenceId, candidates>>

\* AcceptBlock's early `return true'
NotProcessed(b, fRequested) ==
    \/ b \in haveData
    \/ ~fRequested /\ (b \in nTx \/ Work[b] <= Work[tip])

(***************************************************************************)
(* ProcessNewBlock up to the release of cs_main, for a block that passes   *)
(* CheckBlock: AcceptBlock.  When it returns true the thread goes on to    *)
(* ActivateBestChain, also if it stored nothing.                           *)
(***************************************************************************)
ProcessNewBlock(t, b, fRequested) ==
    /\ Free /\ pc[t] = "idle"
    /\ b # Genesis /\ HeaderAccepted(b)
    /\ mapBlockIndex' = mapBlockIndex \cup {b}
    /\ \/ /\ NotProcessed(b, fRequested)
          /\ pc' = [pc EXCEPT ![t] = "find"]
          /\ UNCHANGED <<nTx, haveData, nChainTx, failedValid, nSequenceId, nBlockSequenceId,
                         candidates, unlinked>>
       \/ /\ ~NotProcessed(b, fRequested) /\ b \notin WellFormed
          /\ failedValid' = failedValid \cup {b}
          /\ UNCHANGED <<nTx, haveData, nChainTx, nSequenceId, nBlockSequenceId, candidates,
                         unlinked, pc>>
       \/ /\ ~NotProcessed(b, fRequested) /\ b \in WellFormed
          /\ ReceivedBlockTransactions(b)
          /\ pc' = [pc EXCEPT ![t] = "find"]
          /\ UNCHANGED failedValid
    /\ UNCHANGED <<failedChild, tip, threadVars, node>>

----------------------------------------------------------------------------
(* ActivateBestChain. *)

(***************************************************************************)
(* FindMostWorkChain.  It returns the best candidate without an obstacle;  *)
(* better ones are dropped on the way, each with its chain down to the     *)
(* obstacle.  What is dropped because of a failed block is marked          *)
(* FAILED_CHILD, what is dropped for missing data goes to                  *)
(* mapBlocksUnlinked.  (The obstacle itself is dropped and not marked.)    *)
(***************************************************************************)
Usable == {c \in candidates : Obstacles(c) = {}}

Dropped == {c \in candidates : /\ Obstacles(c) # {}
                               /\ \A u \in Usable : Better(c, u, nSequenceId)}

DroppedFor(x) == UNION {Above(c, x) : c \in {d \in Dropped : FirstObstacle(d) = x}}

ForgetDropped ==  \* mutant: blocks dropped for missing data are not remembered
    LET stops == {FirstObstacle(c) : c \in Dropped}
    IN  /\ candidates' = candidates \ (stops \cup UNION {DroppedFor(x) : x \in stops})
        /\ failedChild' = failedChild \cup UNION {DroppedFor(x) : x \in stops \cap failed}
        /\ UNCHANGED unlinked

FindMostWorkChain ==
    LET stops == {FirstObstacle(c) : c \in Dropped}
    IN  /\ candidates' = candidates \ (stops \cup UNION {DroppedFor(x) : x \in stops})
        /\ failedChild' = failedChild \cup UNION {DroppedFor(x) : x \in stops \cap failed}
        /\ unlinked' = unlinked \cup UNION {DroppedFor(x) : x \in stops \ failed}

IsWorst(c) == \A u \in Usable : u = c \/ Better(u, c, nSequenceId)  \* mutant: begin() for rbegin()

IsMostWork(c) == \A u \in Usable : u = c \/ Better(c, u, nSequenceId)

\* the first part of an iteration, up to the choice of pindexMostWork
ActivateBestChain(t) ==
    /\ pc[t] = "find" /\ node = "running" /\ Free
    /\ FindMostWorkChain
    /\ \/ /\ Usable = {} \/ (tip \in Usable /\ IsMostWork(tip))
          /\ pc' = [pc EXCEPT ![t] = "idle"]
          /\ UNCHANGED threadVars
       \/ \E c \in Usable \ {tip} :
             /\ IsMostWork(c)
             /\ pc' = [pc EXCEPT ![t] = "switch"]
             /\ mostWork' = [mostWork EXCEPT ![t] = c]
             /\ oldTip' = [oldTip EXCEPT ![t] = tip]
    /\ UNCHANGED <<mapBlockIndex, nTx, haveData, nChainTx, failedValid, nSequenceId,
                   nBlockSequenceId, tip, node>>

\* ShutdownRequested(), or an interruption: the loop is left
LeaveActivation(t) ==
    /\ pc[t] = "find" /\ node # "running"
    /\ pc' = [pc EXCEPT ![t] = "idle"]
    /\ UNCHANGED <<indexVars, failedValid, failedChild, candidates, tip, threadVars, node>>

(***************************************************************************)
(* ActivateBestChainStep: one DisconnectTip.  The block is read from disk; *)
(* when it was pruned the node aborts and the call returns.                *)
(***************************************************************************)
DisconnectTip(t) ==
    /\ pc[t] = "switch" /\ tip \notin Anc[mostWork[t]]
    /\ IF tip \in haveData
       THEN tip' = Parent[tip] /\ UNCHANGED <<pc, node>>
       ELSE /\ node' = "aborted"
            /\ pc' = [pc EXCEPT ![t] = "idle"]
            /\ UNCHANGED tip
    /\ UNCHANGED <<indexVars, failedValid, failedChild, candidates, threadVars>>

InvalidBlockFound(b) ==
    /\ failedValid' = failedValid \cup {b}
    /\ candidates' = candidates \ {b}
    /\ UNCHANGED failedChild

ReleaseAlways(t, b) == TRUE  \* mutant: a pause after every block

\* ActivateBestChainStep ends after connecting b
Released(t, b) == Work[b] > Work[oldTip[t]] \/ b = mostWork[t]

(***************************************************************************)
(* One ConnectTip, of the block b on the way to pindexMostWork that        *)
(* follows the tip.  It is read from disk, unless it is pindexMostWork     *)
(* itself and the caller still has it in memory; when it was pruned in the *)
(* meantime the node aborts.  cs_main is released when the tip has more    *)
(* work than the old one or is pindexMostWork, and after an invalid block, *)
(* wherever the tip then is.                                               *)
(***************************************************************************)
ConnectTip(t) ==
    /\ pc[t] = "switch" /\ tip \in Anc[mostWork[t]]
    /\ \E b \in Anc[mostWork[t]] \ {Genesis} :
          /\ Parent[b] = tip
          /\ \/ /\ b \notin haveData
                /\ node' = "aborted"
                /\ pc' = [pc EXCEPT ![t] = "idle"]
                /\ UNCHANGED <<tip, candidates, failedValid, failedChild>>
             \/ /\ b \in haveData \/ b = mostWork[t]
                /\ b \in Sound
                /\ tip' = b
                /\ candidates' = PruneBlockIndexCandidates(candidates, b)
                /\ pc' = [pc EXCEPT ![t] = IF Released(t, b) THEN "loop" ELSE "switch"]
                /\ UNCHANGED <<failedValid, failedChild, node>>
             \/ /\ b \in haveData \/ b = mostWork[t]
                /\ b \notin Sound
                /\ InvalidBlockFound(b)
                /\ pc' = [pc EXCEPT ![t] = "loop"]
                /\ UNCHANGED <<tip, node>>
    /\ UNCHANGED <<indexVars, threadVars>>

StopAfterOne(t) == FALSE  \* mutant: one iteration only

\* the loop condition of ActivateBestChain, read without cs_main
Unfinished(t) == mostWork[t] # tip

LoopCondition(t) ==
    /\ pc[t] = "loop"
    /\ pc' = [pc EXCEPT ![t] = IF Unfinished(t) THEN "find" ELSE "idle"]
    /\ UNCHANGED <<indexVars, failedValid, failedChild, candidates, tip, threadVars, node>>

----------------------------------------------------------------------------
(* The operator's calls: invalidateblock and reconsiderblock. *)

WalkNothing(b) == {}  \* mutant: the active chain is left alone

\* the blocks InvalidateBlock disconnects
Walk(b) == IF b \in Anc[tip] THEN Anc[tip] \ Anc[Parent[b]] ELSE {}

RestoreTipOnly(newTip, bad) == {newTip}  \* mutant: nor the other branches

RestoreUnlinked(newTip, bad) ==  \* mutant: nChainTx is not consulted
    {x \in mapBlockIndex \ bad : x \in nTx /\ ~Better(newTip, x, nSequenceId)}

\* the blocks InvalidateBlock makes candidates again
RestoreCandidates(newTip, bad) ==
    {x \in mapBlockIndex \ bad : x \in nTx /\ x \in nChainTx /\ ~Better(newTip, x, nSequenceId)}

(***************************************************************************)
(* InvalidateBlock followed by ActivateBestChain.  The blocks from the tip *)
(* down to b are disconnected one by one; if one of them was pruned the    *)
(* node aborts there, with the flags set so far.                           *)
(***************************************************************************)
InvalidateBlock(t, b) ==
    LET walk == Walk(b)
        gone == walk \ haveData
        stop == Highest(gone)
    IN
    /\ Free /\ pc[t] = "idle" /\ b \in mapBlockIndex
    /\ failedValid' = failedValid \cup {b}
    /\ \/ LET newTip == IF walk = {} THEN tip ELSE Parent[b] IN
          /\ gone = {}
          /\ tip' = newTip
          /\ failedChild' = failedChild \cup walk
          /\ candidates' = (candidates \ (walk \cup {b})) \cup
                              RestoreCandidates(newTip, failed \cup walk \cup {b})
          /\ pc' = [pc EXCEPT ![t] = "find"]
          /\ UNCHANGED node
       \/ /\ gone # {}
          /\ tip' = stop
          /\ failedChild' = failedChild \cup {stop} \cup Above(tip, stop)
          /\ candidates' = candidates \ ({b, stop} \cup Above(tip, stop))
          /\ node' = "aborted"
          /\ UNCHANGED pc
    /\ UNCHANGED <<indexVars, threadVars>>

(***************************************************************************)
(* ReconsiderBlock followed by ActivateBestChain.  Descendants that become *)
(* valid are candidates again; ancestors only lose their flags.            *)
(***************************************************************************)
ReconsiderBlock(t, b) ==
    LET below == {x \in mapBlockIndex : b \in Anc[x]}
    IN
    /\ Free /\ pc[t] = "idle" /\ b \in mapBlockIndex
    /\ failedValid' = failedValid \ (below \cup Anc[b])
    /\ failedChild' = failedChild \ (below \cup Anc[b])
    /\ candidates' = candidates \cup
          {x \in below \cap failed : x \in nTx /\ x \in nChainTx /\ Better(x, tip, nSequenceId)}
    /\ pc' = [pc EXCEPT ![t] = "find"]
    /\ UNCHANGED <<indexVars, tip, threadVars, node>>

----------------------------------------------------------------------------
(* Pruning, shutdown and restart. *)

PruneKeepsData(b) ==  \* mutant: nTx is reset and the data flag is kept
    /\ b \in haveData
    /\ Height[b] + Keep <= Height[tip]
    /\ nBlockSequenceId <= PruneBound
    /\ nTx' = nTx \ {b}
    /\ unlinked' = unlinked \ {b}
    /\ UNCHANGED <<mapBlockIndex, haveData, nChainTx, failedValid, failedChild, nSequenceId,
                   nBlockSequenceId, candidates, tip, pc, threadVars, node>>

(***************************************************************************)
(* PruneOneBlockFile for a file that holds one block (one with more is     *)
(* several such steps under the lock); FindFilesToPrune spares the last    *)
(* MIN_BLOCKS_TO_KEEP blocks by height.  FlushStateToDisk calls it, also   *)
(* from DisconnectTip and ConnectTip: pruning can hit the middle of a      *)
(* reorganisation.                                                         *)
(***************************************************************************)
PruneOneBlockFile(b) ==
    /\ b \in haveData
    /\ Height[b] + Keep <= Height[tip]
    /\ nBlockSequenceId <= PruneBound
    /\ haveData' = haveData \ {b}
    /\ unlinked' = unlinked \ {b}
    /\ UNCHANGED <<mapBlockIndex, nTx, nChainTx, failedValid, failedChild, nSequenceId,
                   nBlockSequenceId, candidates, tip, pc, threadVars, node>>

StartShutdown ==
    /\ node = "running"
    /\ node' = "stopping"
    /\ UNCHANGED <<indexVars, failedValid, failedChild, candidates, tip, pc, threadVars>>

(***************************************************************************)
(* The node stops with everything flushed and LoadBlockIndexDB rebuilds    *)
(* the memory-only state.  FindMostWorkChain does not enter what it marks  *)
(* in setDirtyBlockIndex, so a FAILED_CHILD flag may be lost.  AppInit2    *)
(* then calls ActivateBestChain.                                           *)
(***************************************************************************)
LoadBlockIndexDB(t) ==
    LET seq  == [b \in Block |-> 0]
        link == {b \in Block : Anc[b] \subseteq nTx}
    IN
    /\ node = "stopping" /\ \A u \in Thread : pc[u] = "idle"
    /\ node' = "running"
    /\ nSequenceId' = seq /\ nBlockSequenceId' = 1
    /\ nChainTx' = link
    /\ unlinked' = {b \in nTx \ {Genesis} : Parent[b] \notin link}
    /\ \E lost \in SUBSET failedChild : failedChild' = failedChild \ lost
    /\ candidates' = {b \in link : b \notin failedValid \cup failedChild' /\ ~Better(tip, b, seq)}
    /\ pc' = [pc EXCEPT ![t] = "find"]
    /\ UNCHANGED <<mapBlockIndex, nTx, haveData, failedValid, tip, threadVars>>

----------------------------------------------------------------------------
Activation(t) == \/ ActivateBestChain(t)
                 \/ LeaveActivation(t)
                 \/ DisconnectTip(t)
                 \/ ConnectTip(t)
                 \/ LoopCondition(t)

Next ==
    \/ \E b \in Block : AcceptBlockHeader(b)
    \/ \E b \in Block : PruneOneBlockFile(b)
    \/ \E t \in Thread :
          \/ \E b \in Block, fRequested \in BOOLEAN : ProcessNewBlock(t, b, fRequested)
          \/ ActivateBestChain(t)
          \/ LeaveActivation(t)
          \/ DisconnectTip(t)
          \/ ConnectTip(t)
          \/ LoopCondition(t)
          \/ \E b \in Invalidatable : InvalidateBlock(t, b)
          \/ \E b \in Reconsiderable : ReconsiderBlock(t, b)
          \/ LoadBlockIndexDB(t)
    \/ StartShutdown

Spec == Init /\ [][Next]_vars

\* a thread inside ActivateBestChain gets cs_main and goes on
FairSpec == Spec /\ \A t \in Thread : WF_vars(Activation(t))

----------------------------------------------------------------------------
(* Properties.  CheckBlockIndex asserts several of them of a running node. *)

Processed(b)       == Anc[b] \subseteq nTx
Complete(b)        == Anc[b] \subseteq haveData
NoInvalidParent(b) == Anc[b] \cap failedValid = {}
AsGoodAsTip(b)     == ~Better(tip, b, nSequenceId)

\* no thread is inside ActivateBestChain
Quiet == \A t \in Thread : pc[t] = "idle"

(***************************************************************************)
(* FindMostWorkChain stops its walk at the active chain "as we know all    *)
(* blocks in it are valid already": whatever threads, the operator and     *)
(* restarts do, no block of the active chain is marked failed, each has    *)
(* been received and accepted by ConnectBlock.                             *)
(***************************************************************************)
ActiveChainValid ==
    node # "aborted" => /\ Anc[tip] \cap failed = {}
                        /\ Anc[tip] \subseteq nChainTx \cap Sound

(***************************************************************************)
(* The assertion of FindMostWorkChain's walk: every block on a candidate's *)
(* chain has nChainTx.                                                     *)
(***************************************************************************)
CandidatesLinked == \A c \in candidates : Anc[c] \subseteq nChainTx

(***************************************************************************)
(* "nChainTx != 0 is used to signal that all parent blocks have been       *)
(* processed (but may have been pruned)": in whatever order blocks arrive, *)
(* a block is linked exactly when it and all its ancestors have arrived.   *)
(***************************************************************************)
LinkedIffProcessed == \A b \in mapBlockIndex : b \in nChainTx <=> Processed(b)

(***************************************************************************)
(* "The failed mask cannot be set for blocks without invalid parents."     *)
(***************************************************************************)
FailedHasInvalidParent == \A b \in failed : ~NoInvalidParent(b)

(***************************************************************************)
(* FindMostWorkChain always finds a block: a failed reorganisation and     *)
(* invalidateblock leave a chain to return to.                             *)
(***************************************************************************)
SomewhereToGo == node = "running" => Usable # {}

(***************************************************************************)
(* A block that sorts worse than the tip, or one of whose ancestors was    *)
(* never seen, "cannot be in setBlockIndexCandidates" when cs_main is      *)
(* free, also in the middle of another thread's activation; and what is    *)
(* left there is enough to go on from.                                     *)
(***************************************************************************)
CandidatesSound ==
    /\ Free => \A c \in candidates : AsGoodAsTip(c) /\ Processed(c)
    /\ SomewhereToGo

(***************************************************************************)
(* "If this block sorts at least as good as the current tip and is valid   *)
(* and we have all data for its parents, it must be in                     *)
(* setBlockIndexCandidates", as must the tip; one that had to be removed   *)
(* because of missing data is in mapBlocksUnlinked.                        *)
(***************************************************************************)
CandidatesComplete ==
    \A b \in mapBlockIndex :
        AsGoodAsTip(b) /\ Processed(b) /\ NoInvalidParent(b) =>
            /\ Complete(b) \/ b = tip => b \in candidates
            /\ b \in haveData => b \in candidates \cup unlinked

\* CandidatesComplete when no thread is inside ActivateBestChain
CandidatesCompleteAtRest == Quiet /\ node = "running" => CandidatesComplete

\* CandidatesComplete whenever another thread could run CheckBlockIndex
CandidatesCompleteWhenFree == Free /\ node = "running" => CandidatesComplete

(***************************************************************************)
(* A block with data, an ancestor of which was never received, "must be in *)
(* mapBlocksUnlinked" unless it has an invalid parent; and "we aren't      *)
(* missing data for any parent -- cannot be in mapBlocksUnlinked".         *)
(***************************************************************************)
UnlinkedComplete ==
    \A b \in mapBlockIndex :
        b \in haveData /\ ~Processed(b) /\ NoInvalidParent(b) => b \in unlinked

UnlinkedExact == UnlinkedComplete /\ \A b \in unlinked : ~Complete(b)

\* "Can't be in mapBlocksUnlinked if we don't HAVE_DATA"
UnlinkedHasData == unlinked \subseteq haveData

(***************************************************************************)
(* No block that could be connected is lost sight of, through pruning,     *)
(* restarts and failed reorganisations: it is a candidate, or waits in     *)
(* mapBlocksUnlinked for exactly as long as something below it is missing. *)
(***************************************************************************)
CandidatesKept == CandidatesCompleteAtRest /\ UnlinkedExact

(***************************************************************************)
(* The relations between mapBlockIndex, setBlockIndexCandidates and        *)
(* mapBlocksUnlinked that the function CheckBlockIndex asserts, without    *)
(* pruning and with reconsiderblock of blocks that have no valid sibling.  *)
(***************************************************************************)
CheckBlockIndex == CandidatesKept /\ LinkedIffProcessed /\ FailedHasInvalidParent

(***************************************************************************)
(* When every activation has ended the tip is the best block the node      *)
(* could switch to: no wakeup of the activation loop is missing, although  *)
(* the loop gives up cs_main between iterations, ends on an unlocked read  *)
(* of the tip, and is left early when a reorganisation fails.              *)
(***************************************************************************)
BestChainAtRest ==
    Quiet /\ node = "running" =>
        \A b \in nChainTx : NoInvalidParent(b) /\ Anc[b] \ Anc[tip] \subseteq haveData
                                => ~Better(b, tip, nSequenceId)

(***************************************************************************)
(* When ActivateBestChainStep gives up cs_main without having met an       *)
(* invalid block, the tip is preferred to the one it started from.         *)
(***************************************************************************)
ReorgImproves ==
    [][\A t \in Thread :
          pc[t] = "switch" /\ pc'[t] = "loop" /\ failedValid' = failedValid
            => Better(tip', oldTip[t], nSequenceId)]_vars

\* b is a better chain, not known to be bad, that could be connected
Waiting(b) == /\ node = "running"
              /\ b \in nChainTx /\ Anc[b] \cap failed = {}
              /\ Anc[b] \ Anc[tip] \subseteq haveData
              /\ Better(b, tip, nSequenceId)

(***************************************************************************)
(* A better chain is eventually adopted or found invalid, or something at  *)
(* least as good is, whichever thread received it.                         *)
(***************************************************************************)
BetterChainAdopted == \A b \in Block : Waiting(b) ~> ~Waiting(b)

----------------------------------------------------------------------------
(* What the proofs of ChainStateProofs rest on: the inductive invariant. *)

\* every linked block hangs on a chain of linked blocks
LinkedClosed == \A x \in nChainTx : Anc[x] \subseteq nChainTx

\* the active chain is linked and was accepted by ConnectBlock, and nothing
\* on it is failed while the node runs
TipLinked   == Anc[tip] \subseteq nChainTx \cap Sound
TipUnfailed == node # "aborted" => Anc[tip] \cap failed = {}

\* the chain a thread is switching to is still as good as when it was chosen
SwitchSafe == \A t \in Thread :
    pc[t] = "switch" => /\ node # "aborted"
                        /\ mostWork[t] \in nChainTx
                        /\ Anc[mostWork[t]] \cap failed = {}

\* cs_main is held by one thread at a time
OneSwitch == \A t, u \in Thread : pc[t] = "switch" /\ pc[u] = "switch" => t = u

IInv == /\ TypeOK
        /\ LinkedClosed
        /\ TipLinked
        /\ TipUnfailed
        /\ unlinked \subseteq nTx
        /\ candidates \subseteq nChainTx
        /\ SwitchSafe
        /\ OneSwitch
==============================================================================
