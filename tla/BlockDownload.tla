----------------------------- MODULE BlockDownload -----------------------------
(***************************************************************************)
(* Download of blocks from peers, as in main.cpp: CNodeState, the blocks   *)
(* in flight, the choice of what to ask of whom, and what frees a block    *)
(* that a peer never sends.                                                *)
(*                                                                         *)
(* Everything here happens under cs_main; an action is one message handled *)
(* by ProcessMessage, one call of SendMessages, or the end of a node.  A   *)
(* peer is a NodeId and connects once.  Time is left out: a timer that is  *)
(* set may have run out or not, and so may the tests for "nearly synced".  *)
(* Whitelisted peers, which are never punished, are left out; so is the    *)
(* connection of a block that fails in ConnectBlock (see ChainState).      *)
(***************************************************************************)
EXTENDS Integers, SequencesExt

CONSTANTS
    Peer,
    Nice,        \* outbound full nodes, preferred for download
    Honest,      \* peers that answer requests and send nothing broken
    Best,        \* the best block of each peer
    Block, Genesis, Parent,
    Bad,         \* blocks that fail ContextualCheckBlock, at a score of 100
    Window,      \* BLOCK_DOWNLOAD_WINDOW
    Transit      \* MAX_BLOCKS_IN_TRANSIT_PER_PEER

None == "none"   \* NULL, or no peer

ASSUME DownloadAssumption ==
    /\ None \notin Peer \cup Block
    /\ Nice \subseteq Peer /\ Honest \subseteq Peer
    /\ Best \in [Peer -> Block]
    /\ IsFiniteSet(Block) /\ Genesis \in Block /\ Parent \in [Block \ {Genesis} -> Block]
    /\ Bad \subseteq Block \ {Genesis}
    /\ Window \in Nat \ {0} /\ Transit \in Nat \ {0}

VARIABLES
    node,        \* mapNodeState, with fDisconnect of the CNode
    met,         \* peers that have connected
    inFlight,    \* mapBlocksInFlight: the peer of each block
    nQueued,     \* nQueuedValidatedHeaders
    nSync,       \* nSyncStarted
    nPreferred,  \* nPreferredDownload
    index,       \* mapBlockIndex
    data,        \* blocks with BLOCK_HAVE_DATA
    failed,      \* blocks with BLOCK_FAILED_VALID
    tip          \* chainActive.Tip()

counts == <<nQueued, nSync, nPreferred>>
chain  == <<index, data, failed, tip>>
vars   == <<node, met, inFlight, counts, chain>>

Path   == LET up[b \in Block] == IF b = Genesis THEN <<>> ELSE Append(up[Parent[b]], b)
          IN  [b \in Block |-> up[b]]

\* what this gives when Parent makes a tree, stated so that no induction is needed
ASSUME PathAssumption ==
    /\ Path[Genesis] = <<>>
    /\ \A b \in Block : Path[b] \in Seq(Block \ {Genesis})
    /\ \A b \in Block \ {Genesis} : Path[b] = Append(Path[Parent[b]], b)
    /\ \A b \in Block : \A i \in DOMAIN Path[b] : Path[Path[b][i]] = SubSeq(Path[b], 1, i)

Height == [b \in Block |-> Len(Path[b])]
Chain  == [b \in Block |-> Range(Path[b]) \cup {Genesis}]

At(b, h)    == IF h = 0 THEN Genesis ELSE Path[b][h]
Linked(b)   == Chain[b] \subseteq data   \* nChainTx # 0
Fork(a, b)  == CHOOSE c \in Chain[a] \cap Chain[b] :   \* LastCommonAncestor
                  \A d \in Chain[a] \cap Chain[b] : Height[d] <= Height[c]

NodeType ==
    [ready : BOOLEAN, preferred : BOOLEAN, ban : BOOLEAN, disconnect : BOOLEAN,
     sync : BOOLEAN, stalling : BOOLEAN,
     known : Block \cup {None}, unknown : Block \cup {None}, common : Block \cup {None},
     queue : Seq([hash : Block, valid : BOOLEAN]), n : Int, nValid : Int]

NewNode ==
    [ready |-> FALSE, preferred |-> FALSE, ban |-> FALSE, disconnect |-> FALSE,
     sync |-> FALSE, stalling |-> FALSE,
     known |-> None, unknown |-> None, common |-> None,
     queue |-> <<>>, n |-> 0, nValid |-> 0]

Up == DOMAIN node
Int01(b) == IF b THEN 1 ELSE 0
ValidIn(queue) == Cardinality({e \in Range(queue) : e.valid})

\* the i-th smallest number of S
Nth(S, i) == CHOOSE h \in S : Cardinality({j \in S : j < h}) = i - 1

\* a list after the entries in gone have been erased
Without(queue, gone) ==
    LET kept == {i \in DOMAIN queue : queue[i] \notin gone}
    IN  [i \in 1 .. Cardinality(kept) |-> queue[Nth(kept, i)]]

TypeOK ==
    /\ Up \subseteq met /\ met \subseteq Peer
    /\ \A p \in Up : node[p] \in NodeType
    /\ inFlight \in [Block -> Peer \cup {None}]
    /\ nQueued \in Int /\ nSync \in Int /\ nPreferred \in Int
    /\ Genesis \in data /\ data \subseteq index /\ index \subseteq Block
    /\ failed \subseteq index /\ tip \in data

Init ==
    /\ node = <<>> /\ met = {} /\ inFlight = [b \in Block |-> None]
    /\ nQueued = 0 /\ nSync = 0 /\ nPreferred = 0
    /\ index = {Genesis} /\ data = {Genesis} /\ failed = {} /\ tip = Genesis

----------------------------------------------------------------------------
(* The blocks in flight, as changes to [node, inFlight, nQueued]. *)

Books == [node |-> node, inFlight |-> inFlight, nQueued |-> nQueued]

SetBooks(k) == node' = k.node /\ inFlight' = k.inFlight /\ nQueued' = k.nQueued

OfPeer(k, p, B) == {e \in Range(k.node[p].queue) : e.hash \in B}

Unqueue(s, gone) ==
    [s EXCEPT !.queue = Without(@, gone),
              !.n = @ - Cardinality(gone),
              !.nValid = @ - Cardinality({e \in gone : e.valid}),
              !.stalling = IF gone = {} THEN @ ELSE FALSE]

ValidOf(k, B) == Cardinality({b \in B : /\ k.inFlight[b] # None
                                        /\ [hash |-> b, valid |-> TRUE] \in OfPeer(k, k.inFlight[b], B)})

\* MarkBlockAsReceived, for each block of B
MarkBlockAsReceived(k, B) ==
    [node     |-> [p \in DOMAIN k.node |-> Unqueue(k.node[p], OfPeer(k, p, B))],
     inFlight |-> [b \in Block |-> IF b \in B THEN None ELSE k.inFlight[b]],
     nQueued  |-> k.nQueued - ValidOf(k, B)]

\* MarkBlockAsInFlight, for the blocks of a sequence one after the other
MarkBlockAsInFlight(k, p, blocks, valid) ==
    LET r == MarkBlockAsReceived(k, Range(blocks))
        m == Len(blocks)
    IN  [node     |-> [r.node EXCEPT
                          ![p].queue = @ \o [i \in 1 .. m |-> [hash |-> blocks[i], valid |-> valid]],
                          ![p].n = @ + m, ![p].nValid = @ + (IF valid THEN m ELSE 0)],
         inFlight |-> [b \in Block |-> IF b \in Range(blocks) THEN p ELSE r.inFlight[b]],
         nQueued  |-> r.nQueued + (IF valid THEN m ELSE 0)]

----------------------------------------------------------------------------
(* What a peer is known to have. *)

Better(known, b) == known = None \/ Height[b] >= Height[known]

ProcessBlockAvailability(s) ==
    IF s.unknown = None \/ s.unknown \notin index THEN s
    ELSE [s EXCEPT !.known = IF Better(@, s.unknown) THEN s.unknown ELSE @, !.unknown = None]

\* in, the index that the message leaves
UpdateBlockAvailability(s, b, in) ==
    LET t == ProcessBlockAvailability(s)
    IN  IF b \notin in THEN [t EXCEPT !.unknown = b]
        ELSE IF Better(t.known, b) THEN [t EXCEPT !.known = b] ELSE t

Lower(a, b) == IF a < b THEN a ELSE b

AnyStored(b) == b \in data  \* mutant: nChainTx is not looked at

Held(b) == Linked(b)

AskAgain(b) == b \notin data  \* mutant: blocks in flight are asked for again

Missing(b) == b \notin data /\ inFlight[b] = None

(***************************************************************************)
(* FindNextBlocksToDownload, for a peer whose pindexBestKnownBlock is up   *)
(* to date: the blocks from the last one in common towards the best one of *)
(* the peer, by their heights.  The walk ends at a failed block, when      *)
(* count blocks are found, or behind the window; if nothing is found but   *)
(* the block right behind the window could be asked for, the peer that the *)
(* first block in flight is awaited from holds things up.                  *)
(***************************************************************************)
FindNextBlocksToDownload(s, p, count) ==
    LET known  == s.known
        guess  == IF s.common # None THEN s.common
                  ELSE At(tip, Lower(Height[known], Height[tip]))
        from   == Fork(guess, known)
        end    == Height[from] + Window
        walk   == {h \in (Height[from] + 1) .. Lower(Height[known], end + 1) :
                      \A i \in (Height[from] + 1) .. h : At(known, i) \notin failed}
        free   == {h \in walk : Missing(At(known, h))}
        ask    == {h \in free : h <= end /\ Cardinality({i \in free : i < h}) < count}
        owed   == {h \in walk : At(known, h) \notin data /\ inFlight[At(known, h)] # None}
        awaits == IF owed = {} THEN None ELSE inFlight[At(known, Min(owed))]
        held   == {h \in walk : Held(At(known, h))}
    IN  IF known = None \/ Height[known] < Height[tip]
        THEN [common |-> s.common, fetch |-> <<>>, staller |-> None]
        ELSE [common  |-> IF held = {} THEN from ELSE At(known, Max(held)),
              fetch   |-> [i \in 1 .. Cardinality(ask) |-> At(known, Nth(ask, i))],
              staller |-> IF ask = {} /\ end + 1 \in free /\ awaits # p THEN awaits ELSE None]

----------------------------------------------------------------------------
(* Life of a peer. *)

InitializeNode(p) ==
    /\ p \notin met
    /\ met' = met \cup {p}
    /\ node' = [q \in Up \cup {p} |-> IF q = p THEN NewNode ELSE node[q]]
    /\ UNCHANGED <<inFlight, counts, chain>>

\* the "version" message, with UpdatePreferredDownload
Version(p) ==
    /\ p \in Up /\ ~node[p].ready /\ ~node[p].disconnect
    /\ node' = [node EXCEPT ![p].ready = TRUE, ![p].preferred = p \in Nice]
    /\ nPreferred' = nPreferred + Int01(p \in Nice)
    /\ UNCHANGED <<met, inFlight, nQueued, nSync, chain>>

\* the connection breaks, or the operator closes it
Disconnect(p) ==
    /\ p \in Up /\ ~node[p].disconnect
    /\ node' = [node EXCEPT ![p].disconnect = TRUE]
    /\ UNCHANGED <<met, inFlight, counts, chain>>

PreferredGone(p) == Int01(node[p].preferred)

KeepInFlight(p) == inFlight  \* mutant: the blocks stay in flight from a peer that is gone

Released(p) == [b \in Block |-> IF \E e \in Range(node[p].queue) : e.hash = b THEN None ELSE inFlight[b]]

\* nQueuedValidatedHeaders is left as it is
FinalizeNode(p) ==
    /\ p \in Up /\ node[p].disconnect
    /\ nSync' = nSync - Int01(node[p].sync)
    /\ inFlight' = Released(p)
    /\ nPreferred' = nPreferred - PreferredGone(p)
    /\ node' = [q \in Up \ {p} |-> node[q]]
    /\ UNCHANGED <<met, nQueued, chain>>

----------------------------------------------------------------------------
(* Messages. *)

Talks(p) == p \in Up /\ node[p].ready /\ ~node[p].disconnect

\* Misbehaving: a score of 100 bans, a smaller one may have been the last
Punished(s, score) == CASE score = 0 -> {s}
                        [] score = 100 -> {[s EXCEPT !.ban = TRUE]}
                        [] OTHER -> {s, [s EXCEPT !.ban = TRUE]}

\* "inv" for a block above genesis; near: it is fetched at once, the node being close to synced
Inv(p, b, near) ==
    LET k == [Books EXCEPT !.node[p] = UpdateBlockAvailability(@, b, index)]
    IN
    /\ Talks(p) /\ b \in Chain[Best[p]] \ {Genesis}
    /\ near => b \notin index /\ inFlight[b] = None /\ node[p].n < Transit
    /\ IF near THEN SetBooks(MarkBlockAsInFlight(k, p, <<b>>, FALSE)) ELSE SetBooks(k)
    /\ UNCHANGED <<met, nSync, nPreferred, chain>>

(***************************************************************************)
(* "headers": the headers of Path[b] from the given height on.  Those are  *)
(* accepted that come before the first one with a missing or failed parent *)
(* or that is itself marked.                                               *)
(***************************************************************************)
Headers(p, b, first) ==
    LET sent   == SubSeq(Path[b], first, Len(Path[b]))
        orphan == sent[1] \notin index /\ Parent[sent[1]] \notin index
        refused(i) == \/ orphan \/ sent[i] \in failed
                      \/ sent[i] \notin index /\ Parent[sent[i]] \in failed
        good   == {i \in DOMAIN sent : \A j \in 1 .. i : ~refused(j)}
        all    == good = DOMAIN sent
        score  == IF orphan THEN 10
                  ELSE IF all \/ sent[Cardinality(good) + 1] \in failed THEN 0 ELSE 100
    IN
    /\ Talks(p) /\ b \in Chain[Best[p]] /\ first \in 1 .. Height[b]
    /\ index' = index \cup {sent[i] : i \in good}
    /\ \E s \in IF all THEN {UpdateBlockAvailability(node[p], b, index')}
                ELSE Punished(node[p], score) : node' = [node EXCEPT ![p] = s]
    /\ UNCHANGED <<met, inFlight, counts, data, failed, tip>>

\* ActivateBestChain: a chain of stored blocks with more work, if there is one
Activate(stored) ==
    LET linked == {b \in stored : Chain[b] \subseteq stored}
        most   == {b \in linked : \A c \in linked : Height[c] <= Height[b]}
    IN  IF tip \in most THEN {tip} ELSE most

(***************************************************************************)
(* "block", with ProcessNewBlock and AcceptBlock.  junk: the hash is that  *)
(* of b, but CheckBlock fails.                                             *)
(***************************************************************************)
BlockMessage(p, b, junk) ==
    LET k       == MarkBlockAsReceived(Books, {b})
        asked   == inFlight[b] # None
        known   == b \in index \/ Parent[b] \in index \ failed
        orphan  == b \notin index /\ Parent[b] \notin index
        wanted  == b \notin data /\ (asked \/ Height[b] > Height[tip])
        fails   == known /\ b \notin failed /\ wanted /\ b \in Bad
        stores  == known /\ b \notin failed /\ wanted /\ b \notin Bad
        score   == IF junk \/ fails \/ (~known /\ ~orphan) THEN 100 ELSE IF orphan THEN 10 ELSE 0
    IN
    /\ Talks(p) /\ b \in Chain[Best[p]] \ {Genesis}
    /\ junk => p \notin Honest
    /\ inFlight' = k.inFlight /\ nQueued' = k.nQueued
    /\ \E s \in Punished(k.node[p], score) : node' = [k.node EXCEPT ![p] = s]
    /\ IF junk THEN UNCHANGED chain
       ELSE /\ index' = IF known THEN index \cup {b} ELSE index
            /\ failed' = IF fails THEN failed \cup {b} ELSE failed
            /\ data' = IF stores THEN data \cup {b} ELSE data
            /\ tip' \in Activate(data')
    /\ UNCHANGED <<met, nSync, nPreferred>>

----------------------------------------------------------------------------
(* SendMessages. *)

\* Start block sync
StartsSync(p, today) ==
    /\ ~node[p].sync
    /\ today \/ (nSync = 0 /\ (node[p].preferred \/ nPreferred = 0))

(***************************************************************************)
(* What the clock may say where it is asked: the timers of the peer that   *)
(* have run out, that the best header is of the last day, and that the     *)
(* node is out of initial block download.                                  *)
(***************************************************************************)
Clock(p) ==
    SUBSET ((IF node[p].stalling THEN {"stalled"} ELSE {})
            \cup (IF node[p].queue # <<>> THEN {"overdue"} ELSE {})
            \cup (IF node[p].sync THEN {} ELSE {"today"})
            \cup (IF node[p].preferred \/ nPreferred = 0 THEN {} ELSE {"synced"}))

OnlyStalled(clock) == "stalled" \in clock  \* mutant: no timeout for a block

TimedOut(clock) == "stalled" \in clock \/ "overdue" \in clock

SendMessages(p, clock) ==
    LET s0   == node[p]
        sync == StartsSync(p, "today" \in clock)
        off  == \/ s0.disconnect \/ s0.ban
                \/ TimedOut(clock)
        s1   == [s0 EXCEPT !.ban = FALSE, !.disconnect = off, !.sync = @ \/ sync]
        asks == /\ ~off /\ s0.n < Transit
                /\ s0.preferred \/ nPreferred = 0 \/ "synced" \in clock
        s2   == ProcessBlockAvailability(s1)
    IN
    /\ p \in Up /\ s0.ready
    /\ nSync' = nSync + Int01(sync)
    /\ IF ~asks THEN SetBooks([Books EXCEPT !.node[p] = s1])
       ELSE \E find \in {FindNextBlocksToDownload(s2, p, Transit - s0.n)} :
            \E k \in {MarkBlockAsInFlight([Books EXCEPT !.node[p] = [s2 EXCEPT !.common = find.common]],
                                          p, find.fetch, TRUE)} :
               SetBooks(IF k.node[p].n = 0 /\ find.staller # None
                        THEN [k EXCEPT !.node[find.staller].stalling = TRUE] ELSE k)
    /\ UNCHANGED <<met, nPreferred, chain>>

Next ==
    \/ \E p \in Peer : InitializeNode(p) \/ Version(p) \/ Disconnect(p) \/ FinalizeNode(p)
    \/ \E p \in Peer, b \in Block, near \in BOOLEAN : Inv(p, b, near)
    \/ \E p \in Peer, b \in Block : \E first \in 1 .. Height[b] : Headers(p, b, first)
    \/ \E p \in Peer, b \in Block, junk \in BOOLEAN : BlockMessage(p, b, junk)
    \/ \E p \in Up : \E clock \in Clock(p) : SendMessages(p, clock)

Spec == Init /\ [][Next]_vars

(***************************************************************************)
(* ThreadMessageHandler calls SendMessages for every peer again and again, *)
(* a request that stays the oldest one of its peer is overdue in the end,  *)
(* the socket thread deletes nodes that are to be disconnected, and an     *)
(* honest peer sends the blocks it is asked for.                           *)
(***************************************************************************)
Overdue(p, b) == /\ p \in Up /\ node[p].queue # <<>> /\ Head(node[p].queue).hash = b
                 /\ SendMessages(p, {"overdue"})
Answer(p, b)  == inFlight[b] = p /\ BlockMessage(p, b, FALSE)

Fairness ==
    /\ \A p \in Peer : WF_vars(SendMessages(p, {})) /\ WF_vars(FinalizeNode(p))
    /\ \A p \in Peer, b \in Block \ {Genesis} : WF_vars(Overdue(p, b))
    /\ \A p \in Honest, b \in Block \ {Genesis} : WF_vars(Answer(p, b))

FairSpec == Spec /\ Fairness

----------------------------------------------------------------------------
(* Properties. *)

(***************************************************************************)
(* mapBlocksInFlight and the queues of the peers agree: a block is in      *)
(* flight from a peer that exists, in whose list it stands once, and the   *)
(* counters of each peer are those of its list, whoever delivered a block  *)
(* and whichever peers were lost.  State(...) is never NULL for a block in *)
(* flight or a staller.                                                    *)
(***************************************************************************)
InFlightExact ==
    /\ \A b \in Block : inFlight[b] # None =>
          inFlight[b] \in Up /\ \E e \in Range(node[inFlight[b]].queue) : e.hash = b
    /\ \A p \in Up : LET q == node[p].queue IN
          /\ \A i, j \in DOMAIN q : q[i].hash = q[j].hash => i = j
          /\ \A i \in DOMAIN q : inFlight[q[i].hash] = p
          /\ node[p].n = Len(q) /\ node[p].nValid = ValidIn(q) /\ Len(q) <= Transit

(***************************************************************************)
(* nSyncStarted and nPreferredDownload count the peers they are about: if  *)
(* one drifted, no peer would be asked for headers, or none for blocks.    *)
(***************************************************************************)
PeersCounted ==
    /\ nSync = Cardinality({p \in Up : node[p].sync})
    /\ nPreferred = Cardinality({p \in Up : node[p].preferred})

\* the blocks in flight with validated headers
Validated == {b \in Block : \E p \in Up : [hash |-> b, valid |-> TRUE] \in Range(node[p].queue)}

(***************************************************************************)
(* nQueuedValidatedHeaders never falls below the number of blocks in       *)
(* flight with validated headers, so no peer is given less time than       *)
(* GetBlockTimeout grants for them.                                        *)
(***************************************************************************)
EnoughQueued == nQueued >= Cardinality(Validated)

(***************************************************************************)
(* "Number of blocks in flight with validated headers." (main.cpp:162)     *)
(* FinalizeNode releases the blocks of a peer without taking them off the  *)
(* number, so that it is too large from then on.                           *)
(***************************************************************************)
QueuedExact == nQueued = Cardinality(Validated)

(***************************************************************************)
(* "The last full block we both have": every block up to                   *)
(* pindexLastCommonBlock is stored.  A block missing below it would never  *)
(* be asked of this peer.                                                  *)
(***************************************************************************)
CommonStored == \A p \in Up : node[p].common # None => Linked(node[p].common)

(***************************************************************************)
(* A peer is only held to be stalling while something is in flight from    *)
(* it: a peer that has sent what it was asked for is not disconnected.     *)
(***************************************************************************)
StallerOwes == \A p \in Up : node[p].stalling => node[p].queue # <<>>

(***************************************************************************)
(* The books of the download agree with each other however blocks,         *)
(* timeouts and lost peers come in each other's way: the map of what is in *)
(* flight, the lists and counters of the peers, and the three global       *)
(* counters.                                                               *)
(***************************************************************************)
BooksExact == TypeOK /\ InFlightExact /\ PeersCounted /\ EnoughQueued /\ StallerOwes

(***************************************************************************)
(* A block in flight from a live peer is not asked of another one: it is   *)
(* given up or delivered first, however many peers announce it.            *)
(***************************************************************************)
AskedOnce == [][\A b \in Block : inFlight[b] # None /\ inFlight'[b] # None
                                 => inFlight'[b] = inFlight[b]]_inFlight

(***************************************************************************)
(* If an honest, preferred peer is known to have a better chain, then the  *)
(* tip gets there, unless the peer goes or the chain is found to be bad:   *)
(* blocks that another peer was asked for and withholds, or spoils, come   *)
(* free and are asked of the honest one.                                   *)
(***************************************************************************)
DownloadsBest ==
    \A p \in Honest \cap Nice, b \in Block :
        (Talks(p) /\ node[p].known = b /\ Height[b] > Height[tip])
        ~> (Height[tip] >= Height[b] \/ ~Talks(p) \/ Chain[b] \cap failed # {})
===============================================================================
