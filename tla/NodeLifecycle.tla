----------------------------- MODULE NodeLifecycle -----------------------------
(***************************************************************************)
(* The life of a CNode between the threads of net.cpp: ThreadSocketHandler *)
(* accepts, disconnects and deletes nodes, ThreadMessageHandler works on a *)
(* copy of vNodes, and ThreadOpenConnections opens outbound connections    *)
(* against a semaphore whose grant it moves into the node.                 *)
(*                                                                         *)
(* Reference counts are changed under cs_vNodes, except the first one;     *)
(* fDisconnect, fNetworkNode and grantOutbound are plain fields. One       *)
(* thread opens connections; ThreadOpenAddedConnections does the same for  *)
(* other addresses. A node is used once. Addresses are left out, and with  *)
(* them the case that ConnectNode finds a connection to the same address   *)
(* and port that was made since OpenNetworkConnection looked for one.      *)
(***************************************************************************)
EXTENDS Integers, FiniteSets

CONSTANTS
    Node,
    Outbound,     \* MAX_OUTBOUND_CONNECTIONS, the size of semOutbound
    MaxInbound    \* nMaxConnections less that

ASSUME NodeAssumption == Outbound \in Nat \ {0} /\ MaxInbound \in Nat

None == "none"
ASSUME NoneAssumption == None \notin Node

VARIABLES
    life,      \* of each node: none, vNodes, closing, disconnected, deleted
    inbound,   \* fInbound
    network,   \* fNetworkNode
    drop,      \* fDisconnect
    refs,      \* nRefCount
    grant,     \* grantOutbound.fHaveGrant
    slots,     \* the value of semOutbound
    opener,    \* ThreadOpenConnections: [pc, node]; its grant is held up to "moved"
    socket,    \* ThreadSocketHandler: [pc, copy, node]
    message    \* ThreadMessageHandler: [pc, copy]

fields == <<life, inbound, network, drop, refs, grant>>
vars   == <<fields, slots, opener, socket, message>>

In(l) == {n \in Node : life[n] = l}

TypeOK ==
    /\ life \in [Node -> {"none", "vNodes", "closing", "disconnected", "deleted"}]
    /\ inbound \in [Node -> BOOLEAN] /\ network \in [Node -> BOOLEAN]
    /\ drop \in [Node -> BOOLEAN] /\ grant \in [Node -> BOOLEAN]
    /\ refs \in [Node -> Nat] /\ slots \in 0 .. Outbound
    /\ opener \in [pc : {"idle", "granted", "connected", "moved", "oneShot"}, node : Node \cup {None}]
    /\ socket \in [pc : {"disconnect", "delete", "accept", "serve"}, copy : SUBSET Node,
                   node : Node \cup {None}]
    /\ message \in [pc : {"copy", "work"}, copy : SUBSET Node]

Init ==
    /\ life = [n \in Node |-> "none"]
    /\ inbound = [n \in Node |-> FALSE] /\ network = [n \in Node |-> FALSE]
    /\ drop = [n \in Node |-> FALSE] /\ grant = [n \in Node |-> FALSE]
    /\ refs = [n \in Node |-> 0] /\ slots = Outbound
    /\ opener = [pc |-> "idle", node |-> None]
    /\ socket = [pc |-> "disconnect", copy |-> {}, node |-> None]
    /\ message = [pc |-> "copy", copy |-> {}]

\* cs_vNodes is free: the socket thread is not in the middle of its first block
Free == socket.node = None

AddRefs(r, S)  == [n \in Node |-> IF n \in S THEN r[n] + 1 ELSE r[n]]
Releases(r, S) == [n \in Node |-> IF n \in S THEN r[n] - 1 ELSE r[n]]

----------------------------------------------------------------------------
(* ThreadOpenConnections and OpenNetworkConnection. *)

Acquire ==
    /\ opener.pc = "idle" /\ slots > 0
    /\ slots' = slots - 1
    /\ opener' = [opener EXCEPT !.pc = "granted"]
    /\ UNCHANGED <<fields, socket, message>>

\* no address, or no connection: the grant goes with the round of the loop
GiveUp ==
    /\ opener.pc = "granted"
    /\ slots' = slots + 1
    /\ opener' = [opener EXCEPT !.pc = "idle"]
    /\ UNCHANGED <<fields, socket, message>>

\* ConnectNode: a new CNode with one reference, visible to the other threads at once
ConnectNode(n) ==
    /\ opener.pc = "granted" /\ life[n] = "none" /\ Free
    /\ life' = [life EXCEPT ![n] = "vNodes"]
    /\ refs' = [refs EXCEPT ![n] = 1]
    /\ opener' = [pc |-> "connected", node |-> n]
    /\ UNCHANGED <<inbound, network, drop, grant, slots, socket, message>>

MoveTo(n) == grant' = [grant EXCEPT ![n] = TRUE] /\ UNCHANGED slots

MoveGrant ==
    /\ opener.pc = "connected"
    /\ MoveTo(opener.node)
    /\ opener' = [opener EXCEPT !.pc = "moved"]
    /\ UNCHANGED <<life, inbound, network, drop, refs, socket, message>>

SetNetworkNode ==
    /\ opener.pc = "moved"
    /\ network' = [network EXCEPT ![opener.node] = TRUE]
    /\ opener' \in {[pc |-> "idle", node |-> None], [opener EXCEPT !.pc = "oneShot"]}
    /\ UNCHANGED <<life, inbound, drop, refs, grant, slots, socket, message>>

\* with fOneShot, from ProcessOneShot: one more write to the node
SetOneShot ==
    /\ opener.pc = "oneShot"
    /\ opener' = [pc |-> "idle", node |-> None]
    /\ UNCHANGED <<fields, slots, socket, message>>

----------------------------------------------------------------------------
(* ThreadSocketHandler. *)

PostAlways(n) == slots' = slots + 1 /\ UNCHANGED grant  \* mutant: fHaveGrant is not looked at

\* grantOutbound.Release(), on the node or with it
ReleaseGrant(n) ==
    /\ slots' = IF grant[n] THEN slots + 1 ELSE slots
    /\ grant' = [grant EXCEPT ![n] = FALSE]

\* the first half for a node that is to be disconnected, up to CloseSocketDisconnect
StartDisconnect(n) ==
    /\ socket.pc = "disconnect" /\ Free
    /\ life[n] = "vNodes" /\ (drop[n] \/ refs[n] = 0)
    /\ life' = [life EXCEPT ![n] = "closing"]
    /\ ReleaseGrant(n)
    /\ drop' = [drop EXCEPT ![n] = TRUE]
    /\ socket' = [socket EXCEPT !.node = n]
    /\ UNCHANGED <<inbound, network, refs, opener, message>>

CountedIn(n) == network[n] \/ inbound[n]

\* the second half: the reference that the node was made with
FinishDisconnect ==
    LET n == socket.node
    IN
    /\ socket.pc = "disconnect" /\ ~Free
    /\ refs' = IF CountedIn(n) THEN Releases(refs, {n}) ELSE refs
    /\ life' = [life EXCEPT ![n] = "disconnected"]
    /\ socket' = [socket EXCEPT !.node = None]
    /\ UNCHANGED <<inbound, network, drop, grant, slots, opener, message>>

DisconnectDone ==
    /\ socket.pc = "disconnect" /\ Free
    /\ \A n \in In("vNodes") : ~drop[n] /\ refs[n] > 0
    /\ socket' = [socket EXCEPT !.pc = "delete"]
    /\ UNCHANGED <<fields, slots, opener, message>>

Whatever(n) == TRUE  \* mutant: threads may still be using it

Unused(n) == refs[n] = 0

\* delete, with ~CNode and FinalizeNode; a grant goes with the node
DeleteNode(n) ==
    /\ socket.pc = "delete"
    /\ life[n] = "disconnected" /\ Unused(n)
    /\ life' = [life EXCEPT ![n] = "deleted"]
    /\ ReleaseGrant(n)
    /\ UNCHANGED <<inbound, network, drop, refs, opener, socket, message>>

DeleteDone ==
    /\ socket.pc = "delete"
    /\ \A n \in In("disconnected") : ~Unused(n)
    /\ socket' = [socket EXCEPT !.pc = "accept"]
    /\ UNCHANGED <<fields, slots, opener, message>>

Accept(n) ==
    /\ socket.pc = "accept" /\ life[n] = "none"
    /\ Cardinality({m \in In("vNodes") : inbound[m]}) < MaxInbound
    /\ life' = [life EXCEPT ![n] = "vNodes"]
    /\ inbound' = [inbound EXCEPT ![n] = TRUE]
    /\ refs' = [refs EXCEPT ![n] = 1]
    /\ UNCHANGED <<network, drop, grant, slots, opener, socket, message>>

CopyForSockets ==
    /\ socket.pc = "accept"
    /\ refs' = AddRefs(refs, In("vNodes"))
    /\ socket' = [socket EXCEPT !.pc = "serve", !.copy = In("vNodes")]
    /\ UNCHANGED <<life, inbound, network, drop, grant, slots, opener, message>>

\* the other side has closed, there was an error, or nothing came for too long
SocketDrops(n) ==
    /\ socket.pc = "serve" /\ n \in socket.copy /\ ~drop[n]
    /\ drop' = [drop EXCEPT ![n] = TRUE]
    /\ UNCHANGED <<life, inbound, network, refs, grant, slots, opener, socket, message>>

ServeDone ==
    /\ socket.pc = "serve"
    /\ refs' = Releases(refs, socket.copy)
    /\ socket' = [socket EXCEPT !.pc = "disconnect", !.copy = {}]
    /\ UNCHANGED <<life, inbound, network, drop, grant, slots, opener, message>>

----------------------------------------------------------------------------
(* ThreadMessageHandler. *)

CopyForMessages ==
    /\ message.pc = "copy" /\ Free
    /\ refs' = AddRefs(refs, In("vNodes"))
    /\ message' = [pc |-> "work", copy |-> In("vNodes")]
    /\ UNCHANGED <<life, inbound, network, drop, grant, slots, opener, socket>>

\* ProcessMessages or SendMessages ends the connection
MessageDrops(n) ==
    /\ message.pc = "work" /\ n \in message.copy /\ ~drop[n]
    /\ drop' = [drop EXCEPT ![n] = TRUE]
    /\ UNCHANGED <<life, inbound, network, refs, grant, slots, opener, socket, message>>

KeepRefs == UNCHANGED refs  \* mutant: no Release after the round

ReleaseCopy == refs' = Releases(refs, message.copy)

MessagesDone ==
    /\ message.pc = "work" /\ Free
    /\ ReleaseCopy
    /\ message' = [pc |-> "copy", copy |-> {}]
    /\ UNCHANGED <<life, inbound, network, drop, grant, slots, opener, socket>>

OpenerNext  == Acquire \/ GiveUp \/ (\E n \in Node : ConnectNode(n)) \/ MoveGrant
               \/ SetNetworkNode \/ SetOneShot
SocketNext  == \/ \E n \in Node : StartDisconnect(n) \/ DeleteNode(n) \/ Accept(n) \/ SocketDrops(n)
               \/ FinishDisconnect \/ DisconnectDone \/ DeleteDone \/ CopyForSockets \/ ServeDone
MessageNext == CopyForMessages \/ (\E n \in Node : MessageDrops(n)) \/ MessagesDone

Next == OpenerNext \/ SocketNext \/ MessageNext

Spec == Init /\ [][Next]_vars

\* every thread goes on with its loop
Fairness ==
    /\ WF_vars(OpenerNext)
    /\ WF_vars(SocketNext)
    /\ WF_vars(CopyForMessages \/ MessagesDone)

FairSpec == Spec /\ Fairness

----------------------------------------------------------------------------
(* Properties. *)

(***************************************************************************)
(* A node that is in the copy of vNodes of the message thread or of the    *)
(* socket thread is not deleted, so neither of them, nor the CNodeState    *)
(* that FinalizeNode erases, is gone while a message of it is handled.     *)
(***************************************************************************)
HeldNodesLive == \A n \in socket.copy \cup message.copy : life[n] # "deleted"

(***************************************************************************)
(* A node that OpenNetworkConnection is setting up is not deleted before   *)
(* fNetworkNode is set.  Nothing holds it but the reference it was made    *)
(* with, which the socket thread gives back only after that.               *)
(***************************************************************************)
OpenedNodeLives == opener.pc \in {"connected", "moved"} => life[opener.node] # "deleted"

(***************************************************************************)
(* No node is gone while it is in a copy of vNodes, which holds its nodes  *)
(* by reference counts, or while the opening thread has not yet set        *)
(* fNetworkNode, which holds back the release of the first reference.  The *)
(* write of fOneShot after that is outside: see OneShotLive.               *)
(***************************************************************************)
NodesLive == HeldNodesLive /\ OpenedNodeLives

(***************************************************************************)
(* The node that OpenNetworkConnection still writes to when fOneShot is    *)
(* asked for (net.cpp:1377-1378) has not been deleted.  It may have been:  *)
(* from the assignment of fNetworkNode on, the socket thread may release   *)
(* the first reference, and nothing else holds the node for this thread.   *)
(***************************************************************************)
OneShotLive == opener.pc = "oneShot" => life[opener.node] # "deleted"

HasGrant == IF opener.pc \in {"granted", "connected"} THEN 1 ELSE 0

(***************************************************************************)
(* Every slot of semOutbound is free, held by the opening thread, or held  *)
(* by one node, whichever thread meets the grant first when a connection   *)
(* breaks while it is being set up: none is given back twice, and none is  *)
(* without an owner.  (A node that is never deleted keeps its slot.)       *)
(***************************************************************************)
SlotsConserved == slots + HasGrant + Cardinality({n \in Node : grant[n]}) = Outbound

(***************************************************************************)
(* There are never more than MAX_OUTBOUND_CONNECTIONS outbound connections *)
(* that the semaphore accounts for, the one being set up included.         *)
(***************************************************************************)
OutboundBounded == Cardinality({n \in In("vNodes") : ~inbound[n]}) <= Outbound

(***************************************************************************)
(* Outbound connections and the slots of semOutbound go together, in every *)
(* order in which the three threads meet a connection that breaks.         *)
(***************************************************************************)
SlotsKept == TypeOK /\ SlotsConserved /\ OutboundBounded

(***************************************************************************)
(* An inbound node, or an outbound one that was set up before its          *)
(* connection broke, is deleted once it is to be disconnected.             *)
(***************************************************************************)
DroppedNodesDeleted ==
    \A n \in Node : (life[n] = "vNodes" /\ drop[n] /\ (inbound[n] \/ network[n]))
                    ~> (life[n] = "deleted")

(***************************************************************************)
(* "hold in disconnected pool until all refs are released" (net.cpp:694).  *)
(* Without the restriction to nodes that were set up this fails: if the    *)
(* socket thread disconnects an outbound node before fNetworkNode is set,  *)
(* the reference it was made with is never released, and a grant that is   *)
(* moved into it afterwards is lost.                                       *)
(***************************************************************************)
AllDroppedDeleted ==
    \A n \in Node : (life[n] = "vNodes" /\ drop[n]) ~> (life[n] = "deleted")
===============================================================================
