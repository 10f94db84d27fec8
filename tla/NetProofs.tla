------------------------------- MODULE NetProofs -------------------------------
(***************************************************************************)
(* Proofs about the two parts of the network layer.                        *)
(*                                                                         *)
(* NodeLifecycle, for every set of nodes, which need not be finite, and    *)
(* every size of semOutbound.  Reference counts are exact: a node has one  *)
(* reference for each copy of vNodes it is in, and the one it was made     *)
(* with until the socket thread releases that (RefsCounted).  It does not  *)
(* release it for a node that is being set up, which has neither           *)
(* fNetworkNode nor fInbound (OpenerHolds).  An outbound connection has    *)
(* its grant, or the thread that opens it still has (OutboundGranted).     *)
(*                                                                         *)
(* AddrMan, for every set of addresses and sources, every size of both     *)
(* tables and all hash functions: an operation is a composition of small   *)
(* steps, each of which keeps the tables, the counts and the indexes in    *)
(* agreement (Near), and loading what was saved gives the tables back      *)
(* under another numbering of the entries (RoundTrip).                     *)
(***************************************************************************)
EXTENDS NodeLifecycle, AddrMan, FiniteSetTheorems, WellFoundedInduction, TLAPS

----------------------------------------------------------------------------
(* The inductive invariant *)

\* How many copies of vNodes hold the node by a reference.
Copies(n) == (IF n \in socket.copy THEN 1 ELSE 0) + (IF n \in message.copy THEN 1 ELSE 0)

\* The node between ConnectNode and the assignment to fNetworkNode.
SettingUp(n) == opener.pc \in {"connected", "moved"} /\ n = opener.node

\* A node in the middle of the first block of the loop has cs_vNodes locked.
Closing ==
    /\ \A n \in Node : life[n] = "closing" <=> socket.node = n
    /\ socket.node # None => socket.pc = "disconnect"

\* A thread has a copy of vNodes only while it works on it.
CopiesInUse ==
    /\ socket.copy # {} => socket.pc = "serve"
    /\ message.copy # {} => message.pc = "work"

\* nRefCount: the first reference, while it is not released, and one for each copy.
RefsCounted == \A n \in Node :
    /\ life[n] = "none" => Copies(n) = 0 /\ ~inbound[n] /\ ~network[n] /\ ~grant[n]
    /\ life[n] \in {"vNodes", "closing"} => refs[n] = Copies(n) + 1
    /\ life[n] = "disconnected" => refs[n] \in {Copies(n), Copies(n) + 1}
    /\ life[n] = "deleted" => Copies(n) = 0

\* Nobody releases the first reference of a node that is being set up.
OpenerHolds == \A n \in Node : SettingUp(n) =>
    /\ life[n] \in {"vNodes", "closing", "disconnected"} /\ ~inbound[n] /\ ~network[n]
    /\ refs[n] = Copies(n) + 1
    /\ opener.pc = "connected" => ~grant[n]

OpenerNode == opener.pc \in {"connected", "moved"} => opener.node \in Node

Granted == {n \in Node : grant[n]}

\* An outbound connection has a grant, or ThreadOpenConnections still has it.
OutboundGranted == \A n \in Node :
    life[n] = "vNodes" /\ ~inbound[n] =>
        grant[n] \/ (opener.pc = "connected" /\ n = opener.node)

\* Every slot is accounted for; only finitely many can have been granted.
GrantsCounted == IsFiniteSet(Granted) /\ SlotsConserved

IInv == /\ TypeOK /\ Closing /\ CopiesInUse /\ RefsCounted /\ OpenerNode /\ OpenerHolds
        /\ GrantsCounted /\ OutboundGranted

----------------------------------------------------------------------------
(* Each action preserves the invariant. *)

LEMMA GrantedNumber ==
  ASSUME IInv
  PROVE  /\ IsFiniteSet(Granted) /\ Cardinality(Granted) \in Nat
         /\ HasGrant \in {0, 1} /\ slots \in Nat
         /\ slots + HasGrant + Cardinality(Granted) = Outbound
<1>1. IsFiniteSet(Granted) BY DEF IInv, GrantsCounted
<1>2. Cardinality(Granted) \in Nat BY <1>1, FS_CardinalityType
<1> QED BY <1>1, <1>2, NodeAssumption
        DEF IInv, GrantsCounted, SlotsConserved, Granted, HasGrant, TypeOK

LEMMA InitOK == Init => IInv
<1> SUFFICES ASSUME Init PROVE IInv OBVIOUS
<1> USE NodeAssumption, NoneAssumption DEF Init
<1>1. TypeOK BY DEF TypeOK
<1>2. Granted = {} /\ HasGrant = 0 BY DEF Granted, HasGrant
<1>3. GrantsCounted BY <1>2, FS_EmptySet DEF GrantsCounted, SlotsConserved, Granted
<1>4. Closing /\ CopiesInUse /\ RefsCounted
  BY DEF Closing, CopiesInUse, RefsCounted, Copies
<1>5. OpenerNode /\ OpenerHolds /\ OutboundGranted
  BY DEF OpenerNode, OpenerHolds, SettingUp, OutboundGranted
<1> QED BY <1>1, <1>3, <1>4, <1>5 DEF IInv

LEMMA AcquireOK == ASSUME IInv, Acquire PROVE IInv'
<1> USE NodeAssumption, NoneAssumption DEF IInv, Acquire, fields
<1>1. TypeOK' BY DEF TypeOK
<1>2. Closing' BY DEF TypeOK, Closing
<1>3. CopiesInUse' BY DEF TypeOK, CopiesInUse
<1>4. RefsCounted' BY DEF TypeOK, Copies, RefsCounted, Closing, CopiesInUse, OpenerNode
<1>5. OpenerNode' BY DEF TypeOK, OpenerNode
<1>6. OpenerHolds'
  BY DEF TypeOK, OpenerNode, OpenerHolds, SettingUp, Copies, CopiesInUse, RefsCounted, Closing
<1>7. GrantsCounted' BY DEF TypeOK, GrantsCounted, Granted, SlotsConserved, HasGrant
<1>8. OutboundGranted' BY DEF TypeOK, OutboundGranted
<1> QED BY <1>1, <1>2, <1>3, <1>4, <1>5, <1>6, <1>7, <1>8

LEMMA GiveUpOK == ASSUME IInv, GiveUp PROVE IInv'
<1> USE NodeAssumption, NoneAssumption DEF IInv, GiveUp, fields
<1>1. TypeOK'
  <2>1. slots' \in 0 .. Outbound BY GrantedNumber DEF TypeOK, HasGrant
  <2> QED BY <2>1 DEF TypeOK
<1>2. Closing' BY DEF TypeOK, Closing
<1>3. CopiesInUse' BY DEF TypeOK, CopiesInUse
<1>4. RefsCounted' BY DEF TypeOK, Copies, RefsCounted, Closing, CopiesInUse, OpenerNode
<1>5. OpenerNode' BY DEF TypeOK, OpenerNode
<1>6. OpenerHolds'
  BY DEF TypeOK, OpenerNode, OpenerHolds, SettingUp, Copies, CopiesInUse, RefsCounted, Closing
<1>7. GrantsCounted' BY DEF TypeOK, GrantsCounted, Granted, SlotsConserved, HasGrant
<1>8. OutboundGranted' BY DEF TypeOK, OutboundGranted
<1> QED BY <1>1, <1>2, <1>3, <1>4, <1>5, <1>6, <1>7, <1>8

LEMMA ConnectNodeOK == ASSUME IInv, NEW n \in Node, ConnectNode(n) PROVE IInv'
<1> USE NodeAssumption, NoneAssumption DEF IInv, ConnectNode, Free, fields
<1>1. TypeOK' BY DEF TypeOK
<1>2. Closing' BY DEF TypeOK, Closing
<1>3. CopiesInUse' BY DEF TypeOK, CopiesInUse
<1>4. RefsCounted' BY DEF TypeOK, Copies, RefsCounted, Closing, CopiesInUse, OpenerNode
<1>5. OpenerNode' BY DEF TypeOK, OpenerNode
<1>6. OpenerHolds'
  BY DEF TypeOK, OpenerNode, OpenerHolds, SettingUp, Copies, CopiesInUse, RefsCounted, Closing
<1>7. GrantsCounted' BY DEF TypeOK, GrantsCounted, Granted, SlotsConserved, HasGrant
<1>8. OutboundGranted' BY DEF TypeOK, OutboundGranted
<1> QED BY <1>1, <1>2, <1>3, <1>4, <1>5, <1>6, <1>7, <1>8

LEMMA MoveGrantOK == ASSUME IInv, MoveGrant PROVE IInv'
<1> USE NodeAssumption, NoneAssumption DEF IInv, MoveGrant, MoveTo, fields
<1>1. TypeOK' BY DEF TypeOK
<1>2. Closing' BY DEF TypeOK, Closing
<1>3. CopiesInUse' BY DEF TypeOK, CopiesInUse
<1>4. RefsCounted'
  <2>1. life[opener.node] # "none" BY DEF OpenerNode, OpenerHolds, SettingUp
  <2> QED BY <2>1 DEF TypeOK, Copies, RefsCounted
<1>5. OpenerNode' BY DEF TypeOK, OpenerNode
<1>6. OpenerHolds'
  BY DEF TypeOK, OpenerNode, OpenerHolds, SettingUp, Copies, CopiesInUse, RefsCounted, Closing
<1>7. GrantsCounted'
  <2>1. Granted' = Granted \cup {opener.node} /\ opener.node \notin Granted
    BY DEF TypeOK, Granted, OpenerNode, OpenerHolds, SettingUp
  <2>2. IsFiniteSet(Granted') /\ Cardinality(Granted') = Cardinality(Granted) + 1
    BY <2>1, FS_AddElement, GrantedNumber
  <2>3. HasGrant = 1 /\ HasGrant' = 0 BY DEF HasGrant, TypeOK
  <2> QED BY <2>2, <2>3, GrantedNumber DEF GrantsCounted, SlotsConserved, Granted, TypeOK
<1>8. OutboundGranted' BY DEF TypeOK, OutboundGranted
<1> QED BY <1>1, <1>2, <1>3, <1>4, <1>5, <1>6, <1>7, <1>8

LEMMA SetNetworkNodeOK == ASSUME IInv, SetNetworkNode PROVE IInv'
<1> USE NodeAssumption, NoneAssumption DEF IInv, SetNetworkNode, fields
<1>1. TypeOK'
  <2>1. network' \in [Node -> BOOLEAN] BY DEF TypeOK
  <2>2. opener' \in [pc : {"idle", "granted", "connected", "moved", "oneShot"},
                     node : Node \cup {None}]
    BY DEF TypeOK
  <2> QED BY <2>1, <2>2 DEF TypeOK
<1>2. Closing' BY DEF TypeOK, Closing
<1>3. CopiesInUse' BY DEF TypeOK, CopiesInUse
<1>4. RefsCounted'
  <2>1. life[opener.node] # "none" BY DEF OpenerNode, OpenerHolds, SettingUp
  <2> QED BY <2>1 DEF TypeOK, Copies, RefsCounted
<1>5. OpenerNode' BY DEF TypeOK, OpenerNode
<1>6. OpenerHolds'
  BY DEF TypeOK, OpenerNode, OpenerHolds, SettingUp, Copies, CopiesInUse, RefsCounted, Closing
<1>7. GrantsCounted' BY DEF TypeOK, GrantsCounted, Granted, SlotsConserved, HasGrant
<1>8. OutboundGranted' BY DEF TypeOK, OutboundGranted
<1> QED BY <1>1, <1>2, <1>3, <1>4, <1>5, <1>6, <1>7, <1>8

LEMMA SetOneShotOK == ASSUME IInv, SetOneShot PROVE IInv'
<1> USE NodeAssumption, NoneAssumption DEF IInv, SetOneShot, fields
<1>1. TypeOK' BY DEF TypeOK
<1>2. Closing' BY DEF TypeOK, Closing
<1>3. CopiesInUse' BY DEF TypeOK, CopiesInUse
<1>4. RefsCounted' BY DEF TypeOK, Copies, RefsCounted, Closing, CopiesInUse, OpenerNode
<1>5. OpenerNode' BY DEF TypeOK, OpenerNode
<1>6. OpenerHolds'
  BY DEF TypeOK, OpenerNode, OpenerHolds, SettingUp, Copies, CopiesInUse, RefsCounted, Closing
<1>7. GrantsCounted' BY DEF TypeOK, GrantsCounted, Granted, SlotsConserved, HasGrant
<1>8. OutboundGranted' BY DEF TypeOK, OutboundGranted
<1> QED BY <1>1, <1>2, <1>3, <1>4, <1>5, <1>6, <1>7, <1>8

LEMMA StartDisconnectOK == ASSUME IInv, NEW n \in Node, StartDisconnect(n) PROVE IInv'
<1> USE NodeAssumption, NoneAssumption DEF IInv, StartDisconnect, Free, ReleaseGrant, fields
<1>1. TypeOK'
  <2>1. Granted \subseteq Node /\ (n \in Granted <=> grant[n]) BY DEF Granted
  <2>2. n \in Granted => Cardinality(Granted) > 0 BY GrantedNumber, FS_EmptySet
  <2>3. slots' \in 0 .. Outbound BY <2>1, <2>2, GrantedNumber DEF TypeOK, HasGrant
  <2>4. grant' \in [Node -> BOOLEAN] /\ drop' \in [Node -> BOOLEAN] BY DEF TypeOK
  <2> QED BY <2>3, <2>4 DEF TypeOK
<1>2. Closing' BY DEF TypeOK, Closing
<1>3. CopiesInUse' BY DEF TypeOK, CopiesInUse
<1>4. RefsCounted' BY DEF TypeOK, Copies, RefsCounted, Closing, CopiesInUse, OpenerNode
<1>5. OpenerNode' BY DEF TypeOK, OpenerNode
<1>6. OpenerHolds'
  BY DEF TypeOK, OpenerNode, OpenerHolds, SettingUp, Copies, CopiesInUse, RefsCounted, Closing
<1>7. GrantsCounted'
  <2>1. Granted' = Granted \ {n} BY DEF TypeOK, Granted
  <2>2. IsFiniteSet(Granted') /\ Cardinality(Granted') =
           IF n \in Granted THEN Cardinality(Granted) - 1 ELSE Cardinality(Granted)
    BY <2>1, FS_RemoveElement, GrantedNumber
  <2>3. HasGrant' = HasGrant BY DEF HasGrant
  <2>4. slots' + HasGrant' + Cardinality(Granted') = Outbound
    BY <2>2, <2>3, GrantedNumber DEF TypeOK, Granted
  <2> QED BY <2>2, <2>4 DEF GrantsCounted, SlotsConserved, Granted
<1>8. OutboundGranted' BY DEF TypeOK, OutboundGranted
<1> QED BY <1>1, <1>2, <1>3, <1>4, <1>5, <1>6, <1>7, <1>8

LEMMA FinishDisconnectOK == ASSUME IInv, FinishDisconnect PROVE IInv'
<1> USE NodeAssumption, NoneAssumption DEF IInv, FinishDisconnect, Free, CountedIn, Releases, fields
<1>1. TypeOK'
  <2>1. socket.node \in Node /\ life[socket.node] = "closing" BY DEF TypeOK, Closing
  <2>2. refs' \in [Node -> Nat] BY <2>1 DEF TypeOK, RefsCounted, Copies
  <2> QED BY <2>1, <2>2 DEF TypeOK
<1>2. Closing' BY DEF TypeOK, Closing
<1>3. CopiesInUse' BY DEF TypeOK, CopiesInUse
<1>4. RefsCounted' BY DEF TypeOK, Copies, RefsCounted, Closing, CopiesInUse, OpenerNode
<1>5. OpenerNode' BY DEF TypeOK, OpenerNode
<1>6. OpenerHolds'
  BY DEF TypeOK, OpenerNode, OpenerHolds, SettingUp, Copies, CopiesInUse, RefsCounted, Closing
<1>7. GrantsCounted' BY DEF TypeOK, GrantsCounted, Granted, SlotsConserved, HasGrant
<1>8. OutboundGranted' BY DEF TypeOK, OutboundGranted
<1> QED BY <1>1, <1>2, <1>3, <1>4, <1>5, <1>6, <1>7, <1>8

LEMMA DisconnectDoneOK == ASSUME IInv, DisconnectDone PROVE IInv'
<1> USE NodeAssumption, NoneAssumption DEF IInv, DisconnectDone, Free, fields
<1>1. TypeOK' BY DEF TypeOK
<1>2. Closing' BY DEF TypeOK, Closing
<1>3. CopiesInUse' BY DEF TypeOK, CopiesInUse
<1>4. RefsCounted' BY DEF TypeOK, Copies, RefsCounted, Closing, CopiesInUse, OpenerNode
<1>5. OpenerNode' BY DEF TypeOK, OpenerNode
<1>6. OpenerHolds'
  BY DEF TypeOK, OpenerNode, OpenerHolds, SettingUp, Copies, CopiesInUse, RefsCounted, Closing
<1>7. GrantsCounted' BY DEF TypeOK, GrantsCounted, Granted, SlotsConserved, HasGrant
<1>8. OutboundGranted' BY DEF TypeOK, OutboundGranted
<1> QED BY <1>1, <1>2, <1>3, <1>4, <1>5, <1>6, <1>7, <1>8

LEMMA DeleteNodeOK == ASSUME IInv, NEW n \in Node, DeleteNode(n) PROVE IInv'
<1> USE NodeAssumption, NoneAssumption DEF IInv, DeleteNode, ReleaseGrant, Unused, fields
<1>1. TypeOK'
  <2>1. Granted \subseteq Node /\ (n \in Granted <=> grant[n]) BY DEF Granted
  <2>2. n \in Granted => Cardinality(Granted) > 0 BY GrantedNumber, FS_EmptySet
  <2>3. slots' \in 0 .. Outbound BY <2>1, <2>2, GrantedNumber DEF TypeOK, HasGrant
  <2>4. grant' \in [Node -> BOOLEAN] /\ drop' \in [Node -> BOOLEAN] BY DEF TypeOK
  <2> QED BY <2>3, <2>4 DEF TypeOK
<1>2. Closing' BY DEF TypeOK, Closing
<1>3. CopiesInUse' BY DEF TypeOK, CopiesInUse
<1>4. RefsCounted' BY DEF TypeOK, Copies, RefsCounted, Closing, CopiesInUse, OpenerNode
<1>5. OpenerNode' BY DEF TypeOK, OpenerNode
<1>6. OpenerHolds'
  BY DEF TypeOK, OpenerNode, OpenerHolds, SettingUp, Copies, CopiesInUse, RefsCounted, Closing
<1>7. GrantsCounted'
  <2>1. Granted' = Granted \ {n} BY DEF TypeOK, Granted
  <2>2. IsFiniteSet(Granted') /\ Cardinality(Granted') =
           IF n \in Granted THEN Cardinality(Granted) - 1 ELSE Cardinality(Granted)
    BY <2>1, FS_RemoveElement, GrantedNumber
  <2>3. HasGrant' = HasGrant BY DEF HasGrant
  <2>4. slots' + HasGrant' + Cardinality(Granted') = Outbound
    BY <2>2, <2>3, GrantedNumber DEF TypeOK, Granted
  <2> QED BY <2>2, <2>4 DEF GrantsCounted, SlotsConserved, Granted
<1>8. OutboundGranted' BY DEF TypeOK, OutboundGranted
<1> QED BY <1>1, <1>2, <1>3, <1>4, <1>5, <1>6, <1>7, <1>8

LEMMA DeleteDoneOK == ASSUME IInv, DeleteDone PROVE IInv'
<1> USE NodeAssumption, NoneAssumption DEF IInv, DeleteDone, fields
<1>1. TypeOK' BY DEF TypeOK
<1>2. Closing' BY DEF TypeOK, Closing
<1>3. CopiesInUse' BY DEF TypeOK, CopiesInUse
<1>4. RefsCounted' BY DEF TypeOK, Copies, RefsCounted, Closing, CopiesInUse, OpenerNode
<1>5. OpenerNode' BY DEF TypeOK, OpenerNode
<1>6. OpenerHolds'
  BY DEF TypeOK, OpenerNode, OpenerHolds, SettingUp, Copies, CopiesInUse, RefsCounted, Closing
<1>7. GrantsCounted' BY DEF TypeOK, GrantsCounted, Granted, SlotsConserved, HasGrant
<1>8. OutboundGranted' BY DEF TypeOK, OutboundGranted
<1> QED BY <1>1, <1>2, <1>3, <1>4, <1>5, <1>6, <1>7, <1>8

LEMMA AcceptOK == ASSUME IInv, NEW n \in Node, Accept(n) PROVE IInv'
<1> USE NodeAssumption, NoneAssumption DEF IInv, Accept, fields
<1>1. TypeOK' BY DEF TypeOK
<1>2. Closing' BY DEF TypeOK, Closing
<1>3. CopiesInUse' BY DEF TypeOK, CopiesInUse
<1>4. RefsCounted' BY DEF TypeOK, Copies, RefsCounted, Closing, CopiesInUse, OpenerNode
<1>5. OpenerNode' BY DEF TypeOK, OpenerNode
<1>6. OpenerHolds'
  BY DEF TypeOK, OpenerNode, OpenerHolds, SettingUp, Copies, CopiesInUse, RefsCounted, Closing
<1>7. GrantsCounted' BY DEF TypeOK, GrantsCounted, Granted, SlotsConserved, HasGrant
<1>8. OutboundGranted' BY DEF TypeOK, OutboundGranted
<1> QED BY <1>1, <1>2, <1>3, <1>4, <1>5, <1>6, <1>7, <1>8

LEMMA CopyForSocketsOK == ASSUME IInv, CopyForSockets PROVE IInv'
<1> USE NodeAssumption, NoneAssumption DEF IInv, CopyForSockets, AddRefs, In, fields
<1>1. TypeOK'
  <2>1. refs' \in [Node -> Nat] BY DEF TypeOK
  <2>2. socket' \in [pc : {"disconnect", "delete", "accept", "serve"}, copy : SUBSET Node,
                     node : Node \cup {None}]
    BY DEF TypeOK
  <2> QED BY <2>1, <2>2 DEF TypeOK
<1>2. Closing' BY DEF TypeOK, Closing
<1>3. CopiesInUse' BY DEF TypeOK, CopiesInUse
<1>4. RefsCounted' BY DEF TypeOK, Copies, RefsCounted, Closing, CopiesInUse, OpenerNode
<1>5. OpenerNode' BY DEF TypeOK, OpenerNode
<1>6. OpenerHolds'
  BY DEF TypeOK, OpenerNode, OpenerHolds, SettingUp, Copies, CopiesInUse, RefsCounted, Closing
<1>7. GrantsCounted' BY DEF TypeOK, GrantsCounted, Granted, SlotsConserved, HasGrant
<1>8. OutboundGranted' BY DEF TypeOK, OutboundGranted
<1> QED BY <1>1, <1>2, <1>3, <1>4, <1>5, <1>6, <1>7, <1>8

LEMMA SocketDropsOK == ASSUME IInv, NEW n \in Node, SocketDrops(n) PROVE IInv'
<1> USE NodeAssumption, NoneAssumption DEF IInv, SocketDrops, fields
<1>1. TypeOK' BY DEF TypeOK
<1>2. Closing' BY DEF TypeOK, Closing
<1>3. CopiesInUse' BY DEF TypeOK, CopiesInUse
<1>4. RefsCounted' BY DEF TypeOK, Copies, RefsCounted, Closing, CopiesInUse, OpenerNode
<1>5. OpenerNode' BY DEF TypeOK, OpenerNode
<1>6. OpenerHolds'
  BY DEF TypeOK, OpenerNode, OpenerHolds, SettingUp, Copies, CopiesInUse, RefsCounted, Closing
<1>7. GrantsCounted' BY DEF TypeOK, GrantsCounted, Granted, SlotsConserved, HasGrant
<1>8. OutboundGranted' BY DEF TypeOK, OutboundGranted
<1> QED BY <1>1, <1>2, <1>3, <1>4, <1>5, <1>6, <1>7, <1>8

LEMMA ServeDoneOK == ASSUME IInv, ServeDone PROVE IInv'
<1> USE NodeAssumption, NoneAssumption DEF IInv, ServeDone, Releases, fields
<1>1. TypeOK'
  <2>1. \A n \in socket.copy : refs[n] - 1 \in Nat
    BY DEF TypeOK, RefsCounted, Copies
  <2>2. refs' \in [Node -> Nat] BY <2>1 DEF TypeOK
  <2> QED BY <2>2 DEF TypeOK
<1>2. Closing' BY DEF TypeOK, Closing
<1>3. CopiesInUse' BY DEF TypeOK, CopiesInUse
<1>4. RefsCounted' BY DEF TypeOK, Copies, RefsCounted, Closing, CopiesInUse, OpenerNode
<1>5. OpenerNode' BY DEF TypeOK, OpenerNode
<1>6. OpenerHolds'
  BY DEF TypeOK, OpenerNode, OpenerHolds, SettingUp, Copies, CopiesInUse, RefsCounted, Closing
<1>7. GrantsCounted' BY DEF TypeOK, GrantsCounted, Granted, SlotsConserved, HasGrant
<1>8. OutboundGranted' BY DEF TypeOK, OutboundGranted
<1> QED BY <1>1, <1>2, <1>3, <1>4, <1>5, <1>6, <1>7, <1>8

LEMMA CopyForMessagesOK == ASSUME IInv, CopyForMessages PROVE IInv'
<1> USE NodeAssumption, NoneAssumption DEF IInv, CopyForMessages, AddRefs, In, Free, fields
<1>1. TypeOK' BY DEF TypeOK
<1>2. Closing' BY DEF TypeOK, Closing
<1>3. CopiesInUse' BY DEF TypeOK, CopiesInUse
<1>4. RefsCounted' BY DEF TypeOK, Copies, RefsCounted, Closing, CopiesInUse, OpenerNode
<1>5. OpenerNode' BY DEF TypeOK, OpenerNode
<1>6. OpenerHolds'
  BY DEF TypeOK, OpenerNode, OpenerHolds, SettingUp, Copies, CopiesInUse, RefsCounted, Closing
<1>7. GrantsCounted' BY DEF TypeOK, GrantsCounted, Granted, SlotsConserved, HasGrant
<1>8. OutboundGranted' BY DEF TypeOK, OutboundGranted
<1> QED BY <1>1, <1>2, <1>3, <1>4, <1>5, <1>6, <1>7, <1>8

LEMMA MessageDropsOK == ASSUME IInv, NEW n \in Node, MessageDrops(n) PROVE IInv'
<1> USE NodeAssumption, NoneAssumption DEF IInv, MessageDrops, fields
<1>1. TypeOK' BY DEF TypeOK
<1>2. Closing' BY DEF TypeOK, Closing
<1>3. CopiesInUse' BY DEF TypeOK, CopiesInUse
<1>4. RefsCounted' BY DEF TypeOK, Copies, RefsCounted, Closing, CopiesInUse, OpenerNode
<1>5. OpenerNode' BY DEF TypeOK, OpenerNode
<1>6. OpenerHolds'
  BY DEF TypeOK, OpenerNode, OpenerHolds, SettingUp, Copies, CopiesInUse, RefsCounted, Closing
<1>7. GrantsCounted' BY DEF TypeOK, GrantsCounted, Granted, SlotsConserved, HasGrant
<1>8. OutboundGranted' BY DEF TypeOK, OutboundGranted
<1> QED BY <1>1, <1>2, <1>3, <1>4, <1>5, <1>6, <1>7, <1>8

LEMMA MessagesDoneOK == ASSUME IInv, MessagesDone PROVE IInv'
<1> USE NodeAssumption, NoneAssumption DEF IInv, MessagesDone, ReleaseCopy, Releases, Free, fields
<1>1. TypeOK'
  <2>1. \A n \in message.copy : refs[n] - 1 \in Nat
    BY DEF TypeOK, RefsCounted, Copies
  <2>2. refs' \in [Node -> Nat] BY <2>1 DEF TypeOK
  <2> QED BY <2>2 DEF TypeOK
<1>2. Closing' BY DEF TypeOK, Closing
<1>3. CopiesInUse' BY DEF TypeOK, CopiesInUse
<1>4. RefsCounted' BY DEF TypeOK, Copies, RefsCounted, Closing, CopiesInUse, OpenerNode
<1>5. OpenerNode' BY DEF TypeOK, OpenerNode
<1>6. OpenerHolds'
  BY DEF TypeOK, OpenerNode, OpenerHolds, SettingUp, Copies, CopiesInUse, RefsCounted, Closing
<1>7. GrantsCounted' BY DEF TypeOK, GrantsCounted, Granted, SlotsConserved, HasGrant
<1>8. OutboundGranted' BY DEF TypeOK, OutboundGranted
<1> QED BY <1>1, <1>2, <1>3, <1>4, <1>5, <1>6, <1>7, <1>8

LEMMA NextOK == IInv /\ [Next]_vars => IInv'
<1> SUFFICES ASSUME IInv, [Next]_vars PROVE IInv' OBVIOUS
<1>1. CASE UNCHANGED vars
  <2> USE <1>1 DEF vars, fields
  <2>1. TypeOK' /\ Closing' /\ CopiesInUse' BY DEF IInv, TypeOK, Closing, CopiesInUse
  <2>2. RefsCounted' /\ OpenerNode' /\ OpenerHolds'
    BY DEF IInv, RefsCounted, Copies, OpenerNode, OpenerHolds, SettingUp
  <2>3. GrantsCounted' /\ OutboundGranted'
    BY DEF IInv, GrantsCounted, Granted, SlotsConserved, HasGrant, OutboundGranted
  <2> QED BY <2>1, <2>2, <2>3 DEF IInv
<1>2. CASE OpenerNext
  BY <1>2, AcquireOK, GiveUpOK, ConnectNodeOK, MoveGrantOK, SetNetworkNodeOK, SetOneShotOK
     DEF OpenerNext
<1>3. CASE SocketNext
  BY <1>3, StartDisconnectOK, FinishDisconnectOK, DisconnectDoneOK, DeleteNodeOK, DeleteDoneOK,
     AcceptOK, CopyForSocketsOK, SocketDropsOK, ServeDoneOK DEF SocketNext
<1>4. CASE MessageNext
  BY <1>4, CopyForMessagesOK, MessageDropsOK, MessagesDoneOK DEF MessageNext
<1> QED BY <1>1, <1>2, <1>3, <1>4 DEF Next

----------------------------------------------------------------------------
(* The theorems *)

(***************************************************************************)
(* Reference counts, grants and the fields of the three threads of net.cpp *)
(* agree in every state.                                                   *)
(***************************************************************************)
THEOREM NodeInvariant == Spec => []IInv
  BY InitOK, NextOK, PTL DEF Spec

(***************************************************************************)
(* ThreadSocketHandler deletes no node that its own copy of vNodes or that *)
(* of ThreadMessageHandler holds, nor one for which OpenNetworkConnection  *)
(* has not yet set fNetworkNode.  After that assignment the opening thread *)
(* may write fOneShot to a deleted node: OneShotLive does not hold.        *)
(***************************************************************************)
THEOREM NodesAlwaysLive == Spec => []NodesLive
<1>1. IInv => NodesLive
  <2> SUFFICES ASSUME IInv PROVE NodesLive OBVIOUS
  <2>1. HeldNodesLive BY DEF IInv, TypeOK, HeldNodesLive, RefsCounted, Copies
  <2>2. OpenedNodeLives BY DEF IInv, OpenedNodeLives, OpenerNode, OpenerHolds, SettingUp
  <2> QED BY <2>1, <2>2 DEF NodesLive
<1> QED BY <1>1, NodeInvariant, PTL

(***************************************************************************)
(* No slot of semOutbound is lost without an owner or given back twice,    *)
(* and there are never more outbound connections than slots, however the   *)
(* threads interleave while connections are set up and break.              *)
(***************************************************************************)
THEOREM SlotsAlwaysKept == Spec => []SlotsKept
<1>1. IInv => SlotsKept
  <2> SUFFICES ASSUME IInv PROVE SlotsKept OBVIOUS
  <2> DEFINE Out == {n \in In("vNodes") : ~inbound[n]}
  <2>1. Cardinality(Out) <= Outbound
    <3>1. CASE opener.pc = "connected"
      <4>1. Out \subseteq Granted \cup {opener.node}
        BY DEF IInv, OutboundGranted, Granted, In
      <4>2. /\ IsFiniteSet(Granted \cup {opener.node})
            /\ Cardinality(Granted \cup {opener.node}) <= Cardinality(Granted) + 1
        BY GrantedNumber, FS_AddElement
      <4>3. /\ Cardinality(Out) <= Cardinality(Granted \cup {opener.node})
            /\ Cardinality(Out) \in Nat
        BY <4>1, <4>2, FS_Subset, FS_CardinalityType
      <4>4. Cardinality(Granted \cup {opener.node}) \in Nat BY <4>2, FS_CardinalityType
      <4>5. HasGrant = 1 BY <3>1 DEF HasGrant
      <4> QED BY <4>2, <4>3, <4>4, <4>5, GrantedNumber, NodeAssumption
    <3>2. CASE opener.pc # "connected"
      <4>1. Out \subseteq Granted BY <3>2 DEF IInv, OutboundGranted, Granted, In
      <4>2. Cardinality(Out) <= Cardinality(Granted) /\ Cardinality(Out) \in Nat
        BY <4>1, GrantedNumber, FS_Subset, FS_CardinalityType
      <4> QED BY <4>2, GrantedNumber, NodeAssumption
    <3> QED BY <3>1, <3>2
  <2> QED BY <2>1 DEF IInv, GrantsCounted, SlotsKept, OutboundBounded
<1> QED BY <1>1, NodeInvariant, PTL

----------------------------------------------------------------------------
(* Induction, and what a fold is.  The library's induction theorems take a *)
(* predicate; these take the set of the numbers that satisfy it.           *)

LEMMA LeastNat ==
    ASSUME NEW T, T \subseteq Nat, T # {}
    PROVE  \E n \in T : \A m \in T : n <= m
<1>1. PICK x \in T : \A y \in T : ~(<<y, x>> \in OpToRel(<, Nat))
  BY NatLessThanWellFounded, WFMin
<1>2. \A y \in T : y < x => <<y, x>> \in OpToRel(<, Nat)
  BY DEF OpToRel
<1>3. \A y \in T : ~(y < x)
  BY <1>1, <1>2
<1>q. QED  BY <1>3

LEMMA Induction ==
    ASSUME NEW T, 0 \in T, \A n \in Nat : n \in T => n + 1 \in T
    PROVE  Nat \subseteq T
<1> SUFFICES ASSUME Nat \ T # {} PROVE FALSE
  OBVIOUS
<1>1. PICK n \in Nat \ T : \A m \in Nat \ T : n <= m
  BY LeastNat
<1>2. n # 0
  BY <1>1
<1>3. n - 1 \in Nat /\ n - 1 \notin Nat \ T
  BY <1>1, <1>2
<1>q. QED  BY <1>1, <1>3

\* the same up to a bound
LEMMA InductionTo ==
    ASSUME NEW N \in Nat, NEW T, 0 \in T, \A k \in 1 .. N : k - 1 \in T => k \in T
    PROVE  \A k \in 0 .. N : k \in T
<1> DEFINE U == {n \in Nat : n <= N => n \in T}
<1>1. 0 \in U
  OBVIOUS
<1>2. \A n \in Nat : n \in U => n + 1 \in U
  <2> SUFFICES ASSUME NEW n \in Nat, n \in U, n + 1 <= N PROVE n + 1 \in T
    OBVIOUS
  <2>1. n + 1 \in 1 .. N /\ (n + 1) - 1 = n /\ n \in T
    OBVIOUS
  <2>q. QED  BY <2>1
<1> HIDE DEF U
<1>3. Nat \subseteq U
  BY <1>1, <1>2, Induction
<1>q. QED  BY <1>3 DEF U

LEMMA MaxOf ==
    ASSUME NEW S, S \subseteq Nat, S # {}, NEW b \in Nat, \A x \in S : x <= b
    PROVE  Max(S) \in S /\ \A x \in S : Max(S) >= x
<1> DEFINE U == {m \in Nat : \A x \in S : x <= m}
<1>1. PICK m \in U : \A k \in U : m <= k
  <2>1. b \in U /\ U \subseteq Nat
    OBVIOUS
  <2> HIDE DEF U
  <2>q. QED  BY <2>1, LeastNat
<1>2. m \in S
  <2> SUFFICES ASSUME m \notin S PROVE FALSE
    OBVIOUS
  <2>1. \A x \in S : x <= m - 1
    BY <1>1
  <2>2. PICK x \in S : TRUE
    OBVIOUS
  <2>3. m - 1 \in Nat
    BY <1>1, <2>1, <2>2
  <2>q. QED  BY <1>1, <2>1, <2>3
<1>3. \A x \in S : m >= x
  BY <1>1
<1>q. QED  BY <1>2, <1>3 DEF Max

LEMMA MaxTo ==
    ASSUME NEW n \in Nat, NEW s \in SUBSET (1 .. n), s # {}
    PROVE  Max(s) \in s
<1>1. s \subseteq Nat /\ \A x \in s : x <= n
  OBVIOUS
<1>q. QED  BY <1>1, MaxOf

LEMMA MaxInterval ==
    ASSUME NEW k \in Nat, k # 0
    PROVE  Max(1 .. k) = k /\ (1 .. k) \ {k} = 1 .. (k - 1)
<1>1. Max(1 .. k) \in 1 .. k /\ \A x \in 1 .. k : Max(1 .. k) >= x
  <2>1. 1 .. k \subseteq Nat /\ k \in 1 .. k /\ \A x \in 1 .. k : x <= k
    OBVIOUS
  <2>q. QED  BY <2>1, MaxOf
<1>q. QED  BY <1>1

(***************************************************************************)
(* A recursion over the subsets of a finite set that takes one element     *)
(* away at a time has a solution.  A stands for the values it runs         *)
(* through, step for the operator that is folded.                          *)
(***************************************************************************)
Picks(pick, D) == \A s \in SUBSET D : s # {} => pick[s] \in s
Closed(step, A, D) == \A a \in A, x \in D : step[<<a, x>>] \in A
Solves(g, base, pick, step, D) ==
    \A s \in SUBSET D : g[s] = IF s = {} THEN base ELSE step[<<g[s \ {pick[s]}], pick[s]>>]

LEMMA SubsetRecursion ==
    ASSUME NEW D, IsFiniteSet(D), NEW A, NEW base \in A,
           NEW pick, Picks(pick, D), NEW step, Closed(step, A, D)
    PROVE  \E g \in [SUBSET D -> A] : Solves(g, base, pick, step, D)
<1> USE DEF Picks, Closed, Solves
<1> DEFINE Rhs(g, s) == IF s = {} THEN base ELSE step[<<g[s \ {pick[s]}], pick[s]>>]
           Upto(g, m) == \A s \in SUBSET D : Cardinality(s) <= m => g[s] = Rhs(g, s)
           T == {m \in Nat : \E g \in [SUBSET D -> A] : Upto(g, m)}
<1>0. \A s \in SUBSET D : IsFiniteSet(s) /\ Cardinality(s) \in Nat
  BY FS_Subset, FS_CardinalityType
<1>1. 0 \in T
  <2> DEFINE g == [s \in SUBSET D |-> base]
  <2>1. g \in [SUBSET D -> A]
    OBVIOUS
  <2>2. \A s \in SUBSET D : Cardinality(s) <= 0 => s = {}
    <3> SUFFICES ASSUME NEW s \in SUBSET D, Cardinality(s) <= 0 PROVE s = {}
      OBVIOUS
    <3>1. Cardinality(s) = 0
      BY <1>0
    <3>q. QED  BY <1>0, <3>1, FS_EmptySet
  <2>3. Upto(g, 0)
    BY <2>2
  <2>q. QED  BY <2>1, <2>3
<1>2. ASSUME NEW m \in Nat, m \in T PROVE m + 1 \in T
  <2>1. PICK f \in [SUBSET D -> A] : Upto(f, m)
    BY <1>2
  <2> DEFINE g == [s \in SUBSET D |-> Rhs(f, s)]
  <2>2. g \in [SUBSET D -> A]
    <3> SUFFICES ASSUME NEW s \in SUBSET D PROVE Rhs(f, s) \in A
      OBVIOUS
    <3>1. CASE s = {}
      BY <3>1
    <3>2. CASE s # {}
      <4>1. pick[s] \in D /\ s \ {pick[s]} \in SUBSET D
        BY <3>2
      <4>2. f[s \ {pick[s]}] \in A
        BY <4>1
      <4>q. QED  BY <3>2, <4>1, <4>2
    <3>q. QED  BY <3>1, <3>2
  <2>3. Upto(g, m + 1)
    <3> SUFFICES ASSUME NEW s \in SUBSET D, Cardinality(s) <= m + 1, s # {}
                 PROVE  f[s \ {pick[s]}] = g[s \ {pick[s]}]
      OBVIOUS
    <3> DEFINE r == s \ {pick[s]}
    <3>1. r \in SUBSET D /\ Cardinality(r) = Cardinality(s) - 1
      BY <1>0, FS_RemoveElement
    <3>2. Cardinality(r) <= m
      BY <1>0, <3>1
    <3> HIDE DEF r
    <3>3. f[r] = Rhs(f, r)
      BY <2>1, <3>1, <3>2
    <3>4. g[r] = Rhs(f, r)
      BY <3>1
    <3>q. QED  BY <3>3, <3>4 DEF r
  <2> HIDE DEF g, Upto
  <2>q. QED  BY <2>2, <2>3
<1> HIDE DEF T
<1>3. Cardinality(D) \in T
  BY <1>0, <1>1, <1>2, Induction
<1>4. PICK g \in [SUBSET D -> A] : Upto(g, Cardinality(D))
  BY <1>3 DEF T
<1>5. \A s \in SUBSET D : Cardinality(s) <= Cardinality(D)
  BY FS_Subset
<1>q. QED  BY <1>4, <1>5

\* the same over the positions of a sequence, the last one first
StepOn(step, A, n) == DOMAIN step = A \X (1 .. n) /\ Closed(step, A, 1 .. n)
SolvesTo(g, base, step, n) ==
    \A s \in SUBSET (1 .. n) : g[s] = IF s = {} THEN base ELSE step[<<g[s \ {Max(s)}], Max(s)>>]

LEMMA SequenceRecursion ==
    ASSUME NEW n \in Nat, NEW A, NEW base \in A, NEW step, StepOn(step, A, n)
    PROVE  \E g \in [SUBSET (1 .. n) -> A] : SolvesTo(g, base, step, n)
<1> DEFINE D == 1 .. n
           pick == [s \in SUBSET D |-> Max(s)]
<1>1. Picks(pick, D)
  BY MaxTo DEF Picks
<1>2. IsFiniteSet(D)
  BY FS_Interval, 1 \in Int, n \in Int
<1>3. \A s \in SUBSET D : pick[s] = Max(s)
  OBVIOUS
<1> HIDE DEF pick, D
<1>4. PICK g \in [SUBSET D -> A] : Solves(g, base, pick, step, D)
  BY <1>1, <1>2, SubsetRecursion DEF D, StepOn
<1>q. QED  BY <1>3, <1>4 DEF D, Solves, SolvesTo

\* the values of a fold after each element
Runs(h, base, step, A, n) ==
    /\ h \in [0 .. n -> A] /\ h[0] = base
    /\ \A k \in 1 .. n : h[k] = step[<<h[k - 1], k>>]

Unrolls(f, base, step, n) ==
    /\ f[{}] = base
    /\ \A s \in SUBSET (1 .. n) : s # {} /\ <<f[s \ {Max(s)}], Max(s)>> \in DOMAIN step =>
          f[s] = step[<<f[s \ {Max(s)}], Max(s)>>]

LEMMA Unrolled ==
    ASSUME NEW n \in Nat, NEW A, NEW base \in A, NEW step, StepOn(step, A, n),
           NEW f, Unrolls(f, base, step, n)
    PROVE  \E h : Runs(h, base, step, A, n) /\ h[n] = f[1 .. n]
<1> DEFINE T == {k \in 0 .. n : f[1 .. k] \in A}
<1>0. 1 .. 0 = {}
  OBVIOUS
<1>1. 0 \in T
  BY <1>0 DEF Unrolls
<1>2. ASSUME NEW k \in 1 .. n, f[1 .. (k - 1)] \in A
      PROVE  f[1 .. k] = step[<<f[1 .. (k - 1)], k>>]
  <2>1. 1 .. k \in SUBSET (1 .. n) /\ 1 .. k # {}
    BY k \in 1 .. k
  <2>2. Max(1 .. k) = k /\ (1 .. k) \ {Max(1 .. k)} = 1 .. (k - 1)
    BY MaxInterval
  <2>q. QED  BY <1>2, <2>1, <2>2 DEF Unrolls, StepOn
<1>3. ASSUME NEW k \in 1 .. n, k - 1 \in T PROVE k \in T
  <2>1. f[1 .. (k - 1)] \in A
    BY <1>3
  <2>2. f[1 .. k] = step[<<f[1 .. (k - 1)], k>>]
    BY <1>2, <2>1
  <2>3. step[<<f[1 .. (k - 1)], k>>] \in A
    BY <2>1 DEF Closed, StepOn
  <2>q. QED  BY <2>2, <2>3
<1> HIDE DEF T
<1>4. \A k \in 0 .. n : k \in T
  BY <1>1, <1>3, InductionTo
<1> DEFINE h == [k \in 0 .. n |-> f[1 .. k]]
<1>5. \A k \in 0 .. n : h[k] = f[1 .. k] /\ h[k] \in A
  BY <1>4 DEF T
<1>6. h \in [0 .. n -> A] /\ h[n] = f[1 .. n]
  BY <1>5
<1>7. h[0] = base
  BY <1>0, <1>5 DEF Unrolls
<1>8. \A k \in 1 .. n : h[k] = step[<<h[k - 1], k>>]
  BY <1>2, <1>5
<1> HIDE DEF h
<1>q. QED  BY <1>6, <1>7, <1>8 DEF Runs

\* Nth counts through a finite set of numbers
LEMMA NthCounts ==
  ASSUME NEW S \in SUBSET Nat, IsFiniteSet(S)
  PROVE  /\ Cardinality(S) \in Nat
         /\ \A i \in 1 .. Cardinality(S) :
               Nth(S, i) \in S /\ Cardinality({j \in S : j < Nth(S, i)}) = i - 1
         /\ \A h \in S : \E i \in 1 .. Cardinality(S) : Nth(S, i) = h
<1> DEFINE below(h) == {j \in S : j < h}
           n == Cardinality(S)
           rank == [h \in S |-> Cardinality(below(h)) + 1]
<1>n. n \in Nat BY FS_CardinalityType
<1>1. \A h \in S : IsFiniteSet(below(h)) /\ Cardinality(below(h)) \in Nat
  <2> TAKE h \in S
  <2>1. below(h) \in SUBSET S OBVIOUS
  <2>2. IsFiniteSet(below(h)) BY <2>1, FS_Subset
  <2> QED BY <2>2, FS_CardinalityType
<1>2. ASSUME NEW h \in S PROVE Cardinality(below(h)) + 1 \in 1 .. n
  <2>1. below(h) \in SUBSET (S \ {h}) OBVIOUS
  <2>2. IsFiniteSet(S \ {h}) /\ Cardinality(S \ {h}) = n - 1 BY FS_RemoveElement
  <2>3. Cardinality(below(h)) <= n - 1 BY <2>1, <2>2, FS_Subset
  <2> QED BY <2>3, <1>1, <1>n
<1>3. ASSUME NEW h \in S, NEW k \in S, h < k PROVE Cardinality(below(h)) < Cardinality(below(k))
  <2>0. h \in Nat /\ k \in Nat OBVIOUS
  <2>a. ASSUME NEW j \in below(h) PROVE j \in below(k)
    <3>1. j \in S /\ j \in Nat /\ j < h OBVIOUS
    <3> QED BY <3>1, <2>0, <1>3
  <2>b. h \in below(k) BY <1>3
  <2>c. h \notin below(h)
    <3>1. ~(h < h) BY <2>0
    <3> QED BY <3>1
  <2>1. below(h) \in SUBSET below(k) /\ h \in below(k) /\ h \notin below(h) BY <2>a, <2>b, <2>c
  <2>2. Cardinality(below(h)) <= Cardinality(below(k)) BY <2>1, <1>1, FS_Subset
  <2>3. Cardinality(below(h)) # Cardinality(below(k)) BY <2>1, <1>1, FS_Subset
  <2> QED BY <2>2, <2>3, <1>1
<1>4. rank \in Injection(S, 1 .. n)
  <2>1. rank \in [S -> 1 .. n] BY <1>2
  <2>2. ASSUME NEW h \in S, NEW k \in S, h # k PROVE rank[h] # rank[k]
    <3>1. h < k \/ k < h BY <2>2
    <3> HIDE DEF below
    <3> QED BY <3>1, <1>3, <1>1
  <2> QED BY <2>1, <2>2 DEF Injection, IsInjective
<1>5. IsFiniteSet(1 .. n) /\ Cardinality(1 .. n) = n BY <1>n, FS_Interval
<1>6. rank \in Surjection(S, 1 .. n) BY <1>4, <1>5, FS_Injection
<1>7. ASSUME NEW i \in 1 .. n PROVE Nth(S, i) \in S /\ Cardinality(below(Nth(S, i))) = i - 1
  <2>1. PICK h \in S : rank[h] = i BY <1>6 DEF Surjection
  <2>2. Cardinality(below(h)) = i - 1 BY <2>1, <1>1, <1>n
  <2> QED BY <2>2 DEF Nth
<1>8. ASSUME NEW h \in S PROVE \E i \in 1 .. n : Nth(S, i) = h
  <2>1. rank[h] \in 1 .. n BY <1>2
  <2>2. Nth(S, rank[h]) \in S /\ Cardinality(below(Nth(S, rank[h]))) = rank[h] - 1 BY <2>1, <1>7
  <2>3. Cardinality(below(Nth(S, rank[h]))) = Cardinality(below(h)) BY <2>2, <1>1
  <2>4. Nth(S, rank[h]) = h
    <3> DEFINE k == Nth(S, rank[h])
    <3>0. k \in S /\ Cardinality(below(k)) = Cardinality(below(h)) BY <2>2, <2>3
    <3> HIDE DEF k
    <3>1. ~(k < h) /\ ~(h < k)
      <4> HIDE DEF below
      <4> QED BY <3>0, <1>3, <1>1
    <3>2. k \in Nat /\ h \in Nat BY <3>0
    <3>3. k = h BY <3>1, <3>2
    <3> QED BY <3>3 DEF k
  <2> QED BY <2>1, <2>4
<1> QED BY <1>n, <1>7, <1>8

----------------------------------------------------------------------------
(* The address manager.  Its operations go through states in which an      *)
(* entry is in neither table and the counters are ahead or behind.         *)

Fields == {"info", "addr", "random", "new", "tried", "nNew", "nTried", "ids"}
Whole(m) == DOMAIN m = Fields /\ m = [x \in DOMAIN m |-> m[x]]

Shaped(m) ==
    /\ Whole(m)
    /\ m.ids \in 0 .. MaxId
    /\ DOMAIN m.info \subseteq 0 .. (m.ids - 1)
    /\ m.info \in [DOMAIN m.info -> Info]
    /\ m.addr \in [Addr -> DOMAIN m.info \cup {Nobody}]
    /\ m.random \in Seq(DOMAIN m.info)
    /\ m.new \in [NewSlot -> DOMAIN m.info \cup {Nobody}]
    /\ m.tried \in [TriedSlot -> DOMAIN m.info \cup {Nobody}]
    /\ m.nNew \in Int /\ m.nTried \in Int

Places(new, i) == {s \in NewSlot : new[s] = i}

\* F: the entries that are in neither table
Referred(m, F) ==
    /\ F \subseteq DOMAIN m.info
    /\ \A i \in DOMAIN m.info :
          /\ m.info[i].ref = Cardinality(Places(m.new, i)) /\ m.info[i].ref <= MaxRefs
          /\ \A s \in Places(m.new, i) : s = Position(m.info[i].addr, s[1])
          /\ i \in F => m.info[i].ref = 0 /\ ~m.info[i].tried
          /\ i \notin F => m.info[i].tried \/ m.info[i].ref >= 1
          /\ m.info[i].tried => m.info[i].ref = 0

TriedPlaced(m) ==
    /\ \A i \in DOMAIN m.info : m.info[i].tried <=> m.tried[GetTriedSlot[m.info[i].addr]] = i
    /\ \A s \in TriedSlot : m.tried[s] # Nobody => GetTriedSlot[m.info[m.tried[s]].addr] = s

Indexed(m) ==
    /\ \A i \in DOMAIN m.info :
          /\ m.info[i].rnd \in DOMAIN m.random /\ m.random[m.info[i].rnd] = i
          /\ m.addr[m.info[i].addr] = i
    /\ \A p \in DOMAIN m.random : m.info[m.random[p]].rnd = p
    /\ \A a \in Addr : m.addr[a] # Nobody => m.info[m.addr[a]].addr = a
    /\ Len(m.random) = Cardinality(DOMAIN m.info)

\* entries that differ in nRandomPos only
Alike(e, f) == e.addr = f.addr /\ e.source = f.source /\ e.ref = f.ref /\ e.tried = f.tried

TriedIds(info) == {i \in DOMAIN info : info[i].tried}

Counted(m, d) ==
    /\ m.nTried = Cardinality(TriedIds(m.info))
    /\ m.nNew = Cardinality(DOMAIN m.info) - m.nTried + d

Near(m, F, d) == Shaped(m) /\ Referred(m, F) /\ TriedPlaced(m) /\ Indexed(m) /\ Counted(m, d)

LEMMA SlotsFinite == IsFiniteSet(NewSlot)
<1>1. Bucket \subseteq Nat /\ IsFiniteSet(Bucket) /\ Slots \in Nat
  BY AddrManAssumption
<1>2. IsFiniteSet(1 .. Slots)
  BY <1>1, FS_Interval
<1> QED  BY <1>1, <1>2, FS_Product DEF NewSlot

LEMMA PlacesNumber ==
    ASSUME NEW new, NEW i
    PROVE  IsFiniteSet(Places(new, i)) /\ Cardinality(Places(new, i)) \in Nat
<1>1. Places(new, i) \in SUBSET NewSlot
  BY DEF Places
<1>2. IsFiniteSet(Places(new, i))
  BY <1>1, SlotsFinite, FS_Subset
<1> QED  BY <1>2, FS_CardinalityType

\* an entry is put into a free slot
LEMMA PlacesMore ==
    ASSUME NEW new, DOMAIN new = NewSlot, NEW slot \in NewSlot, NEW i, new[slot] = Nobody, i # Nobody
    PROVE  LET put == [new EXCEPT ![slot] = i] IN
           /\ Places(put, i) = Places(new, i) \cup {slot}
           /\ Cardinality(Places(put, i)) = Cardinality(Places(new, i)) + 1
           /\ \A j : j # i /\ j # Nobody => Places(put, j) = Places(new, j)
<1> DEFINE put == [new EXCEPT ![slot] = i]
<1>1. Places(put, i) = Places(new, i) \cup {slot} /\ slot \notin Places(new, i)
  BY DEF Places
<1>2. Cardinality(Places(new, i) \cup {slot}) = Cardinality(Places(new, i)) + 1
  BY <1>1, PlacesNumber, FS_AddElement
<1>3. \A j : j # i /\ j # Nobody => Places(put, j) = Places(new, j)
  BY DEF Places
<1> QED  BY <1>1, <1>2, <1>3

\* a slot is cleared
LEMMA PlacesLess ==
    ASSUME NEW new, DOMAIN new = NewSlot, NEW slot \in NewSlot, NEW i, new[slot] = i, i # Nobody,
           NEW out, out = [new EXCEPT ![slot] = Nobody]
    PROVE  /\ Places(out, i) = Places(new, i) \ {slot}
           /\ Cardinality(Places(out, i)) = Cardinality(Places(new, i)) - 1
           /\ \A j : j # i /\ j # Nobody => Places(out, j) = Places(new, j)
<1>1. Places(out, i) = Places(new, i) \ {slot} /\ slot \in Places(new, i)
  BY DEF Places
<1>2. Cardinality(Places(new, i) \ {slot}) = Cardinality(Places(new, i)) - 1
  BY <1>1, PlacesNumber, FS_RemoveElement
<1>3. \A j : j # i /\ j # Nobody => Places(out, j) = Places(new, j)
  BY DEF Places
<1> QED  BY <1>1, <1>2, <1>3

LEMMA IdsFinite ==
    ASSUME NEW m, Shaped(m)
    PROVE  /\ IsFiniteSet(DOMAIN m.info) /\ Cardinality(DOMAIN m.info) \in Nat
           /\ Cardinality(DOMAIN m.info) <= MaxId
           /\ IsFiniteSet(TriedIds(m.info)) /\ Cardinality(TriedIds(m.info)) \in Nat
           /\ Cardinality(TriedIds(m.info)) <= Cardinality(DOMAIN m.info)
<1>1. MaxId \in Nat /\ m.ids \in 0 .. MaxId /\ DOMAIN m.info \subseteq 0 .. (MaxId - 1)
  BY AddrManAssumption DEF Shaped
<1>2. IsFiniteSet(0 .. (MaxId - 1)) /\ Cardinality(0 .. (MaxId - 1)) = MaxId
  <2>1. 0 \in Int /\ MaxId - 1 \in Int /\ (MaxId - 1) - 0 + 1 = MaxId
    BY <1>1
  <2>2. IsFiniteSet(0 .. (MaxId - 1))
    BY <2>1, FS_Interval
  <2>3. Cardinality(0 .. (MaxId - 1)) = IF 0 > MaxId - 1 THEN 0 ELSE (MaxId - 1) - 0 + 1
    BY <2>1, FS_Interval
  <2> QED  BY <1>1, <2>2, <2>3
<1>3. IsFiniteSet(DOMAIN m.info) /\ Cardinality(DOMAIN m.info) <= MaxId
  BY <1>1, <1>2, FS_Subset
<1>4. TriedIds(m.info) \in SUBSET (DOMAIN m.info)
  BY DEF TriedIds
<1>5. IsFiniteSet(TriedIds(m.info)) /\ Cardinality(TriedIds(m.info)) <= Cardinality(DOMAIN m.info)
  BY <1>3, <1>4, FS_Subset
<1> QED  BY <1>3, <1>5, FS_CardinalityType

LEMMA EntryChange ==
    ASSUME NEW e \in Info
    PROVE  /\ \A k \in Nat : LET f == [e EXCEPT !.rnd = k] IN f \in Info /\ f.rnd = k /\ Alike(f, e)
           /\ \A k \in Int : LET f == [e EXCEPT !.ref = k] IN
                 /\ f \in Info /\ f.ref = k /\ f.addr = e.addr /\ f.source = e.source
                 /\ f.tried = e.tried /\ f.rnd = e.rnd
           /\ \A k \in BOOLEAN : LET f == [e EXCEPT !.tried = k] IN
                 /\ f \in Info /\ f.tried = k /\ f.addr = e.addr /\ f.source = e.source
                 /\ f.ref = e.ref /\ f.rnd = e.rnd
  BY DEF Info, Alike

\* two places of vRandom are exchanged
LEMMA SwapKeeps ==
    ASSUME NEW m, NEW F, NEW d, Near(m, F, d), NEW p \in DOMAIN m.random, NEW q \in DOMAIN m.random
    PROVE  LET r == SwapRandom(m, p, q) IN
           /\ Near(r, F, d)
           /\ DOMAIN r.info = DOMAIN m.info /\ \A i \in DOMAIN m.info : Alike(r.info[i], m.info[i])
           /\ r.random[q] = m.random[p] /\ DOMAIN r.random = DOMAIN m.random
           /\ r.addr = m.addr /\ r.new = m.new /\ r.tried = m.tried
           /\ r.nNew = m.nNew /\ r.nTried = m.nTried /\ r.ids = m.ids
<1> DEFINE r == SwapRandom(m, p, q)
           x == m.random[p]
           y == m.random[q]
           info == [i \in DOMAIN m.info |-> IF i = x THEN [m.info[i] EXCEPT !.rnd = q]
                                            ELSE IF i = y THEN [m.info[i] EXCEPT !.rnd = p]
                                            ELSE m.info[i]]
           random == [m.random EXCEPT ![p] = y, ![q] = x]
<1>1. Whole(m) /\ m.info \in [DOMAIN m.info -> Info] /\ m.random \in Seq(DOMAIN m.info)
  BY DEF Near, Shaped
<1>3. /\ r.info = info /\ r.random = random /\ r.addr = m.addr /\ r.new = m.new /\ r.tried = m.tried
      /\ r.nNew = m.nNew /\ r.nTried = m.nTried /\ r.ids = m.ids /\ Whole(r)
  <2>1. r.random = random
    BY <1>1 DEF Whole, Fields, SwapRandom
  <2>2. r.info = info
    BY <1>1 DEF Whole, Fields, SwapRandom
  <2>3. /\ r.addr = m.addr /\ r.new = m.new /\ r.tried = m.tried
        /\ r.nNew = m.nNew /\ r.nTried = m.nTried /\ r.ids = m.ids
    BY <1>1 DEF Whole, Fields, SwapRandom
  <2>4. Whole(r)
    BY <1>1 DEF Whole, SwapRandom
  <2> QED  BY <2>1, <2>2, <2>3, <2>4
<1>4. x \in DOMAIN m.info /\ y \in DOMAIN m.info /\ p \in 1 .. Len(m.random) /\ q \in 1 .. Len(m.random)
  BY <1>1
<1>5. DOMAIN info = DOMAIN m.info /\ DOMAIN random = DOMAIN m.random
  BY <1>1
<1>8. random \in Seq(DOMAIN m.info) /\ Len(random) = Len(m.random)
  BY <1>1, <1>4
<1>9. random[q] = x /\ \A k \in DOMAIN m.random : random[k] = IF k = q THEN x ELSE IF k = p THEN y ELSE m.random[k]
  BY <1>1
<1>x. x = m.random[p] /\ y = m.random[q]
  OBVIOUS
<1>y. \A i \in DOMAIN m.info : info[i] = IF i = x THEN [m.info[i] EXCEPT !.rnd = q]
                                         ELSE IF i = y THEN [m.info[i] EXCEPT !.rnd = p] ELSE m.info[i]
  OBVIOUS
<1>z. info = [i \in DOMAIN m.info |-> info[i]]
  OBVIOUS
<1> HIDE DEF info, random, r, x, y
<1>6. ASSUME NEW i \in DOMAIN m.info
      PROVE  /\ info[i] \in Info /\ Alike(info[i], m.info[i])
             /\ info[i].rnd = IF i = x THEN q ELSE IF i = y THEN p ELSE m.info[i].rnd
  <2>0. m.info[i] \in Info /\ p \in Nat /\ q \in Nat
    BY <1>1, <1>4
  <2>1. CASE i = x
    <3>1. info[i] = [m.info[i] EXCEPT !.rnd = q]
      BY <2>1, <1>y
    <3> QED  BY <3>1, <2>0, <2>1, EntryChange
  <2>2. CASE i # x /\ i = y
    <3>1. info[i] = [m.info[i] EXCEPT !.rnd = p]
      BY <2>2, <1>y
    <3> QED  BY <3>1, <2>0, <2>2, EntryChange
  <2>3. CASE i # x /\ i # y
    <3>1. info[i] = m.info[i]
      BY <2>3, <1>y
    <3> QED  BY <3>1, <2>0, <2>3 DEF Alike
  <2> QED  BY <2>1, <2>2, <2>3
<1>10. Shaped(r)
  <2>1. info \in [DOMAIN m.info -> Info]
    BY <1>z, <1>6
  <2> QED  BY <2>1, <1>3, <1>5, <1>8 DEF Near, Shaped
<1>11. Referred(r, F)
  BY <1>3, <1>5, <1>6 DEF Near, Referred, Alike
<1>12. TriedPlaced(r)
  <2>1. \A s \in TriedSlot : m.tried[s] # Nobody => m.tried[s] \in DOMAIN m.info
    BY DEF Near, Shaped
  <2> QED  BY <2>1, <1>3, <1>5, <1>6 DEF Near, TriedPlaced, Alike
<1>13. Indexed(r)
  <2>1. /\ \A i \in DOMAIN m.info : m.info[i].rnd \in DOMAIN m.random /\ m.random[m.info[i].rnd] = i
        /\ \A k \in DOMAIN m.random : m.info[m.random[k]].rnd = k /\ m.random[k] \in DOMAIN m.info
    BY <1>1 DEF Near, Indexed
  <2>2. \A i \in DOMAIN m.info : info[i].rnd \in DOMAIN m.random /\ random[info[i].rnd] = i
    BY <2>1, <1>6, <1>9, <1>x
  <2>3. \A k \in DOMAIN m.random : info[random[k]].rnd = k
    <3> TAKE k \in DOMAIN m.random
    <3>1. CASE k = q
      BY <3>1, <1>4, <1>6, <1>9
    <3>2. CASE k # q /\ k = p
      <4>1. x # y
        BY <3>2, <2>1, <1>x
      <4> QED  BY <3>2, <4>1, <1>4, <1>6, <1>9
    <3>3. CASE k # q /\ k # p
      <4>1. m.random[k] # x /\ m.random[k] # y /\ random[k] = m.random[k]
        BY <3>3, <2>1, <1>x, <1>9
      <4> QED  BY <4>1, <2>1, <1>6
    <3> QED  BY <3>1, <3>2, <3>3
  <2>4. \A a \in Addr : m.addr[a] # Nobody => m.addr[a] \in DOMAIN m.info
    BY DEF Near, Shaped
  <2>5. \A i \in DOMAIN m.info : m.addr[m.info[i].addr] = i
    BY DEF Near, Indexed
  <2>6. \A a \in Addr : m.addr[a] # Nobody => m.info[m.addr[a]].addr = a
    BY DEF Near, Indexed
  <2>7. Len(m.random) = Cardinality(DOMAIN m.info)
    BY DEF Near, Indexed
  <2> QED  BY <2>2, <2>3, <2>4, <2>5, <2>6, <2>7, <1>3, <1>5, <1>6, <1>8 DEF Indexed, Alike
<1>14. Counted(r, d)
  <2>1. TriedIds(info) = TriedIds(m.info)
    BY <1>5, <1>6 DEF TriedIds, Alike
  <2> QED  BY <2>1, <1>3, <1>5 DEF Near, Counted
<1>15. Near(r, F, d)
  BY <1>10, <1>11, <1>12, <1>13, <1>14 DEF Near
<1>16. \A i \in DOMAIN m.info : Alike(r.info[i], m.info[i])
  BY <1>3, <1>6
<1> QED  BY <1>3, <1>5, <1>9, <1>x, <1>15, <1>16 DEF r

\* an entry that is in neither table is deleted
LEMMA DeleteKeeps ==
    ASSUME NEW m, NEW F, NEW d \in Int, Near(m, F, d), NEW i \in F
    PROVE  LET r == Delete(m, i) IN
           /\ Near(r, F \ {i}, d)
           /\ DOMAIN r.info = DOMAIN m.info \ {i}
           /\ \A j \in DOMAIN r.info : Alike(r.info[j], m.info[j])
           /\ r.addr = [m.addr EXCEPT ![m.info[i].addr] = Nobody]
           /\ r.new = m.new /\ r.tried = m.tried /\ r.nTried = m.nTried /\ r.ids = m.ids
<1> DEFINE s == SwapRandom(m, m.info[i].rnd, Len(m.random))
           r == Delete(m, i)
           n == Len(m.random)
           D == DOMAIN m.info \ {i}
           a == m.info[i].addr
<1>1. /\ i \in DOMAIN m.info /\ m.info[i] \in Info /\ m.random \in Seq(DOMAIN m.info)
      /\ m.info[i].ref = 0 /\ ~m.info[i].tried /\ m.info[i].rnd \in 1 .. n /\ m.random[m.info[i].rnd] = i
      /\ n \in Nat /\ DOMAIN m.random = 1 .. n /\ i # Nobody
  <2>1. i \in DOMAIN m.info /\ m.info[i].ref = 0 /\ ~m.info[i].tried
    BY DEF Near, Referred
  <2>2. m.info[i] \in Info /\ m.random \in Seq(DOMAIN m.info) /\ i # Nobody
    BY <2>1 DEF Near, Shaped, Nobody
  <2>3. n \in Nat /\ DOMAIN m.random = 1 .. n
    BY <2>2
  <2>4. m.info[i].rnd \in DOMAIN m.random /\ m.random[m.info[i].rnd] = i
    BY <2>1 DEF Near, Indexed
  <2> QED  BY <2>1, <2>2, <2>3, <2>4
<1>2. n \in DOMAIN m.random /\ m.info[i].rnd \in DOMAIN m.random
  BY <1>1
<1>3. /\ Near(s, F, d) /\ DOMAIN s.info = DOMAIN m.info
      /\ \A j \in DOMAIN m.info : Alike(s.info[j], m.info[j])
      /\ s.random[n] = i /\ DOMAIN s.random = 1 .. n
      /\ s.addr = m.addr /\ s.new = m.new /\ s.tried = m.tried
      /\ s.nNew = m.nNew /\ s.nTried = m.nTried /\ s.ids = m.ids
  BY <1>1, <1>2, SwapKeeps
<1>4. r = [s EXCEPT !.random = Front(@), !.addr[m.info[i].addr] = Nobody,
                    !.info = [j \in DOMAIN @ \ {i} |-> @[j]], !.nNew = @ - 1]
  BY DEF Delete
<1> HIDE DEF s, r
<1>5. Shaped(s) /\ Whole(s)
  BY <1>3 DEF Near, Shaped
<1>6. /\ r.random = Front(s.random) /\ r.addr = [m.addr EXCEPT ![a] = Nobody]
      /\ r.info = [j \in D |-> s.info[j]] /\ r.nNew = m.nNew - 1
      /\ r.new = m.new /\ r.tried = m.tried /\ r.nTried = m.nTried /\ r.ids = m.ids
  BY <1>3, <1>4, <1>5 DEF Whole, Fields
<1>7. Whole(r)
  BY <1>4, <1>5 DEF Whole
<1>8. /\ s.random \in Seq(DOMAIN m.info) /\ Len(s.random) = n
      /\ r.random = [k \in 1 .. (n - 1) |-> s.random[k]]
  BY <1>1, <1>2, <1>3, <1>5, <1>6 DEF Shaped, Front
<1>9. \A k \in 1 .. (n - 1) : r.random[k] = s.random[k] /\ s.random[k] \in D
  <2> TAKE k \in 1 .. (n - 1)
  <2>1. k \in 1 .. n /\ n \in 1 .. n /\ k # n
    BY <1>1, <1>2
  <2>2. s.random[k] # s.random[n]
    BY <2>1, <1>3 DEF Near, Indexed
  <2> QED  BY <2>1, <2>2, <1>1, <1>3, <1>8
<1>10. n - 1 \in Nat /\ r.random \in Seq(D) /\ Len(r.random) = n - 1 /\ DOMAIN r.random = 1 .. (n - 1)
  <2>1. n - 1 \in Nat
    BY <1>1, <1>2
  <2>2. r.random \in [1 .. (n - 1) -> D]
    BY <1>8, <1>9
  <2> QED  BY <2>1, <2>2
<1>11. \A j \in D : r.info[j] = s.info[j] /\ s.info[j] \in Info /\ Alike(r.info[j], m.info[j])
  BY <1>3, <1>5, <1>6 DEF Shaped
<1>12. DOMAIN r.info = D
  BY <1>6
<1>p. Places(m.new, i) = {}
  <2>1. Cardinality(Places(m.new, i)) = 0
    BY <1>1 DEF Near, Referred
  <2> QED  BY <2>1, PlacesNumber, FS_EmptySet
<1>13. Shaped(r)
  <2>1. r.info \in [D -> Info]
    BY <1>6, <1>11
  <2>2. r.addr \in [Addr -> D \cup {Nobody}]
    <3>1. m.addr \in [Addr -> DOMAIN m.info \cup {Nobody}]
      BY DEF Near, Shaped
    <3>2. \A b \in Addr : b # a => m.addr[b] # i
      BY <1>1 DEF Near, Indexed
    <3> QED  BY <1>6, <3>1, <3>2
  <2>3. r.new \in [NewSlot -> D \cup {Nobody}]
    BY <1>p, <1>6 DEF Near, Shaped, Places
  <2>4. r.tried \in [TriedSlot -> D \cup {Nobody}]
    <3>1. \A t \in TriedSlot : m.tried[t] # i
      BY <1>1 DEF Near, TriedPlaced
    <3> QED  BY <3>1, <1>6 DEF Near, Shaped
  <2>5. r.nNew \in Int /\ r.nTried \in Int /\ r.ids \in 0 .. MaxId /\ D \subseteq 0 .. (r.ids - 1)
    BY <1>6 DEF Near, Shaped
  <2> QED  BY <2>1, <2>2, <2>3, <2>4, <2>5, <1>7, <1>10, <1>12 DEF Shaped
<1>14. Referred(r, F \ {i})
  <2>1. \A j \in D : /\ r.info[j].addr = m.info[j].addr /\ r.info[j].ref = m.info[j].ref
                      /\ r.info[j].tried = m.info[j].tried
    BY <1>11 DEF Alike
  <2>2. Referred(m, F) /\ F \ {i} \subseteq D
    BY DEF Near, Referred
  <2> QED  BY <2>1, <2>2, <1>6, <1>12 DEF Referred
<1>15. TriedPlaced(r)
  <2>1. \A t \in TriedSlot : m.tried[t] # Nobody => m.tried[t] \in D
    BY <1>13, <1>6, <1>12 DEF Shaped
  <2>2. \A j \in D : r.info[j].addr = m.info[j].addr /\ r.info[j].tried = m.info[j].tried
    BY <1>11 DEF Alike
  <2>3. TriedPlaced(m)
    BY DEF Near
  <2>4. \A j \in D : r.info[j].tried <=> r.tried[GetTriedSlot[r.info[j].addr]] = j
    BY <2>2, <2>3, <1>6 DEF TriedPlaced
  <2>5. \A t \in TriedSlot : r.tried[t] # Nobody => GetTriedSlot[r.info[r.tried[t]].addr] = t
    <3> SUFFICES ASSUME NEW t \in TriedSlot, m.tried[t] # Nobody
                 PROVE  GetTriedSlot[r.info[m.tried[t]].addr] = t
      BY <1>6
    <3>1. r.info[m.tried[t]].addr = m.info[m.tried[t]].addr
      BY <2>1, <2>2
    <3> QED  BY <3>1, <2>3 DEF TriedPlaced
  <2> QED  BY <2>4, <2>5, <1>12 DEF TriedPlaced
<1>16. Indexed(r)
  <2>1. \A j \in D : r.info[j].rnd \in DOMAIN r.random /\ r.random[r.info[j].rnd] = j
    <3> TAKE j \in D
    <3>1. j \in DOMAIN s.info /\ j # i /\ r.info[j] = s.info[j]
      BY <1>3, <1>11
    <3>2. s.info[j].rnd \in 1 .. n /\ s.random[s.info[j].rnd] = j
      BY <3>1, <1>3 DEF Near, Indexed
    <3>3. s.info[j].rnd # n
      BY <3>1, <3>2, <1>3
    <3>4. s.info[j].rnd \in 1 .. (n - 1)
      BY <3>2, <3>3, <1>1
    <3> QED  BY <3>1, <3>2, <3>4, <1>9, <1>10
  <2>2. \A k \in DOMAIN r.random : r.info[r.random[k]].rnd = k
    <3> TAKE k \in DOMAIN r.random
    <3>1. k \in 1 .. (n - 1) /\ k \in DOMAIN s.random
      BY <1>1, <1>3, <1>10
    <3>2. s.info[s.random[k]].rnd = k
      BY <3>1, <1>3 DEF Near, Indexed
    <3> QED  BY <3>1, <3>2, <1>9, <1>11
  <2>3. \A j \in D : r.addr[r.info[j].addr] = j
    <3> TAKE j \in D
    <3>1. r.info[j].addr = m.info[j].addr /\ m.info[j].addr \in Addr /\ m.addr[m.info[j].addr] = j
      BY <1>11 DEF Near, Indexed, Shaped, Alike, Info
    <3>2. m.addr[a] = i /\ j # i
      BY <1>1 DEF Near, Indexed
    <3> QED  BY <3>1, <3>2, <1>6 DEF Near, Shaped
  <2>4. \A b \in Addr : r.addr[b] # Nobody => r.info[r.addr[b]].addr = b
    <3> SUFFICES ASSUME NEW b \in Addr, r.addr[b] # Nobody PROVE r.info[r.addr[b]].addr = b
      OBVIOUS
    <3>1. r.addr[b] \in D
      BY <1>12, <1>13 DEF Shaped
    <3>2. r.addr[b] = m.addr[b]
      BY <1>6, <1>13 DEF Near, Shaped
    <3>3. m.info[m.addr[b]].addr = b
      BY <3>2 DEF Near, Indexed
    <3> QED  BY <3>1, <3>2, <3>3, <1>11 DEF Alike
  <2>5. Cardinality(D) = Cardinality(DOMAIN m.info) - 1
    <3>1. IsFiniteSet(DOMAIN m.info)
      BY IdsFinite DEF Near
    <3> QED  BY <3>1, <1>1, FS_RemoveElement
  <2>6. Cardinality(D) = n - 1
    BY <2>5 DEF Near, Indexed
  <2> QED  BY <2>1, <2>2, <2>3, <2>4, <2>6, <1>10, <1>12 DEF Indexed
<1>17. Counted(r, d)
  <2>1. TriedIds(r.info) = TriedIds(m.info)
    BY <1>1, <1>11, <1>12 DEF TriedIds, Alike
  <2>2. IsFiniteSet(DOMAIN m.info) /\ Cardinality(DOMAIN m.info) \in Nat /\ Cardinality(TriedIds(m.info)) \in Nat
    BY IdsFinite DEF Near
  <2>3. Cardinality(D) = Cardinality(DOMAIN m.info) - 1
    BY <2>2, <1>1, FS_RemoveElement
  <2>4. m.nTried = Cardinality(TriedIds(m.info)) /\ m.nNew = Cardinality(DOMAIN m.info) - m.nTried + d
    BY DEF Near, Counted
  <2> HIDE DEF D
  <2> QED  BY <2>1, <2>2, <2>3, <2>4, <1>6, <1>12 DEF Counted
<1>18. Near(r, F \ {i}, d)
  BY <1>13, <1>14, <1>15, <1>16, <1>17 DEF Near
<1> QED  BY <1>6, <1>11, <1>12, <1>18 DEF r

\* r differs from m in the two tables, what the entries say of them, and the counters
Patched(m, r) ==
    /\ Whole(r)
    /\ r.info \in [DOMAIN m.info -> Info]
    /\ \A i \in DOMAIN m.info : /\ r.info[i].addr = m.info[i].addr
                                /\ r.info[i].source = m.info[i].source
                                /\ r.info[i].rnd = m.info[i].rnd
    /\ r.addr = m.addr /\ r.random = m.random /\ r.ids = m.ids
    /\ r.new \in [NewSlot -> DOMAIN m.info \cup {Nobody}]
    /\ r.tried \in [TriedSlot -> DOMAIN m.info \cup {Nobody}]
    /\ r.nNew \in Int /\ r.nTried \in Int

LEMMA PatchedKeeps ==
    ASSUME NEW m, NEW r, Shaped(m), Indexed(m), Patched(m, r)
    PROVE  Shaped(r) /\ Indexed(r) /\ DOMAIN r.info = DOMAIN m.info
<1>1. DOMAIN r.info = DOMAIN m.info
  BY DEF Patched
<1>2. Shaped(r)
  BY <1>1 DEF Patched, Shaped
<1>3. Indexed(r)
  <2>1. \A i \in DOMAIN m.info : r.info[i].rnd \in DOMAIN r.random /\ r.random[r.info[i].rnd] = i
    BY DEF Patched, Indexed
  <2>2. \A i \in DOMAIN m.info : r.addr[r.info[i].addr] = i
    BY DEF Patched, Indexed
  <2>3. \A p \in DOMAIN r.random : r.info[r.random[p]].rnd = p
    <3>1. \A p \in DOMAIN m.random : m.random[p] \in DOMAIN m.info
      BY DEF Shaped
    <3> QED  BY <3>1 DEF Patched, Indexed
  <2>4. \A a \in Addr : r.addr[a] # Nobody => r.info[r.addr[a]].addr = a
    <3>1. \A a \in Addr : m.addr[a] # Nobody => m.addr[a] \in DOMAIN m.info
      BY DEF Shaped
    <3> QED  BY <3>1 DEF Patched, Indexed
  <2>5. Len(r.random) = Cardinality(DOMAIN r.info)
    BY <1>1 DEF Patched, Indexed
  <2> QED  BY <1>1, <2>1, <2>2, <2>3, <2>4, <2>5 DEF Indexed
<1> QED  BY <1>1, <1>2, <1>3

LEMMA TriedSame ==
    ASSUME NEW m, NEW r, Shaped(m), TriedPlaced(m), DOMAIN r.info = DOMAIN m.info, r.tried = m.tried,
           \A j \in DOMAIN m.info : r.info[j].addr = m.info[j].addr /\ r.info[j].tried = m.info[j].tried
    PROVE  TriedPlaced(r) /\ TriedIds(r.info) = TriedIds(m.info)
<1>1. \A j \in DOMAIN m.info : r.info[j].tried <=> r.tried[GetTriedSlot[r.info[j].addr]] = j
  BY DEF TriedPlaced
<1>2. ASSUME NEW t \in TriedSlot, m.tried[t] # Nobody PROVE GetTriedSlot[r.info[m.tried[t]].addr] = t
  <2>1. m.tried[t] \in DOMAIN m.info
    BY <1>2 DEF Shaped
  <2> QED  BY <1>2, <2>1 DEF TriedPlaced
<1>3. TriedIds(r.info) = TriedIds(m.info)
  BY DEF TriedIds
<1> QED  BY <1>1, <1>2, <1>3 DEF TriedPlaced

\* the slot of an address in a bucket
LEMMA PositionIs ==
    ASSUME NEW a \in Addr, NEW b \in Bucket
    PROVE  Position(a, b) \in NewSlot /\ Position(a, b)[1] = b
<1>1. GetNewPosition[a, b] \in 1 .. Slots
  BY AddrManAssumption
<1> QED  BY <1>1 DEF Position, NewSlot

LEMMA BucketIs ==
    ASSUME NEW a \in Addr, NEW c \in Source
    PROVE  GetNewBucket[a, c] \in Bucket
  BY AddrManAssumption

\* an entry gets a place in the new table
PutNew(m, i, slot) == [m EXCEPT !.info[i].ref = @ + 1, !.new[slot] = i]

PlaceGiven(m, r, i, slot) ==
    /\ \A j \in DOMAIN m.info \ {i} : r.info[j] = m.info[j]
    /\ r.info[i].ref = m.info[i].ref + 1 /\ ~r.info[i].tried
    /\ r.new = [m.new EXCEPT ![slot] = i]
    /\ r.tried = m.tried /\ r.nNew = m.nNew /\ r.nTried = m.nTried

LEMMA PutKeeps ==
    ASSUME NEW m, NEW F, NEW d \in Int, Near(m, F, d), NEW i \in DOMAIN m.info, NEW b \in Bucket,
           m.new[Position(m.info[i].addr, b)] = Nobody, ~m.info[i].tried, m.info[i].ref < MaxRefs
    PROVE  LET r == PutNew(m, i, Position(m.info[i].addr, b)) IN
           Near(r, F \ {i}, d) /\ Patched(m, r) /\ PlaceGiven(m, r, i, Position(m.info[i].addr, b))
<1> DEFINE slot == Position(m.info[i].addr, b)
           r == PutNew(m, i, slot)
           e == [m.info[i] EXCEPT !.ref = @ + 1]
<1>1. /\ Shaped(m) /\ Whole(m) /\ m.info \in [DOMAIN m.info -> Info] /\ m.info[i] \in Info /\ i # Nobody
      /\ m.new \in [NewSlot -> DOMAIN m.info \cup {Nobody}]
  BY DEF Near, Shaped, Nobody
<1>2. slot \in NewSlot /\ slot[1] = b
  BY <1>1, PositionIs DEF Info
<1>3. r.info = [m.info EXCEPT ![i] = e] /\ r.new = [m.new EXCEPT ![slot] = i]
  BY <1>1 DEF Whole, Fields, PutNew
<1>4. /\ r.addr = m.addr /\ r.random = m.random /\ r.ids = m.ids /\ r.tried = m.tried
      /\ r.nNew = m.nNew /\ r.nTried = m.nTried /\ Whole(r)
  BY <1>1 DEF Whole, Fields, PutNew
<1>5. /\ e \in Info /\ e.ref = m.info[i].ref + 1 /\ e.addr = m.info[i].addr /\ e.source = m.info[i].source
      /\ e.tried = m.info[i].tried /\ e.rnd = m.info[i].rnd
  <2>1. m.info[i].ref + 1 \in Int
    BY <1>1 DEF Info
  <2> QED  BY <2>1, <1>1, EntryChange
<1>6. slot = Position(m.info[i].addr, slot[1]) /\ m.new[slot] = Nobody
  BY <1>2
<1> HIDE DEF r, e, slot
<1>7. r.info[i] = e /\ \A j \in DOMAIN m.info \ {i} : r.info[j] = m.info[j]
  BY <1>1, <1>3
<1>8. Patched(m, r)
  <2>1. r.info \in [DOMAIN m.info -> Info]
    BY <1>1, <1>3, <1>5
  <2>2. r.new \in [NewSlot -> DOMAIN m.info \cup {Nobody}]
    BY <1>1, <1>3
  <2>3. \A j \in DOMAIN m.info : /\ r.info[j].addr = m.info[j].addr
                                 /\ r.info[j].source = m.info[j].source
                                 /\ r.info[j].rnd = m.info[j].rnd
    BY <1>5, <1>7
  <2> QED  BY <1>4, <2>1, <2>2, <2>3 DEF Near, Shaped, Patched
<1>9. Shaped(r) /\ Indexed(r) /\ DOMAIN r.info = DOMAIN m.info
  BY <1>8, PatchedKeeps DEF Near
<1>10. /\ Places(r.new, i) = Places(m.new, i) \cup {slot}
       /\ Cardinality(Places(r.new, i)) = Cardinality(Places(m.new, i)) + 1
       /\ \A j \in DOMAIN m.info \ {i} : Places(r.new, j) = Places(m.new, j)
  <2>1. \A j \in DOMAIN m.info : j # Nobody
    BY DEF Near, Shaped, Nobody
  <2> QED  BY <2>1, <1>1, <1>2, <1>3, <1>6, PlacesMore
<1>11. Referred(r, F \ {i})
  <2>1. Referred(m, F)
    BY DEF Near
  <2>2. ASSUME NEW j \in DOMAIN m.info
        PROVE  /\ r.info[j].ref = Cardinality(Places(r.new, j)) /\ r.info[j].ref <= MaxRefs
               /\ \A s \in Places(r.new, j) : s = Position(r.info[j].addr, s[1])
               /\ j \in F \ {i} => r.info[j].ref = 0 /\ ~r.info[j].tried
               /\ j \notin F \ {i} => r.info[j].tried \/ r.info[j].ref >= 1
               /\ r.info[j].tried => r.info[j].ref = 0
    <3>1. CASE j # i
      BY <2>1, <3>1, <1>7, <1>10 DEF Referred
    <3>2. CASE j = i
      <4>1. m.info[i].ref = Cardinality(Places(m.new, i)) /\ m.info[i].ref \in Nat /\ MaxRefs \in Nat
        BY <2>1, PlacesNumber, AddrManAssumption DEF Referred
      <4>2. r.info[i].ref = m.info[i].ref + 1 /\ ~r.info[i].tried
        BY <1>5, <1>7
      <4>3. r.info[i].ref = Cardinality(Places(r.new, i)) /\ r.info[i].ref <= MaxRefs /\ r.info[i].ref >= 1
        BY <4>1, <4>2, <1>10
      <4>4. \A s \in Places(r.new, i) : s = Position(r.info[i].addr, s[1])
        BY <2>1, <1>5, <1>6, <1>7, <1>10 DEF Referred
      <4> QED  BY <3>2, <4>2, <4>3, <4>4
    <3> QED  BY <3>1, <3>2
  <2> QED  BY <2>1, <2>2, <1>9 DEF Referred
<1>12. \A j \in DOMAIN m.info : r.info[j].addr = m.info[j].addr /\ r.info[j].tried = m.info[j].tried
  BY <1>5, <1>7
<1>13. TriedPlaced(r) /\ Counted(r, d)
  <2>1. TriedPlaced(r) /\ TriedIds(r.info) = TriedIds(m.info)
    BY <1>4, <1>9, <1>12, TriedSame DEF Near
  <2> QED  BY <2>1, <1>4, <1>9 DEF Near, Counted
<1>14. ~m.info[i].tried
  OBVIOUS
<1>15. PlaceGiven(m, r, i, slot)
  BY <1>3, <1>4, <1>5, <1>7, <1>14 DEF PlaceGiven
<1> QED  BY <1>8, <1>9, <1>11, <1>13, <1>15 DEF Near, r, slot

\* an entry loses a place in the new table
TakeNew(m, i, slot) == [m EXCEPT !.new[slot] = Nobody, !.info[i].ref = @ - 1]

LEMMA TakeKeeps ==
    ASSUME NEW m, NEW F, NEW d \in Int, Near(m, F, d), NEW slot \in NewSlot,
           NEW i, m.new[slot] = i, i # Nobody
    PROVE  LET r == TakeNew(m, i, slot) IN
           /\ i \in DOMAIN m.info \ F /\ ~m.info[i].tried /\ m.info[i].ref >= 1
           /\ r.info[i].ref = m.info[i].ref - 1 /\ ~r.info[i].tried
           /\ \A j \in DOMAIN m.info \ {i} : r.info[j] = m.info[j]
           /\ r.info[i].ref = 0 => Near(r, F \cup {i}, d)
           /\ r.info[i].ref # 0 => Near(r, F, d)
           /\ Patched(m, r)
           /\ r.new = [m.new EXCEPT ![slot] = Nobody]
           /\ r.tried = m.tried /\ r.nNew = m.nNew /\ r.nTried = m.nTried
<1> DEFINE r == TakeNew(m, i, slot)
           e == [m.info[i] EXCEPT !.ref = @ - 1]
<1>1. /\ Shaped(m) /\ Whole(m) /\ m.info \in [DOMAIN m.info -> Info] /\ i \in DOMAIN m.info
      /\ m.info[i] \in Info /\ m.new \in [NewSlot -> DOMAIN m.info \cup {Nobody}]
  BY DEF Near, Shaped
<1>2. r.info = [m.info EXCEPT ![i] = e] /\ r.new = [m.new EXCEPT ![slot] = Nobody]
  BY <1>1 DEF Whole, Fields, TakeNew
<1>3. /\ r.addr = m.addr /\ r.random = m.random /\ r.ids = m.ids /\ r.tried = m.tried
      /\ r.nNew = m.nNew /\ r.nTried = m.nTried /\ Whole(r)
  BY <1>1 DEF Whole, Fields, TakeNew
<1>4. /\ e \in Info /\ e.ref = m.info[i].ref - 1 /\ e.addr = m.info[i].addr /\ e.source = m.info[i].source
      /\ e.tried = m.info[i].tried /\ e.rnd = m.info[i].rnd
  <2>1. m.info[i].ref - 1 \in Int
    BY <1>1 DEF Info
  <2> QED  BY <2>1, <1>1, EntryChange
<1>5. /\ Places(r.new, i) = Places(m.new, i) \ {slot}
      /\ Cardinality(Places(r.new, i)) = Cardinality(Places(m.new, i)) - 1
      /\ \A j \in DOMAIN m.info \ {i} : Places(r.new, j) = Places(m.new, j)
  <2>1. \A j \in DOMAIN m.info : j # Nobody
    BY DEF Near, Shaped, Nobody
  <2>2. DOMAIN m.new = NewSlot /\ m.new[slot] # Nobody
    BY <1>1
  <2> HIDE DEF r
  <2> QED  BY <2>1, <2>2, <1>2, PlacesLess
<1> HIDE DEF r, e
<1>6. r.info[i] = e /\ \A j \in DOMAIN m.info \ {i} : r.info[j] = m.info[j]
  BY <1>1, <1>2
<1>7. Patched(m, r)
  <2>1. r.info \in [DOMAIN m.info -> Info]
    BY <1>1, <1>2, <1>4
  <2>2. r.new \in [NewSlot -> DOMAIN m.info \cup {Nobody}]
    BY <1>1, <1>2
  <2>3. \A j \in DOMAIN m.info : /\ r.info[j].addr = m.info[j].addr
                                 /\ r.info[j].source = m.info[j].source
                                 /\ r.info[j].rnd = m.info[j].rnd
    BY <1>4, <1>6
  <2> QED  BY <1>3, <2>1, <2>2, <2>3 DEF Near, Shaped, Patched
<1>8. Shaped(r) /\ Indexed(r) /\ DOMAIN r.info = DOMAIN m.info
  BY <1>7, PatchedKeeps DEF Near
<1>9. Referred(m, F)
  BY DEF Near
<1>10. m.info[i].ref = Cardinality(Places(m.new, i)) /\ m.info[i].ref >= 1 /\ m.info[i].ref \in Nat
  <2>1. m.info[i].ref = Cardinality(Places(m.new, i))
    BY <1>1, <1>9 DEF Referred
  <2>2. Places(m.new, i) # {}
    BY DEF Places
  <2>3. Cardinality(Places(m.new, i)) # 0
    BY <2>2, PlacesNumber, FS_EmptySet
  <2>4. Cardinality(Places(m.new, i)) \in Nat
    BY PlacesNumber
  <2> QED  BY <2>1, <2>3, <2>4
<1>11. i \notin F /\ ~m.info[i].tried
  <2>1. m.info[i].ref # 0
    BY <1>10
  <2> QED  BY <2>1, <1>1, <1>9 DEF Referred
<1>12. r.info[i].ref = m.info[i].ref - 1 /\ ~r.info[i].tried
  BY <1>4, <1>6, <1>11
<1> DEFINE G == IF r.info[i].ref = 0 THEN F \cup {i} ELSE F
<1>13. Referred(r, G)
  <2>2. ASSUME NEW j \in DOMAIN m.info
        PROVE  /\ r.info[j].ref = Cardinality(Places(r.new, j)) /\ r.info[j].ref <= MaxRefs
               /\ \A s \in Places(r.new, j) : s = Position(r.info[j].addr, s[1])
               /\ j \in G => r.info[j].ref = 0 /\ ~r.info[j].tried
               /\ j \notin G => r.info[j].tried \/ r.info[j].ref >= 1
               /\ r.info[j].tried => r.info[j].ref = 0
    <3>1. CASE j # i
      <4>1. j \in G <=> j \in F
        BY <3>1
      <4> HIDE DEF G
      <4> QED  BY <3>1, <4>1, <1>5, <1>6, <1>9 DEF Referred
    <3>2. CASE j = i
      <4>1. m.info[i].ref <= MaxRefs /\ MaxRefs \in Nat
        BY <1>1, <1>9, AddrManAssumption DEF Referred
      <4>2. r.info[i].ref = Cardinality(Places(r.new, i)) /\ r.info[i].ref <= MaxRefs /\ r.info[i].ref \in Nat
        BY <4>1, <1>5, <1>10, <1>12
      <4>3. \A s \in Places(r.new, i) : s = Position(r.info[i].addr, s[1])
        BY <1>1, <1>4, <1>5, <1>6, <1>9 DEF Referred
      <4>4. i \in G <=> r.info[i].ref = 0
        BY <1>11
      <4> HIDE DEF G
      <4>5. i \notin G => r.info[i].ref >= 1
        BY <4>2, <4>4
      <4> QED  BY <3>2, <4>2, <4>3, <4>4, <4>5, <1>12
    <3> QED  BY <3>1, <3>2
  <2>3. G \subseteq DOMAIN m.info
    BY <1>1, <1>9 DEF Referred
  <2> HIDE DEF G
  <2> QED  BY <2>2, <2>3, <1>8 DEF Referred
<1>14. \A j \in DOMAIN m.info : r.info[j].addr = m.info[j].addr /\ r.info[j].tried = m.info[j].tried
  BY <1>4, <1>6
<1>15. TriedPlaced(r) /\ Counted(r, d)
  <2>1. TriedPlaced(r) /\ TriedIds(r.info) = TriedIds(m.info)
    BY <1>3, <1>8, <1>14, TriedSame DEF Near
  <2> QED  BY <2>1, <1>3, <1>8 DEF Near, Counted
<1>16. Near(r, G, d)
  BY <1>8, <1>13, <1>15 DEF Near
<1>17. (r.info[i].ref = 0 => Near(r, F \cup {i}, d)) /\ (r.info[i].ref # 0 => Near(r, F, d))
  BY <1>16
<1> QED  BY <1>1, <1>2, <1>3, <1>6, <1>7, <1>10, <1>11, <1>12, <1>17 DEF r

(***************************************************************************)
(* ClearNew empties a slot.  At most the entry that was there goes, and    *)
(* only if this was its last place.                                        *)
(***************************************************************************)
LEMMA ClearKeeps ==
    ASSUME NEW m, NEW F, NEW d \in Int, Near(m, F, d), NEW slot \in NewSlot
    PROVE  LET r == ClearNew(m, slot) IN
           /\ Near(r, F, d) /\ r.new[slot] = Nobody
           /\ DOMAIN r.info \subseteq DOMAIN m.info /\ r.ids = m.ids /\ r.tried = m.tried
           /\ \A j \in DOMAIN m.info : j # m.new[slot] => j \in DOMAIN r.info /\ Alike(r.info[j], m.info[j])
           /\ \A a \in Addr : r.addr[a] # m.addr[a] =>
                 m.addr[a] = m.new[slot] /\ ~m.info[m.addr[a]].tried /\ m.info[m.addr[a]].ref = 1
<1> DEFINE r == ClearNew(m, slot)
           i == m.new[slot]
           c == TakeNew(m, i, slot)
<1>0. Referred(m, F) /\ Shaped(m)
  BY DEF Near
<1>1. CASE i = Nobody
  <2>1. r = m
    BY <1>1 DEF ClearNew
  <2>2. \A j \in DOMAIN m.info : Alike(m.info[j], m.info[j])
    BY DEF Alike
  <2> QED  BY <2>1, <2>2, <1>1
<1>2. CASE i # Nobody
  <2>1. /\ i \in DOMAIN m.info \ F /\ ~m.info[i].tried /\ m.info[i].ref >= 1
        /\ c.info[i].ref = m.info[i].ref - 1 /\ ~c.info[i].tried
        /\ \A j \in DOMAIN m.info \ {i} : c.info[j] = m.info[j]
        /\ c.info[i].ref = 0 => Near(c, F \cup {i}, d)
        /\ c.info[i].ref # 0 => Near(c, F, d)
        /\ Patched(m, c)
        /\ c.new = [m.new EXCEPT ![slot] = Nobody]
        /\ c.tried = m.tried
    <3>1. m.new[slot] = i
      OBVIOUS
    <3> HIDE DEF i
    <3> QED  BY <3>1, <1>2, TakeKeeps
  <2>2. r = IF c.info[i].ref = 0 THEN Delete(c, i) ELSE c
    BY <1>2 DEF ClearNew, TakeNew
  <2>3. c.new[slot] = Nobody
    BY <2>1, <1>0 DEF Shaped
  <2>4. DOMAIN c.info = DOMAIN m.info /\ c.ids = m.ids /\ c.addr = m.addr
    BY <2>1 DEF Patched
  <2>5. \A j \in DOMAIN m.info \ {i} : Alike(c.info[j], m.info[j])
    BY <2>1 DEF Alike
  <2>i. i = m.new[slot]
    OBVIOUS
  <2> HIDE DEF c, r, i
  <2>6. CASE c.info[i].ref # 0
    <3>1. r = c /\ Near(c, F, d)
      BY <2>1, <2>2, <2>6
    <3> QED  BY <3>1, <2>1, <2>3, <2>4, <2>5, <2>i DEF r
  <2>7. CASE c.info[i].ref = 0
    <3>1. r = Delete(c, i) /\ Near(c, F \cup {i}, d)
      BY <2>1, <2>2, <2>7
    <3> DEFINE G == F \cup {i}
    <3>g. i \in G /\ Near(c, G, d)
      BY <3>1
    <3> HIDE DEF G
    <3>2. /\ Near(r, G \ {i}, d)
          /\ DOMAIN r.info = DOMAIN c.info \ {i}
          /\ \A j \in DOMAIN r.info : Alike(r.info[j], c.info[j])
          /\ r.addr = [c.addr EXCEPT ![c.info[i].addr] = Nobody]
          /\ r.new = c.new /\ r.tried = c.tried /\ r.ids = c.ids
      BY <3>1, <3>g, DeleteKeeps
    <3>3. G \ {i} = F
      BY <2>1 DEF G
    <3>4. Near(r, F, d)
      BY <3>2, <3>3
    <3>5. m.info[i].ref = 1
      <4>1. m.info[i].ref \in Int
        BY <2>1, <1>0 DEF Shaped, Info
      <4> QED  BY <4>1, <2>1, <2>7
    <3>6. c.info[i].addr = m.info[i].addr /\ m.info[i].addr \in Addr /\ m.addr[m.info[i].addr] = i
      BY <2>1, <1>0 DEF Patched, Shaped, Info, Near, Indexed
    <3>7. \A a \in Addr : r.addr[a] # m.addr[a] => a = m.info[i].addr
      BY <3>2, <3>6, <2>4, <1>0 DEF Shaped
    <3>8. \A j \in DOMAIN m.info : j # i => j \in DOMAIN r.info /\ Alike(r.info[j], m.info[j])
      BY <3>2, <2>4, <2>5 DEF Alike
    <3> QED  BY <3>2, <3>4, <3>5, <3>6, <3>7, <3>8, <2>1, <2>3, <2>4, <2>i DEF r
  <2> QED  BY <2>6, <2>7 DEF r
<1> QED  BY <1>1, <1>2

\* a new entry, which is in neither table yet
Created(m, r, i, a, c) ==
    /\ DOMAIN r.info = DOMAIN m.info \cup {i} /\ i \notin DOMAIN m.info
    /\ \A j \in DOMAIN m.info : r.info[j] = m.info[j]
    /\ r.info[i].addr = a /\ r.info[i].source = c /\ r.info[i].ref = 0 /\ r.info[i].tried = FALSE
    /\ r.addr = [m.addr EXCEPT ![a] = i] /\ r.addr[a] = i
    /\ r.new = m.new /\ r.tried = m.tried /\ r.nNew = m.nNew /\ r.nTried = m.nTried
    /\ r.ids = i + 1

LEMMA CreateKeeps ==
    ASSUME NEW m, NEW F, NEW d \in Int, Near(m, F, d), NEW a \in Addr, NEW c \in Source,
           m.addr[a] = Nobody, NEW i, m.ids = i, i < MaxId
    PROVE  Near(Create(m, a, c), F \cup {i}, d - 1) /\ Created(m, Create(m, a, c), i, a, c)
<1> DEFINE r == Create(m, a, c)
           n == Len(m.random)
           e == [addr |-> a, source |-> c, ref |-> 0, tried |-> FALSE, rnd |-> n + 1]
           D == DOMAIN m.info \cup {i}
<1>0. Shaped(m) /\ Referred(m, F) /\ TriedPlaced(m) /\ Indexed(m) /\ Counted(m, d)
  BY DEF Near
<1>1. /\ Whole(m) /\ MaxId \in Nat /\ i \in Nat /\ i < MaxId /\ DOMAIN m.info \subseteq 0 .. (i - 1)
      /\ i \notin DOMAIN m.info /\ i # Nobody
      /\ m.random \in Seq(DOMAIN m.info) /\ n \in Nat /\ DOMAIN m.random = 1 .. n
  BY <1>0, AddrManAssumption DEF Shaped, Nobody
<1>2. r.info = [j \in D |-> IF j = i THEN e ELSE m.info[j]]
  BY <1>1 DEF Whole, Fields, Create
<1>3. r.addr = [m.addr EXCEPT ![a] = i] /\ r.random = Append(m.random, i) /\ r.ids = i + 1
  BY <1>1 DEF Whole, Fields, Create
<1>4. r.new = m.new /\ r.tried = m.tried /\ r.nNew = m.nNew /\ r.nTried = m.nTried /\ Whole(r)
  BY <1>1 DEF Whole, Fields, Create
<1>5. e \in Info /\ e.addr = a /\ e.source = c /\ e.ref = 0 /\ e.tried = FALSE /\ e.rnd = n + 1
  BY <1>1 DEF Info
<1>D. D = DOMAIN m.info \cup {i}
  OBVIOUS
<1> HIDE DEF r, e, n, D
<1>6. DOMAIN r.info = D /\ r.info[i] = e /\ \A j \in DOMAIN m.info : r.info[j] = m.info[j]
  BY <1>1, <1>2, <1>D
<1>7. /\ r.random \in Seq(D) /\ Len(r.random) = n + 1 /\ r.random[n + 1] = i /\ DOMAIN r.random = 1 .. (n + 1)
      /\ \A k \in 1 .. n : r.random[k] = m.random[k] /\ m.random[k] \in DOMAIN m.info
  <2>1. m.random \in Seq(D)
    BY <1>1, <1>D
  <2>2. r.random \in Seq(D) /\ Len(r.random) = Len(m.random) + 1
    BY <2>1, <1>3, <1>D
  <2> QED  BY <2>1, <2>2, <1>1, <1>3 DEF n
<1>8. r.addr \in [Addr -> D \cup {Nobody}] /\ r.addr[a] = i /\ \A b \in Addr \ {a} : r.addr[b] = m.addr[b]
  <2>1. m.addr \in [Addr -> DOMAIN m.info \cup {Nobody}]
    BY <1>0 DEF Shaped
  <2> QED  BY <2>1, <1>3, <1>D
<1>9. Shaped(r)
  <2>1. r.info \in [D -> Info]
    <3>1. \A j \in DOMAIN m.info : m.info[j] \in Info
      BY <1>0 DEF Shaped
    <3> QED  BY <3>1, <1>2, <1>5, <1>D
  <2>2. r.ids \in 0 .. MaxId /\ D \subseteq 0 .. (r.ids - 1)
    BY <1>1, <1>3, <1>D
  <2>3. r.new \in [NewSlot -> D \cup {Nobody}]
    <3>1. m.new \in [NewSlot -> DOMAIN m.info \cup {Nobody}]
      BY <1>0 DEF Shaped
    <3> QED  BY <3>1, <1>4, <1>D
  <2>4. r.tried \in [TriedSlot -> D \cup {Nobody}]
    <3>1. m.tried \in [TriedSlot -> DOMAIN m.info \cup {Nobody}]
      BY <1>0 DEF Shaped
    <3> QED  BY <3>1, <1>4, <1>D
  <2>5. r.nNew \in Int /\ r.nTried \in Int
    BY <1>0, <1>4 DEF Shaped
  <2> QED  BY <2>1, <2>2, <2>3, <2>4, <2>5, <1>4, <1>6, <1>7, <1>8 DEF Shaped
<1>10. Referred(r, F \cup {i})
  <2>1. Places(r.new, i) = {}
    BY <1>0, <1>1, <1>4 DEF Places, Shaped
  <2>2. Cardinality(Places(r.new, i)) = 0
    BY <2>1, FS_EmptySet
  <2>3. F \cup {i} \subseteq D
    BY <1>0, <1>D DEF Referred
  <2>4. ASSUME NEW j \in D
        PROVE  /\ r.info[j].ref = Cardinality(Places(r.new, j)) /\ r.info[j].ref <= MaxRefs
               /\ \A s \in Places(r.new, j) : s = Position(r.info[j].addr, s[1])
               /\ j \in F \cup {i} => r.info[j].ref = 0 /\ ~r.info[j].tried
               /\ j \notin F \cup {i} => r.info[j].tried \/ r.info[j].ref >= 1
               /\ r.info[j].tried => r.info[j].ref = 0
    <3>1. CASE j = i
      <4>1. MaxRefs \in Nat
        BY AddrManAssumption
      <4> QED  BY <3>1, <4>1, <2>1, <2>2, <1>5, <1>6
    <3>2. CASE j # i
      <4>1. j \in DOMAIN m.info
        BY <3>2, <1>D
      <4> QED  BY <3>2, <4>1, <1>0, <1>4, <1>6 DEF Referred
    <3> QED  BY <3>1, <3>2
  <2> QED  BY <2>3, <2>4, <1>6 DEF Referred
<1>11. TriedPlaced(r)
  <2>1. \A j \in D : r.info[j].tried <=> r.tried[GetTriedSlot[r.info[j].addr]] = j
    <3> TAKE j \in D
    <3>1. CASE j = i
      <4>1. GetTriedSlot[a] \in TriedSlot
        BY AddrManAssumption
      <4>2. m.tried[GetTriedSlot[a]] # i
        BY <4>1, <1>0, <1>1 DEF Shaped
      <4> QED  BY <3>1, <4>2, <1>4, <1>5, <1>6
    <3>2. CASE j # i
      <4>1. j \in DOMAIN m.info
        BY <3>2, <1>D
      <4> QED  BY <4>1, <1>0, <1>4, <1>6 DEF TriedPlaced
    <3> QED  BY <3>1, <3>2
  <2>2. ASSUME NEW t \in TriedSlot, m.tried[t] # Nobody PROVE GetTriedSlot[r.info[m.tried[t]].addr] = t
    <3>1. m.tried[t] \in DOMAIN m.info
      BY <2>2, <1>0 DEF Shaped
    <3> QED  BY <2>2, <3>1, <1>0, <1>6 DEF TriedPlaced
  <2> QED  BY <2>1, <2>2, <1>4, <1>6 DEF TriedPlaced
<1>12. Cardinality(D) = Cardinality(DOMAIN m.info) + 1
  <2>1. IsFiniteSet(DOMAIN m.info)
    BY <1>0, IdsFinite
  <2> QED  BY <2>1, <1>1, <1>D, FS_AddElement
<1>13. Indexed(r)
  <2>1. \A j \in D : r.info[j].rnd \in DOMAIN r.random /\ r.random[r.info[j].rnd] = j
    <3> TAKE j \in D
    <3>1. CASE j = i
      BY <3>1, <1>1, <1>5, <1>6, <1>7
    <3>2. CASE j # i
      <4>1. j \in DOMAIN m.info
        BY <3>2, <1>D
      <4>2. m.info[j].rnd \in 1 .. n /\ m.random[m.info[j].rnd] = j
        BY <4>1, <1>0, <1>1 DEF Indexed
      <4>3. r.info[j].rnd = m.info[j].rnd /\ r.random[m.info[j].rnd] = m.random[m.info[j].rnd]
        BY <4>1, <4>2, <1>6, <1>7
      <4>4. m.info[j].rnd \in 1 .. (n + 1)
        BY <4>2, <1>1
      <4> QED  BY <4>2, <4>3, <4>4, <1>7
    <3> QED  BY <3>1, <3>2
  <2>2. \A k \in DOMAIN r.random : r.info[r.random[k]].rnd = k
    <3> TAKE k \in DOMAIN r.random
    <3>1. CASE k = n + 1
      BY <3>1, <1>5, <1>6, <1>7
    <3>2. CASE k # n + 1
      <4>1. k \in 1 .. n
        BY <3>2, <1>1, <1>7
      <4>2. m.info[m.random[k]].rnd = k
        BY <4>1, <1>0, <1>1 DEF Indexed
      <4> QED  BY <4>1, <4>2, <1>6, <1>7
    <3> QED  BY <3>1, <3>2
  <2>3. \A j \in D : r.addr[r.info[j].addr] = j
    <3> TAKE j \in D
    <3>1. CASE j = i
      BY <3>1, <1>5, <1>6, <1>8
    <3>2. CASE j # i
      <4>1. j \in DOMAIN m.info /\ m.info[j].addr \in Addr /\ m.addr[m.info[j].addr] = j /\ j # Nobody
        BY <3>2, <1>D, <1>0 DEF Shaped, Indexed, Info, Nobody
      <4>2. m.info[j].addr # a
        BY <4>1
      <4> QED  BY <4>1, <4>2, <1>6, <1>8
    <3> QED  BY <3>1, <3>2
  <2>4. ASSUME NEW b \in Addr, r.addr[b] # Nobody PROVE r.info[r.addr[b]].addr = b
    <3>1. CASE b = a
      BY <3>1, <1>5, <1>6, <1>8
    <3>2. CASE b # a
      <4>1. r.addr[b] = m.addr[b] /\ m.addr[b] \in DOMAIN m.info
        BY <2>4, <3>2, <1>0, <1>8 DEF Shaped
      <4> QED  BY <2>4, <4>1, <1>0, <1>6 DEF Indexed
    <3> QED  BY <3>1, <3>2
  <2>5. Len(r.random) = Cardinality(DOMAIN r.info)
    BY <1>0, <1>6, <1>7, <1>12 DEF Indexed, n
  <2> QED  BY <2>1, <2>2, <2>3, <2>4, <2>5, <1>6 DEF Indexed
<1>14. Counted(r, d - 1)
  <2>1. TriedIds(r.info) = TriedIds(m.info)
    BY <1>1, <1>5, <1>6, <1>D DEF TriedIds
  <2>2. Cardinality(DOMAIN m.info) \in Nat /\ Cardinality(TriedIds(m.info)) \in Nat
    BY <1>0, IdsFinite
  <2> QED  BY <2>1, <2>2, <1>0, <1>4, <1>6, <1>12 DEF Counted
<1>15. Near(r, F \cup {i}, d - 1)
  BY <1>9, <1>10, <1>11, <1>13, <1>14 DEF Near
<1> QED  BY <1>1, <1>3, <1>4, <1>6, <1>8, <1>15, <1>5, <1>D DEF r, Created

\* nNew alone changes
LEMMA NewCounted ==
    ASSUME NEW m, NEW F, NEW d \in Int, Near(m, F, d), NEW k \in Int
    PROVE  LET r == [m EXCEPT !.nNew = @ + k] IN
           /\ Near(r, F, d + k) /\ r.nNew = m.nNew + k
           /\ r.info = m.info /\ r.addr = m.addr /\ r.random = m.random /\ r.new = m.new
           /\ r.tried = m.tried /\ r.nTried = m.nTried /\ r.ids = m.ids
<1> DEFINE r == [m EXCEPT !.nNew = @ + k]
<1>1. Whole(m) /\ m.nNew \in Int
  BY DEF Near, Shaped
<1>2. /\ r.info = m.info /\ r.addr = m.addr /\ r.random = m.random /\ r.new = m.new
      /\ r.tried = m.tried /\ r.nTried = m.nTried /\ r.ids = m.ids /\ r.nNew = m.nNew + k
  BY <1>1 DEF Whole, Fields
<1>3. Whole(r)
  BY <1>1 DEF Whole
<1> HIDE DEF r
<1>4. Shaped(r) /\ Referred(r, F) /\ TriedPlaced(r) /\ Indexed(r)
  BY <1>1, <1>2, <1>3 DEF Near, Shaped, Referred, TriedPlaced, Indexed
<1>5. Counted(r, d + k)
  <2>1. Cardinality(DOMAIN m.info) \in Nat /\ Cardinality(TriedIds(m.info)) \in Nat
    BY IdsFinite DEF Near
  <2> QED  BY <1>2, <2>1 DEF Near, Counted
<1> QED  BY <1>2, <1>4, <1>5 DEF Near, r

\* what an operation may make the manager forget
Forgets(m, r) ==
    \A a \in Addr : m.addr[a] # Nobody /\ r.addr[a] = Nobody =>
        ~m.info[m.addr[a]].tried /\ m.info[m.addr[a]].ref = 1

LEMMA AddKeeps ==
    ASSUME Near(man, {}, 0), NEW a \in Addr, NEW c \in Source, NEW terrible \in BOOLEAN, Add(a, c, terrible)
    PROVE  Near(man', {}, 0) /\ Forgets(man, man')
<1> DEFINE known == man.addr[a] # Nobody
           m     == IF known THEN man ELSE [Create(man, a, c) EXCEPT !.nNew = @ + 1]
           i     == m.addr[a]
           b     == GetNewBucket[a, c]
           slot  == Position(a, b)
           other == m.new[slot]
           room  == other = Nobody \/ terrible \/ (m.info[other].ref > 1 /\ m.info[i].ref = 0)
           z     == ClearNew(m, slot)
           F     == IF known THEN {} ELSE {i}
<1>1. /\ IF known THEN ~m.info[i].tried /\ m.info[i].ref # MaxRefs ELSE man.ids < MaxId
      /\ other # i
      /\ man' = IF room THEN PutNew(z, i, slot) ELSE IF m.info[i].ref = 0 THEN Delete(m, i) ELSE m
  BY DEF Add, PutNew
<1>2. b \in Bucket /\ slot \in NewSlot /\ MaxRefs \in Nat /\ MaxRefs >= 1
  <2>0. MaxRefs \in Nat /\ MaxRefs >= 1
    BY AddrManAssumption
  <2>1. b \in Bucket
    BY BucketIs
  <2> HIDE DEF b
  <2> QED  BY <2>0, <2>1, PositionIs
<1>3. /\ Near(m, F, 0) /\ i \in DOMAIN m.info /\ m.info[i].addr = a /\ ~m.info[i].tried
      /\ m.info[i].ref \in Nat /\ m.info[i].ref < MaxRefs
      /\ \A e \in Addr : man.addr[e] # Nobody => m.addr[e] = man.addr[e] /\ m.info[m.addr[e]] = man.info[m.addr[e]]
  <2>1. CASE known
    <3>1. m = man /\ F = {} /\ i = man.addr[a]
      BY <2>1
    <3>2. i \in DOMAIN man.info /\ man.info[i].addr = a /\ man.info[i] \in Info
      BY <2>1, <3>1 DEF Near, Shaped, Indexed
    <3>3. man.info[i].ref = Cardinality(Places(man.new, i)) /\ man.info[i].ref <= MaxRefs
      BY <3>2 DEF Near, Referred
    <3>4. man.info[i].ref \in Nat
      BY <3>3, PlacesNumber
    <3>5. man.info[i].ref < MaxRefs /\ ~man.info[i].tried
      <4>1. ~man.info[i].tried /\ man.info[i].ref # MaxRefs
        BY <1>1, <2>1, <3>1
      <4>2. MaxRefs \in Nat
        BY <1>2
      <4> HIDE DEF i
      <4> QED  BY <3>3, <3>4, <4>1, <4>2
    <3> QED  BY <3>1, <3>2, <3>4, <3>5
  <2>2. CASE ~known
    <3> DEFINE q == Create(man, a, c)
               n == man.ids
    <3>1. man.addr[a] = Nobody /\ man.ids = n /\ n < MaxId
      BY <1>1, <2>2
    <3> HIDE DEF n
    <3> DEFINE E == {}
    <3>e. Near(man, E, 0) /\ 0 \in Int
      OBVIOUS
    <3> HIDE DEF E
    <3>c. Near(q, E \cup {n}, 0 - 1) /\ Created(man, q, n, a, c)
      BY <3>1, <3>e, CreateKeeps
    <3>2. /\ DOMAIN q.info = DOMAIN man.info \cup {n} /\ n \notin DOMAIN man.info
          /\ \A j \in DOMAIN man.info : q.info[j] = man.info[j]
          /\ q.info[n].addr = a /\ q.info[n].ref = 0 /\ ~q.info[n].tried
          /\ q.addr = [man.addr EXCEPT ![a] = n] /\ q.addr[a] = n
      BY <3>c DEF Created
    <3>3. E \cup {n} = {n} /\ 0 - 1 = -1
      BY DEF E
    <3>4. Near(q, {n}, -1)
      BY <3>c, <3>3
    <3>5. m = [q EXCEPT !.nNew = @ + 1]
      BY <2>2
    <3> HIDE DEF q
    <3>6. Near(m, {n}, (-1) + 1) /\ m.info = q.info /\ m.addr = q.addr
      <4> HIDE DEF m
      <4> QED  BY <3>4, <3>5, NewCounted, -1 \in Int, 1 \in Int
    <3>7. i = n /\ F = {n} /\ (-1) + 1 = 0
      <4>1. F = {i}
        BY <2>2
      <4>2. i = m.addr[a]
        OBVIOUS
      <4> HIDE DEF m, i, F
      <4> QED  BY <4>1, <4>2, <3>2, <3>6
    <3>8. Near(m, F, 0)
      BY <3>6, <3>7
    <3> HIDE DEF m, F, i
    <3>9. m.info[i].addr = a /\ m.info[i].ref = 0 /\ ~m.info[i].tried /\ i \in DOMAIN m.info
      BY <3>2, <3>6, <3>7
    <3>10. ASSUME NEW e \in Addr, man.addr[e] # Nobody
           PROVE  m.addr[e] = man.addr[e] /\ m.info[m.addr[e]] = man.info[m.addr[e]]
      <4>1. man.addr[e] \in DOMAIN man.info /\ e # a /\ man.addr \in [Addr -> DOMAIN man.info \cup {Nobody}]
        BY <3>1, <3>10 DEF Near, Shaped
      <4>2. m.addr[e] = man.addr[e]
        BY <4>1, <3>2, <3>6
      <4> QED  BY <4>1, <4>2, <3>2, <3>6
    <3>11. m.info[i].ref \in Nat /\ m.info[i].ref < MaxRefs
      <4>1. MaxRefs \in Nat /\ MaxRefs >= 1
        BY <1>2
      <4> QED  BY <3>9, <4>1
    <3> QED  BY <3>8, <3>9, <3>10, <3>11
  <2> QED  BY <2>1, <2>2
<1>4. m.info[i].ref = 0 => i \in F
  BY <1>3 DEF Near, Referred
<1>5. F \ {i} = {} /\ (i \notin F => F = {})
  OBVIOUS
<1>6. slot = Position(a, b) /\ other = m.new[slot]
  OBVIOUS
<1>7. known \/ man.addr[a] = Nobody
  OBVIOUS
<1> HIDE DEF m, F, i, slot, b, z, other, known
<1>8. CASE room
  <2>1. /\ Near(z, F, 0) /\ z.new[slot] = Nobody
        /\ \A j \in DOMAIN m.info : j # m.new[slot] => j \in DOMAIN z.info /\ Alike(z.info[j], m.info[j])
        /\ \A e \in Addr : z.addr[e] # m.addr[e] =>
              m.addr[e] = m.new[slot] /\ ~m.info[m.addr[e]].tried /\ m.info[m.addr[e]].ref = 1
    BY <1>2, <1>3, ClearKeeps DEF z
  <2>2. i \in DOMAIN z.info /\ z.info[i].addr = a /\ ~z.info[i].tried /\ z.info[i].ref < MaxRefs
    BY <2>1, <1>1, <1>3, <1>6 DEF Alike
  <2>3. man' = PutNew(z, i, Position(z.info[i].addr, b))
    BY <2>2, <1>1, <1>6, <1>8
  <2>4. Near(man', F \ {i}, 0) /\ Patched(z, man')
    <3>1. z.new[Position(z.info[i].addr, b)] = Nobody /\ 0 \in Int
      BY <2>1, <2>2, <1>6
    <3> QED  BY <2>1, <2>2, <2>3, <3>1, <1>2, PutKeeps
  <2>5. man'.addr = z.addr
    BY <2>4 DEF Patched
  <2>6. Forgets(man, man')
    <3> SUFFICES ASSUME NEW e \in Addr, man.addr[e] # Nobody, man'.addr[e] = Nobody
                 PROVE  ~man.info[man.addr[e]].tried /\ man.info[man.addr[e]].ref = 1
      BY DEF Forgets
    <3>1. z.addr[e] # m.addr[e]
      BY <2>5, <1>3
    <3> QED  BY <3>1, <2>1, <1>3
  <2> QED  BY <2>4, <2>6, <1>5
<1>9. CASE ~room /\ m.info[i].ref = 0
  <2>1. man' = Delete(m, i) /\ i \in F
    BY <1>1, <1>4, <1>9
  <2>2. Near(man', F \ {i}, 0) /\ man'.addr = [m.addr EXCEPT ![m.info[i].addr] = Nobody]
    BY <2>1, <1>3, DeleteKeeps
  <2>3. man.addr[a] = Nobody
    BY <2>1 DEF F, known
  <2>4. Forgets(man, man')
    <3> SUFFICES ASSUME NEW e \in Addr, man.addr[e] # Nobody PROVE man'.addr[e] # Nobody
      BY DEF Forgets
    <3>1. e # a /\ m.addr[e] = man.addr[e] /\ m.addr \in [Addr -> DOMAIN m.info \cup {Nobody}]
      BY <2>3, <1>3 DEF Near, Shaped
    <3> QED  BY <3>1, <2>2, <1>3
  <2> QED  BY <2>2, <2>4, <1>5
<1>10. CASE ~room /\ m.info[i].ref # 0
  <2>1. man' = m
    BY <1>1, <1>10
  <2>2. F = {}
    <3>1. i \notin F
      BY <1>3, <1>10 DEF Near, Referred
    <3> QED  BY <3>1, <1>5
  <2>3. Forgets(man, man')
    BY <2>1, <1>3 DEF Forgets
  <2> QED  BY <2>1, <2>2, <2>3, <1>3
<1> QED  BY <1>8, <1>9, <1>10

\* MakeTried: all places of an entry in the new table are taken
TakeAll(m, i) ==
    [m EXCEPT !.new = [s \in NewSlot |-> IF s \in NewSlotsOf(m, i) THEN Nobody ELSE @[s]],
              !.info[i].ref = @ - Cardinality(NewSlotsOf(m, i)), !.nNew = @ - 1]

LEMMA TakeAllKeeps ==
    ASSUME NEW m, NEW d \in Int, Near(m, {}, d), NEW i \in DOMAIN m.info, ~m.info[i].tried
    PROVE  LET r == TakeAll(m, i) IN
           /\ Near(r, {i}, d - 1) /\ Patched(m, r) /\ r.tried = m.tried
           /\ \A j \in DOMAIN m.info \ {i} : r.info[j] = m.info[j]
<1> DEFINE r == TakeAll(m, i)
           P == Places(m.new, i)
           e == [m.info[i] EXCEPT !.ref = @ - Cardinality(NewSlotsOf(m, i))]
           N == [s \in NewSlot |-> IF s \in NewSlotsOf(m, i) THEN Nobody ELSE m.new[s]]
<1>0. Shaped(m) /\ Referred(m, {}) /\ TriedPlaced(m) /\ Indexed(m) /\ Counted(m, d)
  BY DEF Near
<1>1. /\ Whole(m) /\ m.info \in [DOMAIN m.info -> Info] /\ m.info[i] \in Info /\ i # Nobody
      /\ m.new \in [NewSlot -> DOMAIN m.info \cup {Nobody}] /\ m.nNew \in Int
  BY <1>0 DEF Shaped, Nobody
<1>2. NewSlotsOf(m, i) = P
  BY <1>0 DEF Referred, NewSlotsOf, Places
<1>3. m.info[i].ref = Cardinality(P) /\ Cardinality(P) \in Nat
  BY <1>0, PlacesNumber DEF Referred
<1>4. r.info = [m.info EXCEPT ![i] = e] /\ r.new = N /\ r.nNew = m.nNew - 1
  BY <1>1 DEF Whole, Fields, TakeAll
<1>5. /\ r.addr = m.addr /\ r.random = m.random /\ r.ids = m.ids /\ r.tried = m.tried
      /\ r.nTried = m.nTried /\ Whole(r)
  BY <1>1 DEF Whole, Fields, TakeAll
<1>6. /\ e \in Info /\ e.ref = 0 /\ e.addr = m.info[i].addr /\ e.source = m.info[i].source
      /\ e.tried = m.info[i].tried /\ e.rnd = m.info[i].rnd
  <2>1. e = [m.info[i] EXCEPT !.ref = m.info[i].ref - Cardinality(P)]
    BY <1>2
  <2>2. m.info[i].ref - Cardinality(P) = 0
    BY <1>3
  <2>3. e = [m.info[i] EXCEPT !.ref = 0]
    BY <2>1, <2>2
  <2> DEFINE x == m.info[i]
             f == [x EXCEPT !.ref = 0]
  <2>4. x \in Info /\ 0 \in Int
    BY <1>1
  <2> HIDE DEF x, e
  <2>5. /\ f \in Info /\ f.ref = 0 /\ f.addr = x.addr /\ f.source = x.source
        /\ f.tried = x.tried /\ f.rnd = x.rnd
    BY <2>4, EntryChange
  <2>6. e = f
    BY <2>3 DEF x
  <2> QED  BY <2>5, <2>6 DEF x
<1>7. \A s \in NewSlot : N[s] = IF s \in P THEN Nobody ELSE m.new[s]
  BY <1>2
<1>N. N = [s \in NewSlot |-> N[s]]
  OBVIOUS
<1> HIDE DEF r, e, N
<1>8. r.info[i] = e /\ \A j \in DOMAIN m.info \ {i} : r.info[j] = m.info[j]
  BY <1>1, <1>4
<1>9. Patched(m, r)
  <2>1. r.info \in [DOMAIN m.info -> Info]
    BY <1>1, <1>4, <1>6
  <2>2. r.new \in [NewSlot -> DOMAIN m.info \cup {Nobody}]
    BY <1>1, <1>4, <1>7, <1>N
  <2>3. \A j \in DOMAIN m.info : /\ r.info[j].addr = m.info[j].addr
                                 /\ r.info[j].source = m.info[j].source
                                 /\ r.info[j].rnd = m.info[j].rnd
    BY <1>6, <1>8
  <2>4. r.nNew \in Int
    BY <1>1, <1>4
  <2> QED  BY <1>0, <1>5, <2>1, <2>2, <2>3, <2>4 DEF Shaped, Patched
<1>10. Shaped(r) /\ Indexed(r) /\ DOMAIN r.info = DOMAIN m.info
  BY <1>0, <1>9, PatchedKeeps
<1>11. Places(r.new, i) = {} /\ Cardinality(Places(r.new, i)) = 0
  <2>1. Places(r.new, i) = {}
    BY <1>1, <1>4, <1>7 DEF Places
  <2> QED  BY <2>1, FS_EmptySet
<1>12. \A j \in DOMAIN m.info \ {i} : Places(r.new, j) = Places(m.new, j)
  <2>1. \A j \in DOMAIN m.info : j # Nobody
    BY <1>0 DEF Shaped, Nobody
  <2> QED  BY <2>1, <1>4, <1>7 DEF Places
<1>13. Referred(r, {i})
  <2>1. ASSUME NEW j \in DOMAIN m.info
        PROVE  /\ r.info[j].ref = Cardinality(Places(r.new, j)) /\ r.info[j].ref <= MaxRefs
               /\ \A s \in Places(r.new, j) : s = Position(r.info[j].addr, s[1])
               /\ j \in {i} => r.info[j].ref = 0 /\ ~r.info[j].tried
               /\ j \notin {i} => r.info[j].tried \/ r.info[j].ref >= 1
               /\ r.info[j].tried => r.info[j].ref = 0
    <3>1. CASE j # i
      BY <3>1, <1>0, <1>8, <1>12 DEF Referred
    <3>2. CASE j = i
      <4>1. MaxRefs \in Nat
        BY AddrManAssumption
      <4> QED  BY <3>2, <4>1, <1>6, <1>8, <1>11
    <3> QED  BY <3>1, <3>2
  <2> QED  BY <2>1, <1>10 DEF Referred
<1>14. \A j \in DOMAIN m.info : r.info[j].addr = m.info[j].addr /\ r.info[j].tried = m.info[j].tried
  BY <1>6, <1>8
<1>15. TriedPlaced(r) /\ Counted(r, d - 1)
  <2>1. TriedPlaced(r) /\ TriedIds(r.info) = TriedIds(m.info)
    BY <1>0, <1>5, <1>10, <1>14, TriedSame
  <2>2. Cardinality(DOMAIN m.info) \in Nat /\ Cardinality(TriedIds(m.info)) \in Nat
    BY <1>0, IdsFinite
  <2> QED  BY <2>1, <2>2, <1>0, <1>4, <1>5, <1>10 DEF Counted
<1> QED  BY <1>5, <1>8, <1>9, <1>10, <1>13, <1>15 DEF Near, r

\* MakeTried: the entry that is in the way leaves the tried table
Untry(m, j) ==
    [m EXCEPT !.info[j].tried = FALSE, !.tried[GetTriedSlot[m.info[j].addr]] = Nobody, !.nTried = @ - 1]

LEMMA UntryKeeps ==
    ASSUME NEW m, NEW F, NEW d \in Int, Near(m, F, d), NEW j \in DOMAIN m.info, m.info[j].tried
    PROVE  LET r == Untry(m, j) IN
           /\ Near(r, F \cup {j}, d - 1) /\ Patched(m, r) /\ r.new = m.new
           /\ r.tried = [m.tried EXCEPT ![GetTriedSlot[m.info[j].addr]] = Nobody]
           /\ \A k \in DOMAIN m.info \ {j} : r.info[k] = m.info[k]
<1> DEFINE r == Untry(m, j)
           e == [m.info[j] EXCEPT !.tried = FALSE]
           t == GetTriedSlot[m.info[j].addr]
<1>0. Shaped(m) /\ Referred(m, F) /\ TriedPlaced(m) /\ Indexed(m) /\ Counted(m, d)
  BY DEF Near
<1>1. /\ Whole(m) /\ m.info \in [DOMAIN m.info -> Info] /\ m.info[j] \in Info /\ j # Nobody
      /\ m.tried \in [TriedSlot -> DOMAIN m.info \cup {Nobody}] /\ m.nTried \in Int
  BY <1>0 DEF Shaped, Nobody
<1>2. t \in TriedSlot /\ m.tried[t] = j
  <2>1. m.info[j].addr \in Addr
    BY <1>1 DEF Info
  <2>2. t \in TriedSlot
    BY <2>1, AddrManAssumption
  <2> QED  BY <2>2, <1>0 DEF TriedPlaced
<1>3. r.info = [m.info EXCEPT ![j] = e] /\ r.tried = [m.tried EXCEPT ![t] = Nobody] /\ r.nTried = m.nTried - 1
  BY <1>1 DEF Whole, Fields, Untry
<1>4. /\ r.addr = m.addr /\ r.random = m.random /\ r.ids = m.ids /\ r.new = m.new
      /\ r.nNew = m.nNew /\ Whole(r)
  BY <1>1 DEF Whole, Fields, Untry
<1>5. /\ e \in Info /\ e.tried = FALSE /\ e.addr = m.info[j].addr /\ e.source = m.info[j].source
      /\ e.ref = m.info[j].ref /\ e.rnd = m.info[j].rnd
  BY <1>1, EntryChange, FALSE \in BOOLEAN
<1>t. t = GetTriedSlot[m.info[j].addr]
  OBVIOUS
<1> HIDE DEF r, e, t
<1>6. r.info[j] = e /\ \A k \in DOMAIN m.info \ {j} : r.info[k] = m.info[k]
  BY <1>1, <1>3
<1>7. r.tried \in [TriedSlot -> DOMAIN m.info \cup {Nobody}] /\ r.tried[t] = Nobody
      /\ \A s \in TriedSlot \ {t} : r.tried[s] = m.tried[s]
  BY <1>1, <1>2, <1>3
<1>8. Patched(m, r)
  <2>1. r.info \in [DOMAIN m.info -> Info]
    BY <1>1, <1>3, <1>5
  <2>2. \A k \in DOMAIN m.info : /\ r.info[k].addr = m.info[k].addr
                                 /\ r.info[k].source = m.info[k].source
                                 /\ r.info[k].rnd = m.info[k].rnd
    BY <1>5, <1>6
  <2>3. r.nTried \in Int
    BY <1>1, <1>3
  <2> QED  BY <1>0, <1>4, <1>7, <2>1, <2>2, <2>3 DEF Shaped, Patched
<1>9. Shaped(r) /\ Indexed(r) /\ DOMAIN r.info = DOMAIN m.info
  BY <1>0, <1>8, PatchedKeeps
<1>10. Referred(r, F \cup {j})
  <2>1. m.info[j].ref = 0 /\ F \cup {j} \subseteq DOMAIN m.info
    BY <1>0 DEF Referred
  <2>2. ASSUME NEW k \in DOMAIN m.info
        PROVE  /\ r.info[k].ref = Cardinality(Places(r.new, k)) /\ r.info[k].ref <= MaxRefs
               /\ \A s \in Places(r.new, k) : s = Position(r.info[k].addr, s[1])
               /\ k \in F \cup {j} => r.info[k].ref = 0 /\ ~r.info[k].tried
               /\ k \notin F \cup {j} => r.info[k].tried \/ r.info[k].ref >= 1
               /\ r.info[k].tried => r.info[k].ref = 0
    <3>1. CASE k # j
      BY <3>1, <1>0, <1>4, <1>6 DEF Referred
    <3>2. CASE k = j
      BY <3>2, <2>1, <1>0, <1>4, <1>5, <1>6 DEF Referred
    <3> QED  BY <3>1, <3>2
  <2> QED  BY <2>1, <2>2, <1>9 DEF Referred
<1>11. TriedPlaced(r)
  <2>1. ASSUME NEW k \in DOMAIN m.info
        PROVE  r.info[k].tried <=> r.tried[GetTriedSlot[r.info[k].addr]] = k
    <3>1. CASE k = j
      BY <3>1, <1>1, <1>5, <1>6, <1>7, <1>t
    <3>2. CASE k # j
      <4>1. r.info[k] = m.info[k] /\ m.info[k].addr \in Addr
        BY <3>2, <1>1, <1>6 DEF Info
      <4>2. GetTriedSlot[m.info[k].addr] \in TriedSlot /\ k # Nobody
        BY <4>1, <1>0, AddrManAssumption DEF Shaped, Nobody
      <4>3. m.info[k].tried <=> m.tried[GetTriedSlot[m.info[k].addr]] = k
        BY <1>0 DEF TriedPlaced
      <4> QED  BY <3>2, <4>1, <4>2, <4>3, <1>2, <1>7
    <3> QED  BY <3>1, <3>2
  <2>2. ASSUME NEW s \in TriedSlot, r.tried[s] # Nobody PROVE GetTriedSlot[r.info[r.tried[s]].addr] = s
    <3>1. s # t /\ r.tried[s] = m.tried[s] /\ m.tried[s] \in DOMAIN m.info
      BY <2>2, <1>1, <1>7
    <3>2. GetTriedSlot[m.info[m.tried[s]].addr] = s
      BY <2>2, <3>1, <1>0 DEF TriedPlaced
    <3>3. r.info[m.tried[s]].addr = m.info[m.tried[s]].addr
      BY <3>1, <1>5, <1>6
    <3> QED  BY <3>1, <3>2, <3>3
  <2> QED  BY <2>1, <2>2, <1>9 DEF TriedPlaced
<1>12. Counted(r, d - 1)
  <2>1. TriedIds(r.info) = TriedIds(m.info) \ {j} /\ j \in TriedIds(m.info)
    BY <1>5, <1>6, <1>9 DEF TriedIds
  <2>2. /\ Cardinality(DOMAIN m.info) \in Nat /\ IsFiniteSet(TriedIds(m.info))
        /\ Cardinality(TriedIds(m.info)) \in Nat
    BY <1>0, IdsFinite
  <2>3. Cardinality(TriedIds(r.info)) = Cardinality(TriedIds(m.info)) - 1
    BY <2>1, <2>2, FS_RemoveElement
  <2> QED  BY <2>2, <2>3, <1>0, <1>3, <1>4, <1>9 DEF Counted
<1> QED  BY <1>3, <1>4, <1>6, <1>8, <1>9, <1>10, <1>11, <1>12, <1>t DEF Near, r

\* MakeTried: an entry enters a free slot of the tried table
Try(m, i, t) == [m EXCEPT !.tried[t] = i, !.nTried = @ + 1, !.info[i].tried = TRUE]

Tried(m, r, i) ==
    /\ r.new = m.new /\ r.nNew = m.nNew /\ r.info[i].tried
    /\ \A k \in DOMAIN m.info \ {i} : r.info[k] = m.info[k]

LEMMA TryKeeps ==
    ASSUME NEW m, NEW F, NEW d \in Int, Near(m, F, d), NEW i \in F, NEW t,
           t = GetTriedSlot[m.info[i].addr], m.tried[t] = Nobody
    PROVE  LET r == Try(m, i, t) IN
           Near(r, F \ {i}, d + 1) /\ Patched(m, r) /\ Tried(m, r, i)
<1> DEFINE r == Try(m, i, t)
           e == [m.info[i] EXCEPT !.tried = TRUE]
<1>0. Shaped(m) /\ Referred(m, F) /\ TriedPlaced(m) /\ Indexed(m) /\ Counted(m, d)
  BY DEF Near
<1>1. /\ Whole(m) /\ m.info \in [DOMAIN m.info -> Info] /\ i \in DOMAIN m.info /\ m.info[i] \in Info /\ i # Nobody
      /\ m.tried \in [TriedSlot -> DOMAIN m.info \cup {Nobody}] /\ m.nTried \in Int
  BY <1>0 DEF Shaped, Nobody, Referred
<1>2. t \in TriedSlot
  <2>1. m.info[i].addr \in Addr
    BY <1>1 DEF Info
  <2> QED  BY <2>1, AddrManAssumption
<1>3. r.info = [m.info EXCEPT ![i] = e] /\ r.tried = [m.tried EXCEPT ![t] = i] /\ r.nTried = m.nTried + 1
  BY <1>1 DEF Whole, Fields, Try
<1>4. /\ r.addr = m.addr /\ r.random = m.random /\ r.ids = m.ids /\ r.new = m.new
      /\ r.nNew = m.nNew /\ Whole(r)
  BY <1>1 DEF Whole, Fields, Try
<1>5. /\ e \in Info /\ e.tried = TRUE /\ e.addr = m.info[i].addr /\ e.source = m.info[i].source
      /\ e.ref = m.info[i].ref /\ e.rnd = m.info[i].rnd
  BY <1>1, EntryChange, TRUE \in BOOLEAN
<1> HIDE DEF r, e
<1>6. r.info[i] = e /\ \A k \in DOMAIN m.info \ {i} : r.info[k] = m.info[k]
  BY <1>1, <1>3
<1>7. r.tried \in [TriedSlot -> DOMAIN m.info \cup {Nobody}] /\ r.tried[t] = i
      /\ \A s \in TriedSlot \ {t} : r.tried[s] = m.tried[s]
  BY <1>1, <1>2, <1>3
<1>8. Patched(m, r)
  <2>1. r.info \in [DOMAIN m.info -> Info]
    BY <1>1, <1>3, <1>5
  <2>2. \A k \in DOMAIN m.info : /\ r.info[k].addr = m.info[k].addr
                                 /\ r.info[k].source = m.info[k].source
                                 /\ r.info[k].rnd = m.info[k].rnd
    BY <1>5, <1>6
  <2>3. r.nTried \in Int
    BY <1>1, <1>3
  <2> QED  BY <1>0, <1>4, <1>7, <2>1, <2>2, <2>3 DEF Shaped, Patched
<1>9. Shaped(r) /\ Indexed(r) /\ DOMAIN r.info = DOMAIN m.info
  BY <1>0, <1>8, PatchedKeeps
<1>10. Referred(r, F \ {i})
  <2>1. m.info[i].ref = 0 /\ ~m.info[i].tried /\ F \ {i} \subseteq DOMAIN m.info
    BY <1>0, <1>1 DEF Referred
  <2>2. ASSUME NEW k \in DOMAIN m.info
        PROVE  /\ r.info[k].ref = Cardinality(Places(r.new, k)) /\ r.info[k].ref <= MaxRefs
               /\ \A s \in Places(r.new, k) : s = Position(r.info[k].addr, s[1])
               /\ k \in F \ {i} => r.info[k].ref = 0 /\ ~r.info[k].tried
               /\ k \notin F \ {i} => r.info[k].tried \/ r.info[k].ref >= 1
               /\ r.info[k].tried => r.info[k].ref = 0
    <3>1. CASE k # i
      BY <3>1, <1>0, <1>4, <1>6 DEF Referred
    <3>2. CASE k = i
      BY <3>2, <2>1, <1>0, <1>4, <1>5, <1>6 DEF Referred
    <3> QED  BY <3>1, <3>2
  <2> QED  BY <2>1, <2>2, <1>9 DEF Referred
<1>11. TriedPlaced(r)
  <2>1. ASSUME NEW k \in DOMAIN m.info
        PROVE  r.info[k].tried <=> r.tried[GetTriedSlot[r.info[k].addr]] = k
    <3>1. CASE k = i
      BY <3>1, <1>5, <1>6, <1>7
    <3>2. CASE k # i
      <4>1. r.info[k] = m.info[k] /\ m.info[k].addr \in Addr
        BY <3>2, <1>1, <1>6 DEF Info
      <4>2. GetTriedSlot[m.info[k].addr] \in TriedSlot /\ k # Nobody
        BY <4>1, <1>0, AddrManAssumption DEF Shaped, Nobody
      <4>3. m.info[k].tried <=> m.tried[GetTriedSlot[m.info[k].addr]] = k
        BY <1>0 DEF TriedPlaced
      <4> QED  BY <3>2, <4>1, <4>2, <4>3, <1>7
    <3> QED  BY <3>1, <3>2
  <2>2. ASSUME NEW s \in TriedSlot, r.tried[s] # Nobody PROVE GetTriedSlot[r.info[r.tried[s]].addr] = s
    <3>1. CASE s = t
      BY <3>1, <1>5, <1>6, <1>7
    <3>2. CASE s # t
      <4>1. r.tried[s] = m.tried[s] /\ m.tried[s] \in DOMAIN m.info
        BY <2>2, <3>2, <1>1, <1>7
      <4>2. GetTriedSlot[m.info[m.tried[s]].addr] = s
        BY <2>2, <4>1, <1>0 DEF TriedPlaced
      <4>3. r.info[m.tried[s]].addr = m.info[m.tried[s]].addr
        BY <4>1, <1>5, <1>6
      <4> QED  BY <4>1, <4>2, <4>3
    <3> QED  BY <3>1, <3>2
  <2> QED  BY <2>1, <2>2, <1>9 DEF TriedPlaced
<1>12. Counted(r, d + 1)
  <2>1. TriedIds(r.info) = TriedIds(m.info) \cup {i} /\ i \notin TriedIds(m.info)
    <3>1. ~m.info[i].tried
      BY <1>0, <1>1 DEF Referred
    <3> QED  BY <3>1, <1>1, <1>5, <1>6, <1>9 DEF TriedIds
  <2>2. /\ Cardinality(DOMAIN m.info) \in Nat /\ IsFiniteSet(TriedIds(m.info))
        /\ Cardinality(TriedIds(m.info)) \in Nat
    BY <1>0, IdsFinite
  <2>3. Cardinality(TriedIds(r.info)) = Cardinality(TriedIds(m.info)) + 1
    BY <2>1, <2>2, FS_AddElement
  <2> QED  BY <2>2, <2>3, <1>0, <1>3, <1>4, <1>9 DEF Counted
<1>13. r.info[i].tried
  BY <1>5, <1>6
<1> QED  BY <1>3, <1>4, <1>6, <1>8, <1>9, <1>10, <1>11, <1>12, <1>13 DEF Near, Tried, r

\* the entry that has to make room goes back to the new table
LEMMA EvictKeeps ==
    ASSUME NEW m, NEW F, NEW d \in Int, Near(m, F, d), NEW j \in DOMAIN m.info, m.info[j].tried
    PROVE  LET r == Evict(m, j) IN
           /\ Near(r, F, d)
           /\ r.tried = [m.tried EXCEPT ![GetTriedSlot[m.info[j].addr]] = Nobody]
           /\ \A k \in F : r.info[k].addr = m.info[k].addr
           /\ \A a \in Addr : r.addr[a] # m.addr[a] =>
                 m.addr[a] \in DOMAIN m.info \ F
                 /\ ~m.info[m.addr[a]].tried /\ m.info[m.addr[a]].ref = 1
<1> DEFINE r == Evict(m, j)
           e == m.info[j]
           b == GetNewBucket[e.addr, e.source]
           slot == Position(e.addr, b)
           u == Untry(m, j)
           c == ClearNew(u, slot)
           G == F \cup {j}
           p == PutNew(c, j, slot)
           D == d - 1
<1>1. Shaped(m) /\ m.info[j] \in Info /\ m.addr \in [Addr -> DOMAIN m.info \cup {Nobody}]
  BY DEF Near, Shaped
<1>2. j \notin F /\ F \subseteq DOMAIN m.info
  BY DEF Near, Referred
<1>3. b \in Bucket /\ slot \in NewSlot /\ MaxRefs \in Nat /\ MaxRefs >= 1
  <2>0. MaxRefs \in Nat /\ MaxRefs >= 1
    BY AddrManAssumption
  <2>1. e.addr \in Addr /\ e.source \in Source
    BY <1>1 DEF Info
  <2>2. b \in Bucket
    BY <2>1, BucketIs
  <2> HIDE DEF b
  <2> QED  BY <2>0, <2>1, <2>2, PositionIs
<1>4. /\ Near(u, G, D) /\ Patched(m, u) /\ u.new = m.new
      /\ u.tried = [m.tried EXCEPT ![GetTriedSlot[m.info[j].addr]] = Nobody]
      /\ \A k \in DOMAIN m.info \ {j} : u.info[k] = m.info[k]
  BY UntryKeeps
<1>5. DOMAIN u.info = DOMAIN m.info /\ u.addr = m.addr /\ u.info[j].addr = e.addr
      /\ \A k \in DOMAIN m.info : u.info[k].addr = m.info[k].addr
  BY <1>4 DEF Patched
<1>6. D \in Int /\ D + 1 = d /\ G \ {j} = F /\ 1 \in Int
  BY <1>2
<1>7. r = [[c EXCEPT !.info[j].ref = 1, !.new[slot] = j] EXCEPT !.nNew = @ + 1]
  <2>1. r = [c EXCEPT !.info[j].ref = 1, !.new[slot] = j, !.nNew = @ + 1]
    BY DEF Evict, Untry
  <2> QED  BY <2>1
<1>8. slot = Position(e.addr, b) /\ G = F \cup {j}
  OBVIOUS
<1> HIDE DEF u, c, slot, b, G, D
<1>9. /\ Near(c, G, D) /\ c.new[slot] = Nobody /\ c.tried = u.tried
      /\ \A k \in DOMAIN u.info : k # u.new[slot] => k \in DOMAIN c.info /\ Alike(c.info[k], u.info[k])
      /\ \A a \in Addr : c.addr[a] # u.addr[a] =>
            u.addr[a] = u.new[slot] /\ ~u.info[u.addr[a]].tried /\ u.info[u.addr[a]].ref = 1
  BY <1>3, <1>4, <1>6, ClearKeeps DEF c
<1>10. ASSUME NEW k \in G
       PROVE  k # u.new[slot] /\ k \in DOMAIN c.info /\ c.info[k].ref = 0 /\ ~c.info[k].tried
              /\ c.info[k].addr = m.info[k].addr
  <2>1. k \in DOMAIN u.info /\ k # Nobody
    BY <1>4 DEF Near, Referred, Shaped, Nobody
  <2>2. k # u.new[slot]
    <3> SUFFICES ASSUME u.new[slot] = k PROVE FALSE
      OBVIOUS
    <3>1. Near(u, G, D) /\ D \in Int /\ slot \in NewSlot
      BY <1>3, <1>4, <1>6
    <3>2. k \in DOMAIN u.info \ G
      BY <2>1, <3>1, TakeKeeps
    <3> QED  BY <3>2
  <2>3. k \in DOMAIN c.info /\ Alike(c.info[k], u.info[k])
    BY <2>1, <2>2, <1>9
  <2>4. c.info[k].ref = 0 /\ ~c.info[k].tried
    BY <2>3, <1>9 DEF Near, Referred
  <2> QED  BY <2>1, <2>2, <2>3, <2>4, <1>5 DEF Alike
<1>11. j \in G /\ F \subseteq G
  BY <1>8
<1>12. /\ Near(p, G \ {j}, D) /\ Patched(c, p) /\ p.tried = c.tried
  <2>1. j \in DOMAIN c.info /\ c.info[j].addr = e.addr /\ ~c.info[j].tried /\ c.info[j].ref < MaxRefs
    BY <1>3, <1>10, <1>11
  <2>2. slot = Position(c.info[j].addr, b)
    BY <2>1, <1>8
  <2>3. p = PutNew(c, j, Position(c.info[j].addr, b)) /\ c.new[Position(c.info[j].addr, b)] = Nobody
    BY <2>2, <1>9
  <2> HIDE DEF p
  <2>4. Near(p, G \ {j}, D) /\ Patched(c, p) /\ PlaceGiven(c, p, j, Position(c.info[j].addr, b))
    BY <2>1, <2>3, <1>3, <1>6, <1>9, PutKeeps
  <2> QED  BY <2>4 DEF PlaceGiven
<1>13. r = [p EXCEPT !.nNew = @ + 1]
  <2>1. p = [c EXCEPT !.info[j].ref = 1, !.new[slot] = j]
    <3>1. c.info[j].ref + 1 = 1
      BY <1>10, <1>11
    <3>2. p = [c EXCEPT !.info[j].ref = c.info[j].ref + 1, !.new[slot] = j]
      BY DEF PutNew
    <3> QED  BY <3>1, <3>2
  <2> HIDE DEF p, r
  <2> QED  BY <2>1, <1>7
<1> HIDE DEF r, p
<1>14. Near(r, G \ {j}, D + 1) /\ r.info = p.info /\ r.addr = p.addr /\ r.tried = p.tried
  BY <1>6, <1>12, <1>13, NewCounted
<1>15. Near(r, F, d)
  BY <1>14, <1>6
<1>16. r.tried = [m.tried EXCEPT ![GetTriedSlot[m.info[j].addr]] = Nobody]
  BY <1>4, <1>9, <1>12, <1>14
<1>17. \A k \in F : r.info[k].addr = m.info[k].addr
  <2>1. \A k \in DOMAIN c.info : p.info[k].addr = c.info[k].addr
    BY <1>12 DEF Patched
  <2> QED  BY <2>1, <1>10, <1>11, <1>14
<1>18. ASSUME NEW a \in Addr, r.addr[a] # m.addr[a]
       PROVE  m.addr[a] \in DOMAIN m.info \ F /\ ~m.info[m.addr[a]].tried /\ m.info[m.addr[a]].ref = 1
  <2>1. c.addr[a] # u.addr[a] /\ u.addr[a] = m.addr[a]
    BY <1>18, <1>5, <1>12, <1>14 DEF Patched
  <2>2. m.addr[a] = u.new[slot] /\ ~u.info[m.addr[a]].tried /\ u.info[m.addr[a]].ref = 1
    BY <2>1, <1>9
  <2>3. m.addr[a] \notin G
    BY <2>2, <1>10
  <2>4. m.addr[a] \in DOMAIN m.info
    <3>2. u.addr[a] # Nobody
      <4>1. SUFFICES ASSUME u.addr[a] = Nobody PROVE FALSE
        OBVIOUS
      <4>2. u.new[slot] = Nobody
        BY <4>1, <2>1, <2>2
      <4>3. c = u
        BY <4>2 DEF c, ClearNew
      <4> QED  BY <4>3, <2>1
    <3> QED  BY <3>2, <2>1, <1>1
  <2>5. u.info[m.addr[a]] = m.info[m.addr[a]]
    BY <2>3, <2>4, <1>4, <1>11
  <2> QED  BY <2>2, <2>3, <2>4, <2>5, <1>11
<1> QED  BY <1>15, <1>16, <1>17, <1>18 DEF r

LEMMA GoodKeeps ==
    ASSUME Near(man, {}, 0), NEW a \in Addr, Good(a)
    PROVE  Near(man', {}, 0) /\ Forgets(man, man')
<1> DEFINE i == man.addr[a]
           t == GetTriedSlot[man.info[i].addr]
           out == TakeAll(man, i)
           j == out.tried[t]
           room == IF j = Nobody THEN out ELSE Evict(out, j)
           F == {i}
           D == -1
<1>1. i # Nobody /\ ~man.info[i].tried
  BY DEF Good
<1>2. man' = MakeTried(man, i)
  BY DEF Good
<1>3. man' = [room EXCEPT !.tried[t] = i, !.nTried = @ + 1, !.info[i].tried = TRUE]
  BY <1>2 DEF MakeTried, TakeAll
<1>4. man' = Try(room, i, t)
  BY <1>3 DEF Try
<1>5. /\ Shaped(man) /\ i \in DOMAIN man.info /\ man.info[i] \in Info
      /\ man.addr \in [Addr -> DOMAIN man.info \cup {Nobody}]
  BY <1>1 DEF Near, Shaped
<1>6. t \in TriedSlot
  <2>1. man.info[i].addr \in Addr
    BY <1>5 DEF Info
  <2> QED  BY <2>1, AddrManAssumption
<1>7. F \ {i} = {} /\ D + 1 = 0 /\ D = 0 - 1 /\ D \in Int /\ i \in F /\ 0 \in Int
  OBVIOUS
<1>8. t = GetTriedSlot[man.info[i].addr] /\ j = out.tried[t]
  OBVIOUS
<1>9. (j = Nobody => room = out) /\ (j # Nobody => room = Evict(out, j))
  OBVIOUS
<1>F. F = {i}
  OBVIOUS
<1> HIDE DEF i, t, j, room, D, F
<1>10. /\ Near(out, F, D) /\ Patched(man, out) /\ out.tried = man.tried
       /\ \A k \in DOMAIN man.info \ {i} : out.info[k] = man.info[k]
  <2> HIDE DEF out
  <2>1. LET r == out IN
        /\ Near(r, {i}, 0 - 1) /\ Patched(man, r) /\ r.tried = man.tried
        /\ \A k \in DOMAIN man.info \ {i} : r.info[k] = man.info[k]
    BY <1>1, <1>5, <1>7, TakeAllKeeps DEF out
  <2> QED  BY <2>1, <1>7, <1>F
<1> HIDE DEF out
<1>11. /\ DOMAIN out.info = DOMAIN man.info /\ out.addr = man.addr
       /\ \A k \in DOMAIN man.info : out.info[k].addr = man.info[k].addr
  BY <1>10 DEF Patched
<1>12. /\ Near(room, F, D) /\ room.tried[t] = Nobody /\ room.info[i].addr = man.info[i].addr
       /\ \A e \in Addr : room.addr[e] # man.addr[e] =>
             ~man.info[man.addr[e]].tried /\ man.info[man.addr[e]].ref = 1
  <2>1. CASE j = Nobody
    BY <2>1, <1>5, <1>8, <1>9, <1>10, <1>11
  <2>2. CASE j # Nobody
    <3>1. j \in DOMAIN out.info /\ GetTriedSlot[out.info[j].addr] = t /\ out.tried \in [TriedSlot -> DOMAIN out.info \cup {Nobody}]
      BY <2>2, <1>6, <1>8, <1>10 DEF Near, Shaped, TriedPlaced
    <3>2. out.info[j].tried
      BY <3>1, <1>8, <1>10 DEF Near, TriedPlaced
    <3>3. /\ Near(room, F, D)
          /\ room.tried = [out.tried EXCEPT ![GetTriedSlot[out.info[j].addr]] = Nobody]
          /\ \A k \in F : room.info[k].addr = out.info[k].addr
          /\ \A e \in Addr : room.addr[e] # out.addr[e] =>
                out.addr[e] \in DOMAIN out.info \ F
                /\ ~out.info[out.addr[e]].tried /\ out.info[out.addr[e]].ref = 1
      BY <2>2, <3>1, <3>2, <1>7, <1>9, <1>10, EvictKeeps
    <3>4. room.tried[t] = Nobody
      BY <3>1, <3>3, <1>6
    <3>5. room.info[i].addr = man.info[i].addr
      BY <3>3, <1>5, <1>7, <1>11
    <3>6. ASSUME NEW e \in Addr, room.addr[e] # man.addr[e]
          PROVE  ~man.info[man.addr[e]].tried /\ man.info[man.addr[e]].ref = 1
      <4>1. man.addr[e] \in DOMAIN man.info \ F /\ ~out.info[man.addr[e]].tried /\ out.info[man.addr[e]].ref = 1
        BY <3>3, <3>6, <1>11
      <4>3. out.info[man.addr[e]] = man.info[man.addr[e]]
        BY <4>1, <1>F, <1>10
      <4> QED  BY <4>1, <4>3
    <3> QED  BY <3>3, <3>4, <3>5, <3>6
  <2> QED  BY <2>1, <2>2
<1>13. t = GetTriedSlot[room.info[i].addr]
  BY <1>8, <1>12
<1>14. Near(man', F \ {i}, D + 1) /\ Patched(room, man')
  <2>1. Near(room, F, D) /\ D \in Int /\ i \in F /\ t = GetTriedSlot[room.info[i].addr] /\ room.tried[t] = Nobody
    BY <1>7, <1>12, <1>13
  <2>2. Near(Try(room, i, t), F \ {i}, D + 1) /\ Patched(room, Try(room, i, t))
    BY <2>1, TryKeeps
  <2> QED  BY <2>2, <1>4
<1>15. Near(man', {}, 0) /\ man'.addr = room.addr
  BY <1>7, <1>14 DEF Patched
<1>16. Forgets(man, man')
  BY <1>12, <1>15 DEF Forgets
<1> QED  BY <1>15, <1>16

\* all managers, whatever they hold
Man ==
    [info : UNION {[D -> Info] : D \in SUBSET Nat}, addr : [Addr -> Nat \cup {Nobody}],
     random : Seq(Nat), new : [NewSlot -> Nat \cup {Nobody}], tried : [TriedSlot -> Nat \cup {Nobody}],
     nNew : Int, nTried : Int, ids : Nat]

LEMMA NearMan ==
    ASSUME NEW m, NEW F, NEW d, Near(m, F, d)
    PROVE  m \in Man
<1>1. Shaped(m) /\ MaxId \in Nat
  BY AddrManAssumption DEF Near
<1>2. DOMAIN m.info \in SUBSET Nat
  BY <1>1 DEF Shaped
<1>3. m.info \in UNION {[D -> Info] : D \in SUBSET Nat}
  BY <1>1, <1>2 DEF Shaped
<1>4. /\ m.addr \in [Addr -> Nat \cup {Nobody}]
      /\ m.new \in [NewSlot -> Nat \cup {Nobody}] /\ m.tried \in [TriedSlot -> Nat \cup {Nobody}]
  BY <1>1, <1>2 DEF Shaped
<1>5. m.random \in Seq(Nat)
  BY <1>1, <1>2 DEF Shaped
<1>6. m.ids \in Nat /\ m.nNew \in Int /\ m.nTried \in Int
  BY <1>1 DEF Shaped
<1>7. Whole(m)
  BY <1>1 DEF Shaped
<1> QED  BY <1>3, <1>4, <1>5, <1>6, <1>7 DEF Man, Whole, Fields

\* GetAddr_ swaps some entries of vRandom
LEMMA GetAddrKeeps ==
    ASSUME Near(man, {}, 0), NEW n \in 1 .. Len(man.random),
           NEW at \in [1 .. n -> 1 .. Len(man.random)], GetAddr(n, at)
    PROVE  Near(man', {}, 0) /\ Forgets(man, man')
<1> DEFINE L == DOMAIN man.random
           s == [k \in 1 .. n |-> k]
           A == {m \in Man : Near(m, {}, 0) /\ DOMAIN m.random = L /\ m.addr = man.addr}
           Op(m, k) == IF k = at[k] THEN m ELSE SwapRandom(m, k, at[k])
           step == [z \in A \X (1 .. n) |-> Op(z[1], s[z[2]])]
<1>0. /\ n \in Nat /\ DOMAIN s = 1 .. n /\ \A k \in 1 .. n : s[k] = k /\ s[k] \in 1 .. n
      /\ L = 1 .. Len(man.random) /\ n <= Len(man.random) /\ Len(man.random) \in Nat
  BY DEF Near, Shaped
<1>1. man \in A
  BY NearMan
<1>2. ASSUME NEW m \in A, NEW k \in 1 .. n PROVE Op(m, k) \in A
  <2>1. CASE k = at[k]
    BY <2>1
  <2>2. CASE k # at[k]
    <3>1. k \in L /\ at[k] \in L
      BY <1>0
    <3> DEFINE r == SwapRandom(m, k, at[k])
               E == {}
    <3>2. Near(m, E, 0) /\ k \in DOMAIN m.random /\ at[k] \in DOMAIN m.random
      BY <3>1
    <3> HIDE DEF E
    <3>3. Near(r, E, 0) /\ DOMAIN r.random = DOMAIN m.random /\ r.addr = m.addr
      BY <3>2, SwapKeeps
    <3>4. r \in Man
      BY <3>3, NearMan
    <3>5. Op(m, k) = r
      BY <2>2
    <3> HIDE DEF r, Op
    <3> QED  BY <3>3, <3>4, <3>5 DEF E
  <2> QED  BY <2>1, <2>2
<1>3. man' = FoldLeft(LAMBDA m, k : Op(m, k), man, s)
  BY DEF GetAddr
<1> HIDE DEF s, A, Op, L
<1>4. StepOn(step, A, n)
  BY <1>0, <1>2 DEF Closed, StepOn
<1>5. PICK g \in [SUBSET (1 .. n) -> A] : SolvesTo(g, man, step, n)
  <2> HIDE DEF step
  <2> QED  BY <1>0, <1>1, <1>4, SequenceRecursion
<1>6. g = [x \in SUBSET DOMAIN s |-> IF x = {} THEN man ELSE Op(g[x \ {Max(x)}], s[Max(x)])]
  BY <1>0, <1>5, MaxTo DEF SolvesTo
<1>7. PICK f : /\ f = [x \in SUBSET DOMAIN s |-> IF x = {} THEN man ELSE Op(f[x \ {Max(x)}], s[Max(x)])]
               /\ man' = f[DOMAIN s]
  BY <1>3, <1>6 DEF FoldLeft, MapThenFoldSet
<1>8. Unrolls(f, man, step, n)
  BY <1>0, <1>7, MaxTo DEF Unrolls
<1>9. PICK h : Runs(h, man, step, A, n) /\ h[n] = f[1 .. n]
  <2> HIDE DEF step
  <2> QED  BY <1>0, <1>1, <1>4, <1>8, Unrolled
<1>10. man' = h[n] /\ h[n] \in A
  BY <1>0, <1>7, <1>9 DEF Runs
<1> QED  BY <1>10 DEF A, Forgets

----------------------------------------------------------------------------
(* Loading peers.dat. *)

FileEntry == [addr : Addr, source : Source]

LEMMA ManFields ==
    ASSUME NEW m \in Man
    PROVE  /\ Whole(m) /\ DOMAIN m.info \in SUBSET Nat /\ m.info \in [DOMAIN m.info -> Info]
           /\ m.addr \in [Addr -> Nat \cup {Nobody}] /\ m.random \in Seq(Nat)
           /\ m.new \in [NewSlot -> Nat \cup {Nobody}] /\ m.tried \in [TriedSlot -> Nat \cup {Nobody}]
           /\ m.nNew \in Int /\ m.nTried \in Int /\ m.ids \in Nat
<1>1. Whole(m)
  BY DEF Man, Whole, Fields
<1>2. PICK D \in SUBSET Nat : m.info \in [D -> Info]
  BY DEF Man
<1> QED  BY <1>1, <1>2 DEF Man

LEMMA IsMan ==
    ASSUME NEW m, Whole(m), DOMAIN m.info \in SUBSET Nat, m.info \in [DOMAIN m.info -> Info],
           m.addr \in [Addr -> Nat \cup {Nobody}], m.random \in Seq(Nat),
           m.new \in [NewSlot -> Nat \cup {Nobody}], m.tried \in [TriedSlot -> Nat \cup {Nobody}],
           m.nNew \in Int, m.nTried \in Int, m.ids \in Nat
    PROVE  m \in Man
<1>1. m.info \in UNION {[D -> Info] : D \in SUBSET Nat}
  OBVIOUS
<1> QED  BY <1>1 DEF Man, Whole, Fields

LEMMA CreateType ==
    ASSUME NEW m \in Man, NEW a \in Addr, NEW c \in Source
    PROVE  Create(m, a, c) \in Man /\ m.ids \in DOMAIN Create(m, a, c).info
<1> DEFINE r == Create(m, a, c)
           e == [addr |-> a, source |-> c, ref |-> 0, tried |-> FALSE, rnd |-> Len(m.random) + 1]
<1>0. /\ Whole(m) /\ DOMAIN m.info \in SUBSET Nat /\ m.info \in [DOMAIN m.info -> Info]
      /\ m.addr \in [Addr -> Nat \cup {Nobody}] /\ m.random \in Seq(Nat)
      /\ m.new \in [NewSlot -> Nat \cup {Nobody}] /\ m.tried \in [TriedSlot -> Nat \cup {Nobody}]
      /\ m.nNew \in Int /\ m.nTried \in Int /\ m.ids \in Nat
  BY ManFields
<1>1. /\ Whole(r)
      /\ r.info = [i \in DOMAIN m.info \cup {m.ids} |-> IF i = m.ids THEN e ELSE m.info[i]]
      /\ r.addr = [m.addr EXCEPT ![a] = m.ids] /\ r.random = Append(m.random, m.ids)
      /\ r.ids = m.ids + 1 /\ r.new = m.new /\ r.tried = m.tried
      /\ r.nNew = m.nNew /\ r.nTried = m.nTried
  BY <1>0 DEF Create, Whole, Fields
<1>2. e \in Info
  BY <1>0 DEF Info
<1> HIDE DEF r, e
<1>3. DOMAIN r.info = DOMAIN m.info \cup {m.ids} /\ DOMAIN r.info \in SUBSET Nat
  BY <1>0, <1>1
<1>4. r.info \in [DOMAIN r.info -> Info]
  BY <1>0, <1>1, <1>2, <1>3
<1>5. r.random \in Seq(Nat) /\ r.addr \in [Addr -> Nat \cup {Nobody}]
  BY <1>0, <1>1
<1>6. r.ids \in Nat /\ r.nNew \in Int /\ r.nTried \in Int
  BY <1>0, <1>1
<1>7. r.new \in [NewSlot -> Nat \cup {Nobody}] /\ r.tried \in [TriedSlot -> Nat \cup {Nobody}] /\ Whole(r)
  BY <1>0, <1>1
<1>8. r \in Man
  BY <1>3, <1>4, <1>5, <1>6, <1>7, IsMan
<1> QED  BY <1>3, <1>8 DEF r

LEMMA LoadTriedType ==
    ASSUME NEW m \in Man, NEW e \in FileEntry
    PROVE  LoadTried(m, e) \in Man
<1> DEFINE t == GetTriedSlot[e.addr]
           c == Create(m, e.addr, e.source)
           x == [m EXCEPT !.nTried = @ - 1]
           r == [c EXCEPT !.info[m.ids].tried = TRUE, !.tried[t] = m.ids]
<1>1. e.addr \in Addr /\ e.source \in Source
  BY DEF FileEntry
<1>2. t \in TriedSlot
  BY <1>1, AddrManAssumption
<1>3. c \in Man /\ m.ids \in DOMAIN c.info /\ m.ids \in Nat
  BY <1>1, CreateType, ManFields
<1>4. LoadTried(m, e) = IF m.tried[t] # Nobody THEN x ELSE r
  BY DEF LoadTried
<1>5. x \in Man
  <2>1. m.nTried - 1 \in Int
    BY DEF Man
  <2> QED  BY <2>1 DEF Man
<1> HIDE DEF c, t, x
<1>6. r \in Man
  <2> DEFINE i == m.ids
             o == c.info[i]
             f == [o EXCEPT !.tried = TRUE]
  <2>0. /\ Whole(c) /\ DOMAIN c.info \in SUBSET Nat /\ c.info \in [DOMAIN c.info -> Info]
        /\ c.addr \in [Addr -> Nat \cup {Nobody}] /\ c.random \in Seq(Nat)
        /\ c.new \in [NewSlot -> Nat \cup {Nobody}] /\ c.tried \in [TriedSlot -> Nat \cup {Nobody}]
        /\ c.nNew \in Int /\ c.nTried \in Int /\ c.ids \in Nat
    BY <1>3, ManFields
  <2>1. i \in DOMAIN c.info /\ o \in Info
    BY <1>3, <2>0
  <2>2. f \in Info
    <3> HIDE DEF o
    <3> QED  BY <2>1, EntryChange
  <2>3. /\ Whole(r) /\ r.info = [c.info EXCEPT ![i] = f] /\ r.tried = [c.tried EXCEPT ![t] = i]
        /\ r.addr = c.addr /\ r.random = c.random /\ r.new = c.new /\ r.nNew = c.nNew
        /\ r.nTried = c.nTried /\ r.ids = c.ids
    BY <2>0 DEF Whole, Fields
  <2>4. i \in Nat
    BY <1>3
  <2> HIDE DEF r, f, o, i
  <2>5. r.info \in [DOMAIN r.info -> Info] /\ DOMAIN r.info \in SUBSET Nat
    BY <2>0, <2>2, <2>3
  <2>6. r.tried \in [TriedSlot -> Nat \cup {Nobody}]
    BY <2>0, <2>3, <2>4, <1>2
  <2> QED  BY <2>0, <2>3, <2>5, <2>6, IsMan
<1> QED  BY <1>4, <1>5, <1>6

\* the managers that LoadRef can work on: the entries of new have the first ids
Loading == {m \in Man : \A i \in Nat : i < m.nNew => i \in DOMAIN m.info}

LEMMA LoadRefType ==
    ASSUME NEW m \in Loading, NEW b \in Bucket, NEW i \in Nat
    PROVE  LoadRef(m, b, i) \in Loading
<1> DEFINE slot == Position(m.info[i].addr, b)
           r == PutNew(m, i, slot)
           o == m.info[i]
           f == [o EXCEPT !.ref = o.ref + 1]
<1>0. m \in Man /\ \A k \in Nat : k < m.nNew => k \in DOMAIN m.info
  BY DEF Loading
<1>1. LoadRef(m, b, i) = m \/ (i < m.nNew /\ LoadRef(m, b, i) = r)
  BY DEF LoadRef, PutNew
<1>2. ASSUME i < m.nNew PROVE r \in Loading
  <2>0. /\ Whole(m) /\ DOMAIN m.info \in SUBSET Nat /\ m.info \in [DOMAIN m.info -> Info]
        /\ m.addr \in [Addr -> Nat \cup {Nobody}] /\ m.random \in Seq(Nat)
        /\ m.new \in [NewSlot -> Nat \cup {Nobody}] /\ m.tried \in [TriedSlot -> Nat \cup {Nobody}]
        /\ m.nNew \in Int /\ m.nTried \in Int /\ m.ids \in Nat
    BY <1>0, ManFields
  <2>1. i \in DOMAIN m.info /\ o \in Info
    BY <1>0, <1>2, <2>0
  <2>2. f \in Info
    <3>1. o.ref + 1 \in Int
      BY <2>1 DEF Info
    <3> HIDE DEF o
    <3> QED  BY <2>1, <3>1, EntryChange
  <2>3. slot \in NewSlot
    BY <2>1, PositionIs DEF Info
  <2>4. /\ Whole(r) /\ r.info = [m.info EXCEPT ![i] = f] /\ r.new = [m.new EXCEPT ![slot] = i]
        /\ r.addr = m.addr /\ r.random = m.random /\ r.tried = m.tried /\ r.nNew = m.nNew
        /\ r.nTried = m.nTried /\ r.ids = m.ids
    BY <2>0 DEF Whole, Fields, PutNew
  <2> HIDE DEF r, f, o, slot
  <2>5. DOMAIN r.info = DOMAIN m.info /\ r.info \in [DOMAIN r.info -> Info]
    BY <2>0, <2>2, <2>4
  <2>6. r.new \in [NewSlot -> Nat \cup {Nobody}]
    BY <2>0, <2>3, <2>4
  <2>7. r \in Man
    BY <2>0, <2>4, <2>5, <2>6, IsMan
  <2> QED  BY <1>0, <2>4, <2>5, <2>7 DEF Loading
<1> QED  BY <1>1, <1>2

\* the entries of new are loaded one after the other
LEMMA LoadAllNewRuns ==
    ASSUME NEW base \in Man, NEW n \in Nat, NEW s, DOMAIN s = 1 .. n, \A k \in 1 .. n : s[k] \in FileEntry
    PROVE  \E h : /\ h[0] = base /\ \A k \in 1 .. n : h[k] = LoadNew(h[k - 1], s[k])
                  /\ LoadAllNew(base, s) = h[n]
<1> DEFINE step == [z \in Man \X (1 .. n) |-> LoadNew(z[1], s[z[2]])]
<1>2. ASSUME NEW m \in Man, NEW k \in 1 .. n PROVE LoadNew(m, s[k]) \in Man
  BY CreateType DEF LoadNew, FileEntry
<1>4. StepOn(step, Man, n)
  BY <1>2 DEF Closed, StepOn
<1>5. PICK g \in [SUBSET (1 .. n) -> Man] : SolvesTo(g, base, step, n)
  <2> HIDE DEF step
  <2> QED  BY <1>4, SequenceRecursion
<1>6. g = [x \in SUBSET DOMAIN s |-> IF x = {} THEN base ELSE LoadNew(g[x \ {Max(x)}], s[Max(x)])]
  BY <1>5, MaxTo DEF SolvesTo
<1>7. PICK f : /\ f = [x \in SUBSET DOMAIN s |-> IF x = {} THEN base ELSE LoadNew(f[x \ {Max(x)}], s[Max(x)])]
               /\ LoadAllNew(base, s) = f[DOMAIN s]
  BY <1>6 DEF LoadAllNew, FoldLeft, MapThenFoldSet
<1>8. Unrolls(f, base, step, n)
  BY <1>7, MaxTo DEF Unrolls
<1>9. PICK h : Runs(h, base, step, Man, n) /\ h[n] = f[1 .. n]
  <2> HIDE DEF step
  <2> QED  BY <1>4, <1>8, Unrolled
<1>10. ASSUME NEW k \in 1 .. n PROVE h[k] = LoadNew(h[k - 1], s[k])
  <2>1. h[k - 1] \in Man
    BY <1>9 DEF Runs
  <2> QED  BY <1>9, <2>1 DEF Runs
<1> QED  BY <1>7, <1>9, <1>10 DEF Runs

\* and those of tried
LEMMA LoadAllTriedRuns ==
    ASSUME NEW base \in Man, NEW n \in Nat, NEW s, DOMAIN s = 1 .. n, \A k \in 1 .. n : s[k] \in FileEntry
    PROVE  \E h : /\ h[0] = base /\ \A k \in 1 .. n : h[k] = LoadTried(h[k - 1], s[k])
                  /\ LoadAllTried(base, s) = h[n]
<1> DEFINE step == [z \in Man \X (1 .. n) |-> LoadTried(z[1], s[z[2]])]
<1>4. StepOn(step, Man, n)
  BY LoadTriedType DEF Closed, StepOn
<1>5. PICK g \in [SUBSET (1 .. n) -> Man] : SolvesTo(g, base, step, n)
  <2> HIDE DEF step
  <2> QED  BY <1>4, SequenceRecursion
<1>6. g = [x \in SUBSET DOMAIN s |-> IF x = {} THEN base ELSE LoadTried(g[x \ {Max(x)}], s[Max(x)])]
  BY <1>5, MaxTo DEF SolvesTo
<1>7. PICK f : /\ f = [x \in SUBSET DOMAIN s |-> IF x = {} THEN base ELSE LoadTried(f[x \ {Max(x)}], s[Max(x)])]
               /\ LoadAllTried(base, s) = f[DOMAIN s]
  BY <1>6 DEF LoadAllTried, FoldLeft, MapThenFoldSet
<1>8. Unrolls(f, base, step, n)
  BY <1>7, MaxTo DEF Unrolls
<1>9. PICK h : Runs(h, base, step, Man, n) /\ h[n] = f[1 .. n]
  <2> HIDE DEF step
  <2> QED  BY <1>4, <1>8, Unrolled
<1>10. ASSUME NEW k \in 1 .. n PROVE h[k] = LoadTried(h[k - 1], s[k])
  <2>1. h[k - 1] \in Man
    BY <1>9 DEF Runs
  <2> QED  BY <1>9, <2>1 DEF Runs
<1> QED  BY <1>7, <1>9, <1>10 DEF Runs

\* the references of a bucket
LEMMA LoadBucketRuns ==
    ASSUME NEW base \in Loading, NEW b \in Bucket, NEW n \in Nat, NEW s, DOMAIN s = 1 .. n,
           \A k \in 1 .. n : s[k] \in Nat
    PROVE  /\ \E h : /\ h[0] = base /\ \A k \in 1 .. n : h[k] = LoadRef(h[k - 1], b, s[k])
                     /\ LoadBucket(base, b, s) = h[n]
           /\ LoadBucket(base, b, s) \in Loading
<1> DEFINE step == [z \in Loading \X (1 .. n) |-> LoadRef(z[1], b, s[z[2]])]
<1>4. StepOn(step, Loading, n)
  BY LoadRefType DEF Closed, StepOn
<1>5. PICK g \in [SUBSET (1 .. n) -> Loading] : SolvesTo(g, base, step, n)
  <2> HIDE DEF step
  <2> QED  BY <1>4, SequenceRecursion
<1>6. g = [x \in SUBSET DOMAIN s |-> IF x = {} THEN base ELSE LoadRef(g[x \ {Max(x)}], b, s[Max(x)])]
  BY <1>5, MaxTo DEF SolvesTo
<1>7. PICK f : /\ f = [x \in SUBSET DOMAIN s |-> IF x = {} THEN base ELSE LoadRef(f[x \ {Max(x)}], b, s[Max(x)])]
               /\ LoadBucket(base, b, s) = f[DOMAIN s]
  BY <1>6 DEF LoadBucket, FoldLeft, MapThenFoldSet
<1>8. Unrolls(f, base, step, n)
  BY <1>7, MaxTo DEF Unrolls
<1>9. PICK h : Runs(h, base, step, Loading, n) /\ h[n] = f[1 .. n]
  <2> HIDE DEF step
  <2> QED  BY <1>4, <1>8, Unrolled
<1>10. ASSUME NEW k \in 1 .. n PROVE h[k] = LoadRef(h[k - 1], b, s[k])
  <2>1. h[k - 1] \in Loading
    BY <1>9 DEF Runs
  <2> QED  BY <1>9, <2>1 DEF Runs
<1>11. h[n] \in Loading /\ LoadBucket(base, b, s) = h[n]
  BY <1>7, <1>9 DEF Runs
<1> QED  BY <1>7, <1>9, <1>10, <1>11 DEF Runs

\* and the buckets, in the order of their numbers
LEMMA LoadBucketsRuns ==
    ASSUME NEW base \in Loading, NEW n \in Nat, n = Cardinality(Bucket), NEW l,
           \A b \in Bucket : \E k \in Nat : DOMAIN l[b] = 1 .. k /\ \A p \in 1 .. k : l[b][p] \in Nat
    PROVE  \E h : /\ h \in [0 .. n -> Loading] /\ h[0] = base
                  /\ \A k \in 1 .. n : h[k] = LoadBucket(h[k - 1], Nth(Bucket, k), l[Nth(Bucket, k)])
                  /\ LoadBuckets(base, l) = h[n]
<1> DEFINE s == InOrder(Bucket)
           Op(m, b) == LoadBucket(m, b, l[b])
           step == [z \in Loading \X (1 .. n) |-> Op(z[1], s[z[2]])]
<1>1. DOMAIN s = 1 .. n /\ \A k \in 1 .. n : s[k] = Nth(Bucket, k)
  BY DEF InOrder
<1>2. \A k \in 1 .. n : s[k] \in Bucket
  <2>1. Bucket \in SUBSET Nat /\ IsFiniteSet(Bucket)
    BY AddrManAssumption
  <2> QED  BY <2>1, <1>1, NthCounts
<1>3. ASSUME NEW m \in Loading, NEW b \in Bucket PROVE Op(m, b) \in Loading
  <2>1. PICK k \in Nat : DOMAIN l[b] = 1 .. k /\ \A p \in 1 .. k : l[b][p] \in Nat
    OBVIOUS
  <2> DEFINE q == l[b]
  <2> HIDE DEF q
  <2>2. DOMAIN q = 1 .. k /\ \A p \in 1 .. k : q[p] \in Nat
    BY <2>1 DEF q
  <2>3. LoadBucket(m, b, q) \in Loading
    BY <2>2, LoadBucketRuns
  <2> QED  BY <2>3 DEF q
<1>4. LoadBuckets(base, l) = FoldLeft(LAMBDA m, b : Op(m, b), base, s)
  BY DEF LoadBuckets
<1> HIDE DEF s, Op
<1>5. StepOn(step, Loading, n)
  BY <1>2, <1>3 DEF Closed, StepOn
<1>6. PICK g \in [SUBSET (1 .. n) -> Loading] : SolvesTo(g, base, step, n)
  <2> HIDE DEF step
  <2> QED  BY <1>5, SequenceRecursion
<1>7. g = [x \in SUBSET DOMAIN s |-> IF x = {} THEN base ELSE Op(g[x \ {Max(x)}], s[Max(x)])]
  BY <1>1, <1>6, MaxTo DEF SolvesTo
<1>8. PICK f : /\ f = [x \in SUBSET DOMAIN s |-> IF x = {} THEN base ELSE Op(f[x \ {Max(x)}], s[Max(x)])]
               /\ LoadBuckets(base, l) = f[DOMAIN s]
  BY <1>4, <1>7 DEF FoldLeft, MapThenFoldSet
<1>9. Unrolls(f, base, step, n)
  BY <1>1, <1>8, MaxTo DEF Unrolls
<1>10. PICK h : Runs(h, base, step, Loading, n) /\ h[n] = f[1 .. n]
  <2> HIDE DEF step
  <2> QED  BY <1>5, <1>9, Unrolled
<1>11. ASSUME NEW k \in 1 .. n PROVE h[k] = Op(h[k - 1], Nth(Bucket, k))
  <2>1. h[k - 1] \in Loading
    BY <1>10 DEF Runs
  <2> QED  BY <1>1, <1>10, <2>1 DEF Runs
<1> QED  BY <1>1, <1>8, <1>10, <1>11 DEF Runs, Op

\* nothing is left to be deleted
LEMMA DeleteNone ==
    ASSUME NEW m, \A i \in DOMAIN m.info : m.info[i].tried \/ m.info[i].ref # 0
    PROVE  DeleteLost(m) = m
<1> DEFINE S == {i \in DOMAIN m.info : ~m.info[i].tried /\ m.info[i].ref = 0}
           s == InOrder(S)
<1>1. S = {}
  OBVIOUS
<1>2. DOMAIN s = {}
  <2>1. Cardinality(S) = 0
    BY <1>1, FS_EmptySet
  <2>2. DOMAIN s = 1 .. Cardinality(S)
    BY DEF InOrder
  <2> QED  BY <2>1, <2>2
<1>3. DeleteLost(m) = FoldLeft(Delete, m, s)
  BY DEF DeleteLost
<1> HIDE DEF s, S
<1> DEFINE g == [x \in SUBSET DOMAIN s |-> m]
<1>4. g = [x \in SUBSET DOMAIN s |-> IF x = {} THEN m ELSE Delete(g[x \ {Max(x)}], s[Max(x)])]
  BY <1>2
<1> HIDE DEF g
<1>5. PICK f : /\ f = [x \in SUBSET DOMAIN s |-> IF x = {} THEN m ELSE Delete(f[x \ {Max(x)}], s[Max(x)])]
               /\ DeleteLost(m) = f[DOMAIN s]
  BY <1>3, <1>4 DEF FoldLeft, MapThenFoldSet
<1> QED  BY <1>2, <1>5

\* the entries of new
NewIds(m) == {i \in DOMAIN m.info : m.info[i].ref # 0}

LEMMA TwoKinds ==
    ASSUME NEW m, Near(m, {}, 0), NEW U, U = NewIds(m), NEW T, T = TriedIds(m.info),
           NEW u, u = Cardinality(U), NEW t, t = Cardinality(T)
    PROVE  /\ U \in SUBSET Nat /\ T \in SUBSET Nat /\ IsFiniteSet(U) /\ IsFiniteSet(T)
           /\ U \cup T = DOMAIN m.info /\ U \cap T = {}
           /\ u \in Nat /\ t \in Nat /\ u + t <= MaxId /\ m.nNew = u /\ m.nTried = t
<1>1. Shaped(m) /\ Referred(m, {}) /\ Counted(m, 0)
  BY DEF Near
<1>2. DOMAIN m.info \subseteq Nat
  BY <1>1 DEF Shaped
<1>3. U \cup T = DOMAIN m.info
  BY <1>1 DEF NewIds, TriedIds, Referred
<1>4. U \cap T = {}
  BY <1>1 DEF NewIds, TriedIds, Referred
<1>5. IsFiniteSet(DOMAIN m.info) /\ Cardinality(DOMAIN m.info) <= MaxId /\ Cardinality(DOMAIN m.info) \in Nat
      /\ IsFiniteSet(T) /\ t \in Nat
  BY <1>1, IdsFinite
<1>6. IsFiniteSet(U) /\ u \in Nat
  BY <1>3, <1>5, FS_Subset, FS_CardinalityType
<1>7. Cardinality(DOMAIN m.info) = u + t
  <2>1. Cardinality(U \cup T) = Cardinality(U) + Cardinality(T) - Cardinality(U \cap T)
    BY <1>5, <1>6, FS_Union
  <2>2. Cardinality(U \cap T) = 0
    BY <1>4, FS_EmptySet
  <2>3. Cardinality(U) = u /\ Cardinality(T) = t /\ u \in Nat /\ t \in Nat
    BY <1>5, <1>6
  <2>4. Cardinality(DOMAIN m.info) = u + t - 0
    BY <2>1, <2>2, <2>3, <1>3
  <2> QED  BY <2>3, <2>4
<1>8. m.nTried = t /\ m.nNew = Cardinality(DOMAIN m.info) - m.nTried + 0
  BY <1>1 DEF Counted
<1>9. m.nNew = u /\ u + t <= MaxId
  <2>1. MaxId \in Nat
    BY AddrManAssumption
  <2> QED  BY <2>1, <1>5, <1>6, <1>7, <1>8
<1> QED  BY <1>2, <1>3, <1>4, <1>5, <1>6, <1>8, <1>9

\* s lists the numbers of S
Lists(s, S, n) ==
    /\ s \in [1 .. n -> S]
    /\ \A i, k \in 1 .. n : s[i] = s[k] => i = k
    /\ \A j \in S : \E k \in 1 .. n : s[k] = j
    /\ \A k \in 1 .. n : Cardinality({j \in S : j < s[k]}) = k - 1

LEMMA InOrderLists ==
    ASSUME NEW S \in SUBSET Nat, IsFiniteSet(S), NEW n, n = Cardinality(S), NEW s, s = InOrder(S)
    PROVE  Lists(s, S, n) /\ n \in Nat
<1>1. /\ n \in Nat
      /\ \A i \in 1 .. n : Nth(S, i) \in S /\ Cardinality({j \in S : j < Nth(S, i)}) = i - 1
      /\ \A h \in S : \E i \in 1 .. n : Nth(S, i) = h
  BY NthCounts
<1>2. s = [k \in 1 .. n |-> Nth(S, k)]
  BY DEF InOrder
<1>3. \A k \in 1 .. n : s[k] = Nth(S, k)
  BY <1>2
<1>4. s \in [1 .. n -> S]
  BY <1>1, <1>2
<1>5. \A k \in 1 .. n : Cardinality({j \in S : j < s[k]}) = k - 1
  BY <1>1, <1>3
<1>6. ASSUME NEW i \in 1 .. n, NEW k \in 1 .. n, s[i] = s[k] PROVE i = k
  <2>1. i - 1 = k - 1
    BY <1>5, <1>6
  <2> QED  BY <2>1
<1> QED  BY <1>1, <1>3, <1>4, <1>5, <1>6 DEF Lists

\* o: the ids before of those after
Renumbered(m, o, u, t) ==
    /\ u \in Nat /\ t \in Nat /\ u + t <= MaxId /\ m.nNew = u /\ m.nTried = t
    /\ o \in [0 .. (u + t - 1) -> DOMAIN m.info]
    /\ \A i, k \in 0 .. (u + t - 1) : o[i] = o[k] => i = k
    /\ \A j \in DOMAIN m.info : \E i \in 0 .. (u + t - 1) : o[i] = j
    /\ \A i \in 0 .. (u + t - 1) : m.info[o[i]].tried <=> i >= u
    /\ \A i \in 0 .. (u + t - 1) : i < u => m.info[o[i]].ref # 0
    /\ \A j \in DOMAIN m.info : m.info[j].ref # 0 =>
          mapUnkIds(m, j) \in 0 .. (u - 1) /\ o[mapUnkIds(m, j)] = j

LEMMA Renumbering ==
    ASSUME NEW m, Near(m, {}, 0), NEW U, U = NewIds(m), NEW T, T = TriedIds(m.info),
           NEW u, u = Cardinality(U), NEW t, t = Cardinality(T),
           NEW p, Lists(p, U, u), NEW q, Lists(q, T, t),
           NEW o, o = [i \in 0 .. (u + t - 1) |-> IF i < u THEN p[i + 1] ELSE q[i - u + 1]]
    PROVE  Renumbered(m, o, u, t)
<1>1. /\ U \in SUBSET Nat /\ T \in SUBSET Nat
      /\ U \cup T = DOMAIN m.info /\ U \cap T = {}
      /\ u \in Nat /\ t \in Nat /\ u + t <= MaxId /\ m.nNew = u /\ m.nTried = t
  BY TwoKinds
<1> DEFINE I == 0 .. (u + t - 1)
<1>4. \A i \in I : i < u => i + 1 \in 1 .. u /\ o[i] = p[i + 1]
  BY <1>1
<1>5. \A i \in I : i >= u => i - u + 1 \in 1 .. t /\ o[i] = q[i - u + 1]
  BY <1>1
<1>6. \A i \in I : (i < u => o[i] \in U) /\ (i >= u => o[i] \in T)
  BY <1>4, <1>5 DEF Lists
<1>7. \A i \in I : (i < u \/ i >= u) /\ ~(i < u /\ i >= u) /\ i \in Int
  BY <1>1
<1>8. o \in [I -> DOMAIN m.info]
  BY <1>1, <1>6, <1>7
<1>i. DOMAIN o = I /\ I = 0 .. (u + t - 1)
  OBVIOUS
<1> HIDE DEF I
<1>9. ASSUME NEW i \in I, NEW k \in I, o[i] = o[k] PROVE i = k
  <2>1. CASE i < u /\ k < u
    <3>1. p[i + 1] = p[k + 1] /\ i + 1 \in 1 .. u /\ k + 1 \in 1 .. u
      BY <2>1, <1>4, <1>9
    <3>2. i + 1 = k + 1
      BY <3>1 DEF Lists
    <3> QED  BY <3>2, <1>7
  <2>2. CASE i >= u /\ k >= u
    <3>1. q[i - u + 1] = q[k - u + 1] /\ i - u + 1 \in 1 .. t /\ k - u + 1 \in 1 .. t
      BY <2>2, <1>5, <1>9
    <3>2. i - u + 1 = k - u + 1
      BY <3>1 DEF Lists
    <3> QED  BY <3>2, <1>1, <1>7
  <2>3. ~(i < u /\ k >= u) /\ ~(i >= u /\ k < u)
    BY <1>1, <1>6, <1>9
  <2> QED  BY <2>1, <2>2, <2>3, <1>7
<1>10. ASSUME NEW j \in U PROVE mapUnkIds(m, j) \in 0 .. (u - 1) /\ o[mapUnkIds(m, j)] = j
  <2>1. PICK i \in 1 .. u : p[i] = j
    BY DEF Lists
  <2>2. {l \in DOMAIN m.info : m.info[l].ref # 0 /\ l < j} = {l \in U : l < j}
    BY DEF NewIds
  <2>3. mapUnkIds(m, j) = i - 1
    BY <2>1, <2>2 DEF mapUnkIds, Lists
  <2>4. i - 1 \in I /\ i - 1 < u /\ (i - 1) + 1 = i /\ i - 1 \in 0 .. (u - 1)
    BY <1>1, <1>i
  <2> QED  BY <2>1, <2>3, <2>4, <1>4
<1>11. ASSUME NEW j \in DOMAIN m.info PROVE \E i \in I : o[i] = j
  <2>1. CASE j \in U
    <3>1. mapUnkIds(m, j) \in 0 .. (u - 1)
      BY <1>10, <2>1
    <3>2. mapUnkIds(m, j) \in I
      BY <3>1, <1>1, <1>i
    <3> QED  BY <2>1, <3>2, <1>10
  <2>2. CASE j \in T
    <3>1. PICK k \in 1 .. t : q[k] = j
      BY <2>2 DEF Lists
    <3>2. u + k - 1 \in I /\ u + k - 1 >= u /\ (u + k - 1) - u + 1 = k
      BY <1>1, <1>i
    <3> QED  BY <3>1, <3>2, <1>5
  <2> QED  BY <2>1, <2>2, <1>1
<1>12. \A i \in I : m.info[o[i]].tried <=> i >= u
  <2>1. \A j \in U : ~m.info[j].tried
    BY <1>1 DEF TriedIds
  <2>2. \A j \in T : m.info[j].tried
    BY DEF TriedIds
  <2> QED  BY <2>1, <2>2, <1>6, <1>7
<1>13. \A i \in I : i < u => m.info[o[i]].ref # 0
  <2>1. \A j \in U : m.info[j].ref # 0
    BY DEF NewIds
  <2> QED  BY <2>1, <1>6
<1>14. \A j \in DOMAIN m.info : m.info[j].ref # 0 => j \in U
  BY DEF NewIds
<1> QED  BY <1>1, <1>8, <1>9, <1>10, <1>11, <1>12, <1>13, <1>14, <1>i DEF Renumbered

\* what Serialize writes
Filled(m, b) == {p \in 1 .. Slots : m.new[<<b, p>>] # Nobody}

FileOf(m, f, o, u, t) ==
    /\ DOMAIN f.new = 1 .. u /\ Len(f.new) = u
    /\ \A k \in 1 .. u : f.new[k] = [addr |-> m.info[o[k - 1]].addr, source |-> m.info[o[k - 1]].source]
    /\ DOMAIN f.tried = 1 .. t /\ Len(f.tried) = t
    /\ \A k \in 1 .. t :
          f.tried[k] = [addr |-> m.info[o[u + k - 1]].addr, source |-> m.info[o[u + k - 1]].source]
    /\ \A b \in Bucket : \E n \in Nat : \E s \in [1 .. n -> Filled(m, b)] :
          /\ \A i, k \in 1 .. n : s[i] = s[k] => i = k
          /\ \A p \in Filled(m, b) : \E k \in 1 .. n : s[k] = p
          /\ DOMAIN f.buckets[b] = 1 .. n
          /\ \A k \in 1 .. n : f.buckets[b][k] = mapUnkIds(m, m.new[<<b, s[k]>>])

LEMMA LenIs ==
    ASSUME NEW X, NEW n \in Nat, NEW s \in [1 .. n -> X]
    PROVE  Len(s) = n
<1>1. s \in Seq(X)
  OBVIOUS
<1> QED  BY <1>1

LEMMA Serialized ==
    ASSUME NEW m, Near(m, {}, 0)
    PROVE  \E o, u, t : Renumbered(m, o, u, t) /\ FileOf(m, Serialize(m), o, u, t)
<1> DEFINE U == NewIds(m)
           T == TriedIds(m.info)
           u == Cardinality(U)
           t == Cardinality(T)
           p == InOrder(U)
           q == InOrder(T)
           o == [i \in 0 .. (u + t - 1) |-> IF i < u THEN p[i + 1] ELSE q[i - u + 1]]
           f == Serialize(m)
           B(b) == InOrder(Filled(m, b))
           en == [k \in DOMAIN p |-> [addr |-> m.info[p[k]].addr, source |-> m.info[p[k]].source]]
           et == [k \in DOMAIN q |-> [addr |-> m.info[q[k]].addr, source |-> m.info[q[k]].source]]
           bs == [b \in Bucket |-> [k \in DOMAIN B(b) |-> mapUnkIds(m, m.new[<<b, B(b)[k]>>])]]
<1>1. /\ U \in SUBSET Nat /\ T \in SUBSET Nat /\ IsFiniteSet(U) /\ IsFiniteSet(T) /\ u \in Nat /\ t \in Nat
  BY TwoKinds
<1>2. Lists(p, U, u) /\ Lists(q, T, t)
  <2> HIDE DEF U, T
  <2> QED  BY <1>1, InOrderLists
<1>3. f = [new |-> en, tried |-> et, buckets |-> bs]
  BY DEF Serialize, NewIds, TriedIds, Filled
<1>4. f.new = en /\ f.tried = et /\ f.buckets = bs
  BY <1>3
<1>5. Renumbered(m, o, u, t)
  <2>1. o = [i \in 0 .. (u + t - 1) |-> IF i < u THEN p[i + 1] ELSE q[i - u + 1]]
    OBVIOUS
  <2>2. U = NewIds(m) /\ T = TriedIds(m.info) /\ u = Cardinality(U) /\ t = Cardinality(T)
    OBVIOUS
  <2> HIDE DEF o, p, q, U, T, u, t
  <2> QED  BY <2>1, <2>2, <1>2, Renumbering
<1>6. \A k \in 1 .. u : o[k - 1] = p[k]
  <2> HIDE DEF u, t, p, q
  <2> SUFFICES ASSUME NEW k \in 1 .. u PROVE o[k - 1] = p[k]
    OBVIOUS
  <2>1. k - 1 \in 0 .. (u + t - 1) /\ k - 1 < u /\ (k - 1) + 1 = k
    BY <1>1
  <2> QED  BY <2>1
<1>7. \A k \in 1 .. t : o[u + k - 1] = q[k]
  <2> HIDE DEF u, t, p, q
  <2> SUFFICES ASSUME NEW k \in 1 .. t PROVE o[u + k - 1] = q[k]
    OBVIOUS
  <2>1. u + k - 1 \in 0 .. (u + t - 1) /\ ~(u + k - 1 < u) /\ (u + k - 1) - u + 1 = k
    BY <1>1
  <2> QED  BY <2>1
<1>8. DOMAIN p = 1 .. u /\ DOMAIN q = 1 .. t
  BY <1>2 DEF Lists
<1> HIDE DEF o, p, q, U, T, u, t, f
<1>9. /\ DOMAIN f.new = 1 .. u /\ Len(f.new) = u
      /\ \A k \in 1 .. u : f.new[k] = [addr |-> m.info[o[k - 1]].addr, source |-> m.info[o[k - 1]].source]
  <2>1. DOMAIN f.new = 1 .. u
    BY <1>4, <1>8
  <2>2. \A k \in 1 .. u : f.new[k] = [addr |-> m.info[o[k - 1]].addr, source |-> m.info[o[k - 1]].source]
    BY <1>4, <1>6, <1>8
  <2>3. Len(f.new) = u
    <3>1. f.new \in [1 .. u -> {f.new[k] : k \in 1 .. u}]
      BY <1>4, <1>8
    <3> QED  BY <3>1, <1>1, LenIs
  <2> QED  BY <2>1, <2>2, <2>3
<1>10. /\ DOMAIN f.tried = 1 .. t /\ Len(f.tried) = t
       /\ \A k \in 1 .. t :
             f.tried[k] = [addr |-> m.info[o[u + k - 1]].addr, source |-> m.info[o[u + k - 1]].source]
  <2>1. DOMAIN f.tried = 1 .. t
    BY <1>4, <1>8
  <2>2. \A k \in 1 .. t :
             f.tried[k] = [addr |-> m.info[o[u + k - 1]].addr, source |-> m.info[o[u + k - 1]].source]
    BY <1>4, <1>7, <1>8
  <2>3. Len(f.tried) = t
    <3>1. f.tried \in [1 .. t -> {f.tried[k] : k \in 1 .. t}]
      BY <1>4, <1>8
    <3> QED  BY <3>1, <1>1, LenIs
  <2> QED  BY <2>1, <2>2, <2>3
<1>11. ASSUME NEW b \in Bucket
       PROVE  \E n \in Nat : \E s \in [1 .. n -> Filled(m, b)] :
                 /\ \A i, k \in 1 .. n : s[i] = s[k] => i = k
                 /\ \A x \in Filled(m, b) : \E k \in 1 .. n : s[k] = x
                 /\ DOMAIN f.buckets[b] = 1 .. n
                 /\ \A k \in 1 .. n : f.buckets[b][k] = mapUnkIds(m, m.new[<<b, s[k]>>])
  <2> DEFINE S == Filled(m, b)
             n == Cardinality(S)
             s == InOrder(S)
  <2>1. S \in SUBSET Nat /\ IsFiniteSet(S)
    <3>1. Slots \in Int /\ 1 \in Int
      BY AddrManAssumption
    <3>2. IsFiniteSet(1 .. Slots)
      BY <3>1, FS_Interval
    <3>3. S \in SUBSET (1 .. Slots)
      BY DEF Filled
    <3> QED  BY <3>1, <3>2, <3>3, FS_Subset
  <2>2. Lists(s, S, n) /\ n \in Nat
    <3> HIDE DEF S
    <3> QED  BY <2>1, InOrderLists
  <2>3. f.buckets[b] = [k \in DOMAIN s |-> mapUnkIds(m, m.new[<<b, s[k]>>])]
    BY <1>4
  <2> HIDE DEF S, n, s
  <2>4. DOMAIN s = 1 .. n /\ s \in [1 .. n -> S]
    BY <2>2 DEF Lists
  <2>5. DOMAIN f.buckets[b] = 1 .. n /\ \A k \in 1 .. n : f.buckets[b][k] = mapUnkIds(m, m.new[<<b, s[k]>>])
    BY <2>3, <2>4
  <2>6. (\A i, k \in 1 .. n : s[i] = s[k] => i = k) /\ \A x \in S : \E k \in 1 .. n : s[k] = x
    BY <2>2 DEF Lists
  <2>7. n \in Nat /\ s \in [1 .. n -> Filled(m, b)] /\ \A x \in Filled(m, b) : \E k \in 1 .. n : s[k] = x
    BY <2>2, <2>4, <2>6 DEF S
  <2> QED  BY <2>5, <2>6, <2>7
<1>12. FileOf(m, f, o, u, t)
  BY <1>9, <1>10, <1>11 DEF FileOf
<1> QED  BY <1>5, <1>12 DEF f

\* Clear()
LEMMA EmptyNear == Near(Empty, {}, 0)
<1> DEFINE D == {}
           z == <<>>
<1>0. MaxId \in Nat
  BY AddrManAssumption
<1>1. /\ Empty.info = z /\ Empty.addr = [a \in Addr |-> Nobody] /\ Empty.random = z
      /\ Empty.new = [s \in NewSlot |-> Nobody] /\ Empty.tried = [s \in TriedSlot |-> Nobody]
      /\ Empty.nNew = 0 /\ Empty.nTried = 0 /\ Empty.ids = 0
  BY DEF Empty
<1>2. Whole(Empty)
  BY DEF Empty, Whole, Fields
<1>3. DOMAIN z = D /\ Len(z) = 0 /\ z \in Seq(D)
  OBVIOUS
<1>4. z \in [D -> Info]
  BY <1>3
<1> HIDE DEF z
<1>5. Shaped(Empty)
  <2>1. Empty.ids \in 0 .. MaxId /\ Empty.nNew \in Int /\ Empty.nTried \in Int
    BY <1>0, <1>1
  <2>2. DOMAIN Empty.info = D /\ Empty.info \in [DOMAIN Empty.info -> Info] /\ Empty.random \in Seq(DOMAIN Empty.info)
    BY <1>1, <1>3, <1>4
  <2> QED  BY <2>1, <2>2, <1>1, <1>2 DEF Shaped
<1>6. DOMAIN Empty.info = {} /\ DOMAIN Empty.random = {}
  BY <1>1, <1>3
<1>7. Cardinality(DOMAIN Empty.info) = 0 /\ Cardinality(TriedIds(Empty.info)) = 0
  <2>1. TriedIds(Empty.info) = {}
    BY <1>6 DEF TriedIds
  <2> QED  BY <2>1, <1>6, FS_EmptySet
<1>8. Referred(Empty, {})
  BY <1>6 DEF Referred
<1>9. TriedPlaced(Empty)
  BY <1>1, <1>6 DEF TriedPlaced
<1>10. Indexed(Empty)
  BY <1>1, <1>3, <1>6, <1>7 DEF Indexed
<1>11. Counted(Empty, 0)
  BY <1>1, <1>7 DEF Counted
<1> QED  BY <1>5, <1>8, <1>9, <1>10, <1>11 DEF Near

\* the first n entries of m have come back into x
Came(m, o, x, n) ==
    /\ x.ids = n /\ DOMAIN x.info = 0 .. (n - 1)
    /\ \A i \in 0 .. (n - 1) : /\ x.info[i].addr = m.info[o[i]].addr
                               /\ x.info[i].source = m.info[o[i]].source
                               /\ x.info[i].tried <=> m.info[o[i]].tried

LEMMA NextUnknown ==
    ASSUME NEW m, Near(m, {}, 0), NEW o, NEW u, NEW t, Renumbered(m, o, u, t), NEW x, NEW F, NEW d, Near(x, F, d),
           NEW n \in 0 .. (u + t - 1), Came(m, o, x, n), NEW a, a = m.info[o[n]].addr
    PROVE  x.addr[a] = Nobody /\ a \in Addr /\ m.info[o[n]].source \in Source /\ o[n] \in DOMAIN m.info
<1>1. u \in Nat /\ t \in Nat /\ o[n] \in DOMAIN m.info
  BY DEF Renumbered
<1>2. a \in Addr /\ m.info[o[n]].source \in Source
  <2>1. m.info[o[n]] \in Info
    BY <1>1 DEF Near, Shaped
  <2> QED  BY <2>1 DEF Info
<1>3. ASSUME x.addr[a] # Nobody PROVE FALSE
  <2> DEFINE i == x.addr[a]
  <2>1. i \in DOMAIN x.info /\ x.info[i].addr = a
    <3>1. x.addr[a] \in DOMAIN x.info \cup {Nobody}
      BY <1>2 DEF Near, Shaped
    <3>2. x.info[x.addr[a]].addr = a
      BY <1>2, <1>3 DEF Near, Indexed
    <3> QED  BY <3>1, <3>2, <1>3
  <2> HIDE DEF i
  <2>2. i \in 0 .. (n - 1) /\ m.info[o[i]].addr = a
    BY <2>1 DEF Came
  <2>3. i \in 0 .. (u + t - 1) /\ i # n
    BY <2>2, <1>1
  <2>4. o[i] \in DOMAIN m.info
    BY <2>3 DEF Renumbered
  <2>5. m.addr[a] = o[i] /\ m.addr[a] = o[n]
    BY <2>2, <2>4, <1>1 DEF Near, Indexed
  <2>6. \A k, l \in 0 .. (u + t - 1) : o[k] = o[l] => k = l
    BY DEF Renumbered
  <2>7. o[i] = o[n]
    BY <2>5
  <2> QED  BY <2>3, <2>6, <2>7
<1> QED  BY <1>1, <1>2, <1>3

\* the next one comes; r may mark it as tried
LEMMA CameMore ==
    ASSUME NEW m, NEW o, NEW x, NEW n \in Nat, Came(m, o, x, n), NEW r, r.ids = n + 1,
           DOMAIN r.info = DOMAIN x.info \cup {n}, \A j \in DOMAIN x.info : r.info[j] = x.info[j],
           r.info[n].addr = m.info[o[n]].addr, r.info[n].source = m.info[o[n]].source,
           r.info[n].tried <=> m.info[o[n]].tried
    PROVE  Came(m, o, r, n + 1)
<1>2. DOMAIN x.info = 0 .. (n - 1)
  BY DEF Came
<1>3. DOMAIN r.info = 0 .. n
  BY <1>2
<1>4. (n + 1) - 1 = n /\ \A i \in 0 .. n : i = n \/ i \in 0 .. (n - 1)
  OBVIOUS
<1>5. ASSUME NEW i \in 0 .. n
      PROVE  /\ r.info[i].addr = m.info[o[i]].addr
             /\ r.info[i].source = m.info[o[i]].source
             /\ r.info[i].tried <=> m.info[o[i]].tried
  <2>1. CASE i = n
    BY <2>1
  <2>2. CASE i \in 0 .. (n - 1)
    BY <2>2, <1>2 DEF Came
  <2> QED  BY <2>1, <2>2, <1>4
<1> QED  BY <1>3, <1>4, <1>5 DEF Came

\* after k entries of new
NewCame(m, o, x, k, u) ==
    /\ Near(x, 0 .. (k - 1), u - k) /\ Came(m, o, x, k) /\ x.nNew = u /\ x.nTried = 0 /\ x.new = Empty.new

LEMMA NewComes ==
    ASSUME NEW m, Near(m, {}, 0), NEW o, NEW u, NEW t, Renumbered(m, o, u, t), NEW x, NEW k \in 1 .. u,
           NewCame(m, o, x, k - 1, u), NEW e,
           e = [addr |-> m.info[o[k - 1]].addr, source |-> m.info[o[k - 1]].source]
    PROVE  NewCame(m, o, LoadNew(x, e), k, u)
<1> DEFINE n == k - 1
           a == m.info[o[n]].addr
           c == m.info[o[n]].source
           F == 0 .. (n - 1)
           d == u - n
           r == Create(x, a, c)
<1>1. u \in Nat /\ t \in Nat /\ u + t <= MaxId /\ MaxId \in Nat
  BY AddrManAssumption DEF Renumbered
<1>2. n \in Nat /\ n + 1 = k /\ d \in Int /\ n < MaxId /\ n \in 0 .. (u + t - 1) /\ n < u
  BY <1>1
<1>3. F \cup {n} = 0 .. (k - 1) /\ d - 1 = u - k
  BY <1>1
<1>4. Near(x, F, d) /\ Came(m, o, x, n) /\ x.nNew = u /\ x.nTried = 0 /\ x.new = Empty.new
  BY DEF NewCame
<1>5. a = m.info[o[n]].addr /\ c = m.info[o[n]].source /\ LoadNew(x, e) = r
  BY DEF LoadNew
<1> HIDE DEF n, a, c, F, d, r
<1>6. x.addr[a] = Nobody /\ a \in Addr /\ c \in Source
  BY <1>2, <1>4, <1>5, NextUnknown
<1>7. x.ids = n
  BY <1>4 DEF Came
<1>8. Near(r, F \cup {n}, d - 1) /\ Created(x, r, n, a, c)
  BY <1>2, <1>4, <1>6, <1>7, CreateKeeps DEF r
<1>9. ~m.info[o[n]].tried
  BY <1>1, <1>2 DEF Renumbered
<1>10. Came(m, o, r, n + 1)
  <2>1. n \in Nat /\ Came(m, o, x, n) /\ Created(x, r, n, a, c)
        /\ a = m.info[o[n]].addr /\ c = m.info[o[n]].source
    BY <1>2, <1>4, <1>5, <1>8
  <2>2. /\ r.ids = n + 1 /\ DOMAIN r.info = DOMAIN x.info \cup {n}
        /\ \A j \in DOMAIN x.info : r.info[j] = x.info[j]
        /\ r.info[n].addr = m.info[o[n]].addr /\ r.info[n].source = m.info[o[n]].source
        /\ r.info[n].tried <=> m.info[o[n]].tried
    BY <2>1, <1>9 DEF Created
  <2> QED  BY <2>1, <2>2, CameMore
<1>11. r.nNew = u /\ r.nTried = 0 /\ r.new = Empty.new
  BY <1>4, <1>8 DEF Created
<1> QED  BY <1>2, <1>3, <1>5, <1>8, <1>10, <1>11 DEF NewCame

LEMMA NewLoaded ==
    ASSUME NEW m, Near(m, {}, 0), NEW o, NEW u, NEW t, Renumbered(m, o, u, t), NEW f, FileOf(m, f, o, u, t)
    PROVE  NewCame(m, o, LoadAllNew([Empty EXCEPT !.nNew = Len(f.new)], f.new), u, u)
<1> DEFINE b == [Empty EXCEPT !.nNew = Len(f.new)]
           s == f.new
<1>1. u \in Nat /\ t \in Nat
  BY DEF Renumbered
<1>2. DOMAIN s = 1 .. u /\ Len(f.new) = u
      /\ \A k \in 1 .. u : s[k] = [addr |-> m.info[o[k - 1]].addr, source |-> m.info[o[k - 1]].source]
  BY DEF FileOf
<1>3. NewCame(m, o, b, 0, u)
  <2>1. Empty.nNew = 0 /\ Empty.nTried = 0 /\ Empty.ids = 0 /\ DOMAIN Empty.info = {}
    BY DEF Empty
  <2>2. b = [Empty EXCEPT !.nNew = @ + u]
    <3>1. Empty.nNew + u = u
      BY <2>1, <1>1
    <3> QED  BY <3>1, <1>2
  <2>3. u \in Int /\ 0 \in Int /\ 0 + u = u - 0 /\ 0 .. (0 - 1) = {}
    BY <1>1
  <2> DEFINE E == {}
  <2>4. Near(Empty, E, 0)
    BY EmptyNear
  <2> HIDE DEF b, E
  <2>5. Near(b, E, 0 + u) /\ b.nNew = Empty.nNew + u /\ b.info = Empty.info /\ b.new = Empty.new
        /\ b.ids = Empty.ids /\ b.nTried = Empty.nTried
    BY <2>2, <2>3, <2>4, NewCounted
  <2>6. Near(b, 0 .. (0 - 1), u - 0)
    BY <2>3, <2>5 DEF E
  <2>7. b.nNew = u /\ b.nTried = 0
    BY <2>1, <2>5, <1>1
  <2>8. Came(m, o, b, 0)
    BY <2>1, <2>3, <2>5 DEF Came
  <2> QED  BY <2>5, <2>6, <2>7, <2>8 DEF NewCame
<1>4. b \in Man
  BY <1>3, NearMan DEF NewCame
<1>5. \A k \in 1 .. u : s[k] \in FileEntry
  <2> SUFFICES ASSUME NEW k \in 1 .. u PROVE s[k] \in FileEntry
    OBVIOUS
  <2>1. k - 1 \in 0 .. (u + t - 1)
    BY <1>1
  <2>2. m.info[o[k - 1]] \in Info
    BY <2>1 DEF Renumbered, Near, Shaped
  <2>3. m.info[o[k - 1]].addr \in Addr /\ m.info[o[k - 1]].source \in Source
    BY <2>2 DEF Info
  <2>4. s[k] = [addr |-> m.info[o[k - 1]].addr, source |-> m.info[o[k - 1]].source]
    BY <1>2
  <2> QED  BY <2>3, <2>4 DEF FileEntry
<1> HIDE DEF b, s
<1>6. PICK h : /\ h[0] = b /\ \A k \in 1 .. u : h[k] = LoadNew(h[k - 1], s[k])
               /\ LoadAllNew(b, s) = h[u]
  <2>1. b \in Man /\ u \in Nat /\ DOMAIN s = 1 .. u /\ \A k \in 1 .. u : s[k] \in FileEntry
    BY <1>1, <1>2, <1>4, <1>5
  <2> QED  BY <2>1, LoadAllNewRuns
<1> DEFINE S == {k \in Nat : NewCame(m, o, h[k], k, u)}
<1>7. 0 \in S
  BY <1>3, <1>6
<1>8. ASSUME NEW k \in 1 .. u, k - 1 \in S PROVE k \in S
  <2>1. NewCame(m, o, h[k - 1], k - 1, u)
    BY <1>8
  <2>2. NewCame(m, o, LoadNew(h[k - 1], s[k]), k, u)
    BY <2>1, <1>2, NewComes
  <2> QED  BY <2>2, <1>6
<1> HIDE DEF S
<1>9. u \in S
  <2>1. \A k \in 0 .. u : k \in S
    BY <1>1, <1>7, <1>8, InductionTo
  <2> QED  BY <2>1, <1>1
<1> QED  BY <1>6, <1>9 DEF S, b, s

\* x and v agree in all but nTried, which Unserialize reads before it finds the entries
Behind(x, v) ==
    /\ Whole(x) /\ Whole(v) /\ x.info = v.info /\ x.addr = v.addr /\ x.random = v.random
    /\ x.new = v.new /\ x.tried = v.tried /\ x.nNew = v.nNew /\ x.ids = v.ids

\* after k entries of tried
TriedCounted(m, o, v, k, u) ==
    Near(v, 0 .. (u - 1), 0) /\ Came(m, o, v, u + k) /\ v.nNew = u /\ v.nTried = k /\ v.new = Empty.new
TriedCame(m, o, x, k, u, t) == x.nTried = t /\ \E v : Behind(x, v) /\ TriedCounted(m, o, v, k, u)

MarkTried(m, i, s) == [m EXCEPT !.info[i].tried = TRUE, !.tried[s] = i]

BehindMarked(x, v, r, w) == Behind(r, w) /\ r.nTried = x.nTried /\ w.nTried = v.nTried + 1

LEMMA BehindCreate ==
    ASSUME NEW x, NEW v, Behind(x, v), NEW a, NEW c, NEW i, i = v.ids, NEW s
    PROVE  BehindMarked(x, v, MarkTried(Create(x, a, c), i, s), Try(Create(v, a, c), i, s))
<1> DEFINE p == Create(x, a, c)
           q == Create(v, a, c)
<1>1. Behind(p, q)
  <2>1. Whole(p) /\ Whole(q)
    BY DEF Behind, Create, Whole
  <2>2. /\ p.info = q.info /\ p.addr = q.addr /\ p.random = q.random
        /\ p.new = q.new /\ p.tried = q.tried /\ p.nNew = q.nNew /\ p.ids = q.ids
    BY DEF Behind, Create, Whole, Fields
  <2> QED  BY <2>1, <2>2 DEF Behind
<1>2. p.nTried = x.nTried /\ q.nTried = v.nTried
  BY DEF Behind, Create, Whole, Fields
<1> HIDE DEF p, q
<1> DEFINE r == MarkTried(p, i, s)
           w == Try(q, i, s)
<1>3. Whole(r) /\ Whole(w)
  BY <1>1 DEF Behind, Whole, Try, MarkTried
<1>4. /\ r.info = [p.info EXCEPT ![i].tried = TRUE] /\ r.tried = [p.tried EXCEPT ![s] = i]
      /\ r.addr = p.addr /\ r.random = p.random /\ r.new = p.new /\ r.nNew = p.nNew /\ r.ids = p.ids
      /\ r.nTried = p.nTried
  BY <1>1 DEF Behind, Whole, Fields, MarkTried
<1>5. /\ w.info = [q.info EXCEPT ![i].tried = TRUE] /\ w.tried = [q.tried EXCEPT ![s] = i]
      /\ w.addr = q.addr /\ w.random = q.random /\ w.new = q.new /\ w.nNew = q.nNew /\ w.ids = q.ids
      /\ w.nTried = q.nTried + 1
  BY <1>1 DEF Behind, Whole, Fields, Try
<1> HIDE DEF r, w
<1>6. Behind(r, w)
  BY <1>1, <1>3, <1>4, <1>5 DEF Behind
<1>7. r.nTried = x.nTried /\ w.nTried = v.nTried + 1
  BY <1>2, <1>4, <1>5
<1> QED  BY <1>6, <1>7 DEF BehindMarked, r, w, p, q

LEMMA TriedComes ==
    ASSUME NEW m, Near(m, {}, 0), NEW o, NEW u, NEW t, Renumbered(m, o, u, t), NEW x, NEW k \in 1 .. t,
           TriedCame(m, o, x, k - 1, u, t), NEW e,
           e = [addr |-> m.info[o[u + k - 1]].addr, source |-> m.info[o[u + k - 1]].source]
    PROVE  TriedCame(m, o, LoadTried(x, e), k, u, t)
<1> DEFINE n == u + k - 1
           a == m.info[o[n]].addr
           c == m.info[o[n]].source
           F == 0 .. (u - 1)
           s == GetTriedSlot[a]
<1>1. u \in Nat /\ t \in Nat /\ u + t <= MaxId /\ MaxId \in Nat
  BY AddrManAssumption DEF Renumbered
<1>2. n \in Nat /\ n + 1 = u + k /\ n < MaxId /\ n \in 0 .. (u + t - 1) /\ n >= u /\ u + (k - 1) = n
  BY <1>1
<1>3. (F \cup {n}) \ {n} = F /\ n \in F \cup {n} /\ 0 \in Int /\ 0 - 1 \in Int /\ (0 - 1) + 1 = 0 /\ (k - 1) + 1 = k
  <2>1. n \notin F
    BY <1>1, <1>2
  <2> QED  BY <2>1
<1>4. PICK v : Behind(x, v) /\ TriedCounted(m, o, v, k - 1, u)
  BY DEF TriedCame
<1>5. /\ Near(v, F, 0) /\ Came(m, o, v, n) /\ v.nNew = u /\ v.nTried = k - 1 /\ v.new = Empty.new
      /\ x.nTried = t
  BY <1>2, <1>4 DEF TriedCounted, TriedCame
<1>6. a = m.info[o[n]].addr /\ c = m.info[o[n]].source /\ s = GetTriedSlot[a] /\ e.addr = a /\ e.source = c
  OBVIOUS
<1>F. F = 0 .. (u - 1)
  OBVIOUS
<1> HIDE DEF n, a, c, F, s
<1>7. v.addr[a] = Nobody /\ a \in Addr /\ c \in Source /\ o[n] \in DOMAIN m.info
  BY <1>2, <1>5, <1>6, NextUnknown
<1>8. v.ids = n
  BY <1>5 DEF Came
<1> DEFINE q == Create(v, a, c)
           w == Try(q, n, s)
<1>9. Near(q, F \cup {n}, 0 - 1) /\ Created(v, q, n, a, c)
  BY <1>2, <1>3, <1>5, <1>7, <1>8, CreateKeeps
<1> HIDE DEF q
<1>10. s \in TriedSlot /\ v.tried[s] = Nobody
  <2>0. s \in TriedSlot
    BY <1>6, <1>7, AddrManAssumption
  <2>1. ASSUME v.tried[s] # Nobody PROVE FALSE
    <3> DEFINE i == v.tried[s]
    <3>1. i \in DOMAIN v.info
      BY <2>0, <2>1, <1>5 DEF Near, Shaped
    <3>2. GetTriedSlot[v.info[i].addr] = s
      BY <2>0, <2>1, <1>5 DEF Near, TriedPlaced
    <3>3. v.info[i].tried
      BY <3>1, <3>2, <1>5 DEF Near, TriedPlaced
    <3> HIDE DEF i
    <3>4. i \in 0 .. (n - 1) /\ m.info[o[i]].tried /\ GetTriedSlot[m.info[o[i]].addr] = s
      BY <3>1, <3>2, <3>3, <1>5 DEF Came
    <3>5. i \in 0 .. (u + t - 1) /\ i # n
      BY <3>4, <1>1, <1>2
    <3>6. o[i] \in DOMAIN m.info /\ m.info[o[n]].tried
      BY <3>5, <1>2 DEF Renumbered
    <3>7. m.tried[s] = o[i] /\ m.tried[s] = o[n]
      BY <3>4, <3>6, <1>6, <1>7 DEF Near, TriedPlaced
    <3>8. \A l, j \in 0 .. (u + t - 1) : o[l] = o[j] => l = j
      BY DEF Renumbered
    <3>9. o[i] = o[n]
      BY <3>7
    <3> QED  BY <3>5, <3>8, <3>9, <1>2
  <2> QED  BY <2>0, <2>1
<1>11. q.info[n].addr = a /\ q.tried = v.tried /\ DOMAIN q.info = DOMAIN v.info \cup {n}
       /\ (\A j \in DOMAIN v.info : q.info[j] = v.info[j]) /\ q.info[n].source = c
       /\ q.ids = n + 1 /\ q.new = v.new /\ q.nNew = v.nNew /\ n \notin DOMAIN v.info
  BY <1>9 DEF Created
<1>12. /\ Near(w, (F \cup {n}) \ {n}, (0 - 1) + 1) /\ Patched(q, w) /\ w.new = q.new
       /\ (\A j \in DOMAIN q.info \ {n} : w.info[j] = q.info[j]) /\ w.info[n].tried
  <2> DEFINE G == F \cup {n}
             d == 0 - 1
  <2>1. Near(q, G, d) /\ d \in Int /\ n \in G /\ s = GetTriedSlot[q.info[n].addr] /\ q.tried[s] = Nobody
    BY <1>3, <1>6, <1>9, <1>10, <1>11
  <2> HIDE DEF G, d
  <2>2. /\ Near(w, G \ {n}, d + 1) /\ Patched(q, w) /\ w.new = q.new
        /\ (\A j \in DOMAIN q.info \ {n} : w.info[j] = q.info[j]) /\ w.info[n].tried
    <3>1. Near(Try(q, n, s), G \ {n}, d + 1) /\ Patched(q, Try(q, n, s)) /\ Tried(q, Try(q, n, s), n)
      BY <2>1, TryKeeps
    <3> QED  BY <3>1 DEF Tried
  <2> HIDE DEF w
  <2> QED  BY <2>2 DEF G, d
<1>13. /\ Behind(LoadTried(x, e), w) /\ LoadTried(x, e).nTried = t /\ w.nTried = k /\ w.nNew = q.nNew
  <2>1. x.tried[s] = Nobody /\ x.ids = n
    BY <1>4, <1>8, <1>10 DEF Behind
  <2>2. LoadTried(x, e) = MarkTried(Create(x, a, c), n, s)
    BY <2>1, <1>6 DEF LoadTried, MarkTried
  <2>3. /\ Behind(MarkTried(Create(x, a, c), n, s), w)
        /\ MarkTried(Create(x, a, c), n, s).nTried = x.nTried
        /\ w.nTried = v.nTried + 1
    <3>1. Behind(x, v) /\ n = v.ids
      BY <1>4, <1>8
    <3>2. BehindMarked(x, v, MarkTried(Create(x, a, c), n, s), Try(Create(v, a, c), n, s))
      BY <3>1, BehindCreate
    <3> QED  BY <3>2 DEF q, BehindMarked
  <2>4. w.nNew = q.nNew
    <3>1. Whole(q)
      BY <1>9 DEF Near, Shaped
    <3> QED  BY <3>1 DEF Try, Whole, Fields
  <2> QED  BY <2>2, <2>3, <2>4, <1>3, <1>5
<1> HIDE DEF w
<1>14. Came(m, o, w, n + 1)
  <2>1. /\ w.ids = n + 1 /\ DOMAIN w.info = DOMAIN v.info \cup {n}
        /\ \A j \in DOMAIN v.info : w.info[j] = v.info[j]
        /\ w.info[n].addr = m.info[o[n]].addr /\ w.info[n].source = m.info[o[n]].source
    BY <1>6, <1>11, <1>12 DEF Patched
  <2>2. w.info[n].tried <=> m.info[o[n]].tried
    BY <1>2, <1>12 DEF Renumbered
  <2>3. n \in Nat /\ Came(m, o, v, n)
    BY <1>2, <1>5
  <2> QED  BY <2>1, <2>2, <2>3, CameMore
<1>15. TriedCounted(m, o, w, k, u)
  <2>1. Near(w, 0 .. (u - 1), 0)
    BY <1>12, <1>3, <1>F
  <2>2. Came(m, o, w, u + k)
    BY <1>14, <1>2
  <2>3. w.nNew = u /\ w.nTried = k /\ w.new = Empty.new
    BY <1>5, <1>11, <1>12, <1>13
  <2> QED  BY <2>1, <2>2, <2>3 DEF TriedCounted
<1> QED  BY <1>13, <1>15 DEF TriedCame

LEMMA NotBehind ==
    ASSUME NEW x, NEW v, Behind(x, v), x.nTried = v.nTried
    PROVE  x = v
<1>1. DOMAIN x = Fields /\ DOMAIN v = Fields /\ x = [k \in Fields |-> x[k]] /\ v = [k \in Fields |-> v[k]]
  BY DEF Behind, Whole
<1>2. \A k \in Fields : x[k] = v[k]
  BY DEF Behind, Fields
<1> QED  BY <1>1, <1>2

LEMMA TriedLoaded ==
    ASSUME NEW m, Near(m, {}, 0), NEW o, NEW u, NEW t, Renumbered(m, o, u, t), NEW f, FileOf(m, f, o, u, t),
           NEW n, NewCame(m, o, n, u, u)
    PROVE  TriedCounted(m, o, LoadAllTried([n EXCEPT !.nTried = Len(f.tried)], f.tried), t, u)
<1> DEFINE b == [n EXCEPT !.nTried = Len(f.tried)]
           s == f.tried
<1>1. u \in Nat /\ t \in Nat /\ u - u = 0 /\ u + 0 = u
  BY DEF Renumbered
<1>2. DOMAIN s = 1 .. t /\ Len(f.tried) = t
      /\ \A k \in 1 .. t : s[k] = [addr |-> m.info[o[u + k - 1]].addr, source |-> m.info[o[u + k - 1]].source]
  BY DEF FileOf
<1>n. n \in Man /\ Whole(n)
  BY NearMan DEF NewCame, Near, Shaped
<1>3. TriedCame(m, o, b, 0, u, t)
  <2>1. TriedCounted(m, o, n, 0, u)
    BY <1>1 DEF NewCame, TriedCounted
  <2>2. Behind(b, n) /\ b.nTried = t
    BY <1>2, <1>n DEF Behind, Whole, Fields
  <2> QED  BY <2>1, <2>2 DEF TriedCame
<1>4. b \in Man
  BY <1>1, <1>2, <1>n DEF Man
<1>5. \A k \in 1 .. t : s[k] \in FileEntry
  <2> SUFFICES ASSUME NEW k \in 1 .. t PROVE s[k] \in FileEntry
    OBVIOUS
  <2>1. u + k - 1 \in 0 .. (u + t - 1)
    BY <1>1
  <2>2. m.info[o[u + k - 1]] \in Info
    BY <2>1 DEF Renumbered, Near, Shaped
  <2>3. m.info[o[u + k - 1]].addr \in Addr /\ m.info[o[u + k - 1]].source \in Source
    BY <2>2 DEF Info
  <2>4. s[k] = [addr |-> m.info[o[u + k - 1]].addr, source |-> m.info[o[u + k - 1]].source]
    BY <1>2
  <2> QED  BY <2>3, <2>4 DEF FileEntry
<1> HIDE DEF b, s
<1>6. PICK h : /\ h[0] = b /\ \A k \in 1 .. t : h[k] = LoadTried(h[k - 1], s[k])
               /\ LoadAllTried(b, s) = h[t]
  <2>1. b \in Man /\ t \in Nat /\ DOMAIN s = 1 .. t /\ \A k \in 1 .. t : s[k] \in FileEntry
    BY <1>1, <1>2, <1>4, <1>5
  <2> QED  BY <2>1, LoadAllTriedRuns
<1> DEFINE S == {k \in Nat : TriedCame(m, o, h[k], k, u, t)}
<1>7. 0 \in S
  BY <1>3, <1>6
<1>8. ASSUME NEW k \in 1 .. t, k - 1 \in S PROVE k \in S
  <2>1. TriedCame(m, o, h[k - 1], k - 1, u, t)
    BY <1>8
  <2>2. TriedCame(m, o, LoadTried(h[k - 1], s[k]), k, u, t)
    BY <2>1, <1>2, TriedComes
  <2> QED  BY <2>2, <1>6
<1> HIDE DEF S
<1>9. t \in S
  <2>1. \A k \in 0 .. t : k \in S
    BY <1>1, <1>7, <1>8, InductionTo
  <2> QED  BY <2>1, <1>1
<1>10. PICK v : Behind(h[t], v) /\ TriedCounted(m, o, v, t, u) /\ h[t].nTried = t
  BY <1>9 DEF S, TriedCame
<1>11. h[t] = v
  BY <1>10, NotBehind DEF TriedCounted
<1> QED  BY <1>6, <1>10, <1>11 DEF b, s

\* the references of the slots in S have been loaded
RefsCame(m, o, x, u, t, S) ==
    /\ \E F \in SUBSET (0 .. (u - 1)) : Near(x, F, 0)
    /\ Came(m, o, x, u + t) /\ x.nNew = u /\ x.nTried = t
    /\ \A s \in NewSlot :
          /\ s \in S /\ m.new[s] # Nobody => x.new[s] = mapUnkIds(m, m.new[s])
          /\ s \notin S \/ m.new[s] = Nobody => x.new[s] = Nobody

LEMMA CamePatched ==
    ASSUME NEW m, NEW o, NEW x, NEW n, Came(m, o, x, n), NEW r, Patched(x, r),
           \A j \in DOMAIN x.info : r.info[j].tried <=> x.info[j].tried
    PROVE  Came(m, o, r, n)
<1>1. r.ids = n /\ DOMAIN r.info = DOMAIN x.info /\ DOMAIN x.info = 0 .. (n - 1)
  BY DEF Came, Patched
<1>2. \A i \in DOMAIN x.info : r.info[i].addr = x.info[i].addr /\ r.info[i].source = x.info[i].source
  BY DEF Patched
<1> QED  BY <1>1, <1>2 DEF Came

\* what is in the new table
Placed(m, i) == i \in DOMAIN m.info /\ ~m.info[i].tried /\ m.info[i].ref # 0

LEMMA PlacedIs ==
    ASSUME NEW m, NEW F, NEW d, Near(m, F, d), NEW s \in NewSlot, m.new[s] # Nobody, NEW i, i = m.new[s]
    PROVE  Placed(m, i)
<1>1. i \in DOMAIN m.info
  BY DEF Near, Shaped
<1>2. s \in Places(m.new, i)
  BY DEF Places
<1>3. m.info[i].ref = Cardinality(Places(m.new, i))
  BY <1>1 DEF Near, Referred
<1>4. Cardinality(Places(m.new, i)) # 0
  BY <1>2, PlacesNumber, FS_EmptySet
<1>5. m.info[i].ref # 0
  BY <1>3, <1>4
<1>6. m.info[i].tried => m.info[i].ref = 0
  BY <1>1 DEF Near, Referred
<1> QED  BY <1>1, <1>5, <1>6 DEF Placed

LEMMA RefComes ==
    ASSUME NEW m, Near(m, {}, 0), NEW o, NEW u, NEW t, Renumbered(m, o, u, t), NEW x, NEW S,
           RefsCame(m, o, x, u, t, S), NEW b \in Bucket, NEW slot \in NewSlot \ S, slot[1] = b,
           NEW j, m.new[slot] = j, j # Nobody, NEW i, i = mapUnkIds(m, j)
    PROVE  RefsCame(m, o, LoadRef(x, b, i), u, t, S \cup {slot})
<1> DEFINE r == PutNew(x, i, slot)
<1>0. u \in Nat /\ t \in Nat /\ MaxRefs \in Nat /\ slot \in NewSlot /\ slot \notin S /\ 0 \in Int
  BY AddrManAssumption DEF Renumbered
<1>1. j \in DOMAIN m.info /\ ~m.info[j].tried /\ m.info[j].ref # 0
  <2>1. Placed(m, j)
    BY PlacedIs
  <2> QED  BY <2>1 DEF Placed
<1>2. i \in 0 .. (u - 1) /\ o[i] = j
  BY <1>1 DEF Renumbered
<1>3. PICK F \in SUBSET (0 .. (u - 1)) : Near(x, F, 0)
  BY DEF RefsCame
<1>4. /\ Came(m, o, x, u + t) /\ x.nNew = u /\ x.nTried = t
      /\ \A s \in NewSlot :
          /\ s \in S /\ m.new[s] # Nobody => x.new[s] = mapUnkIds(m, m.new[s])
          /\ s \notin S \/ m.new[s] = Nobody => x.new[s] = Nobody
  BY DEF RefsCame
<1>5. i \in 0 .. (u + t - 1) /\ i < u /\ i # Nobody
  BY <1>0, <1>2 DEF Nobody
<1>6. i \in DOMAIN x.info /\ x.info[i].addr = m.info[j].addr /\ ~x.info[i].tried
  <2>1. (u + t) - 1 = u + t - 1
    BY <1>0
  <2> QED  BY <2>1, <1>1, <1>2, <1>4, <1>5 DEF Came
<1>7. slot = Position(m.info[j].addr, b)
  <2>1. slot \in Places(m.new, j)
    BY DEF Places
  <2> QED  BY <2>1, <1>1 DEF Near, Referred
<1>8. x.new[slot] = Nobody
  BY <1>0, <1>4
<1>9. x.info[i].ref < MaxRefs
  <2>1. ASSUME NEW s \in Places(x.new, i) PROVE s \in Places(m.new, j) \ {slot}
    <3>1. s \in NewSlot /\ x.new[s] = i
      BY <2>1 DEF Places
    <3>2. s \in S /\ m.new[s] # Nobody /\ s # slot
      BY <3>1, <1>4, <1>5, <1>8
    <3> DEFINE l == m.new[s]
    <3>3. l # Nobody /\ m.new[s] = l /\ mapUnkIds(m, l) = i
      BY <3>1, <3>2, <1>4
    <3> HIDE DEF l
    <3>4. Placed(m, l)
      BY <3>1, <3>3, PlacedIs
    <3>6. o[i] = l
      BY <3>3, <3>4 DEF Renumbered, Placed
    <3> QED  BY <3>1, <3>2, <3>3, <3>6, <1>2 DEF Places
  <2>2. Places(x.new, i) \in SUBSET (Places(m.new, j) \ {slot}) /\ slot \in Places(m.new, j)
    BY <2>1 DEF Places
  <2>3. IsFiniteSet(Places(m.new, j)) /\ Cardinality(Places(m.new, j)) \in Nat
    BY PlacesNumber
  <2>4. IsFiniteSet(Places(m.new, j) \ {slot}) /\ Cardinality(Places(m.new, j) \ {slot}) = Cardinality(Places(m.new, j)) - 1
    BY <2>2, <2>3, FS_RemoveElement
  <2>5. Cardinality(Places(x.new, i)) <= Cardinality(Places(m.new, j) \ {slot})
    BY <2>2, <2>4, FS_Subset
  <2>6. Cardinality(Places(x.new, i)) \in Nat
    BY PlacesNumber
  <2>7. x.info[i].ref = Cardinality(Places(x.new, i))
    BY <1>3, <1>6 DEF Near, Referred
  <2>8. m.info[j].ref = Cardinality(Places(m.new, j)) /\ m.info[j].ref <= MaxRefs
    BY <1>1 DEF Near, Referred
  <2> QED  BY <2>3, <2>4, <2>5, <2>6, <2>7, <2>8, <1>0
<1>10. slot = Position(x.info[i].addr, b)
  BY <1>6, <1>7
<1>11. LoadRef(x, b, i) = r
  BY <1>4, <1>5, <1>8, <1>9, <1>10 DEF LoadRef, PutNew
<1>12. r = PutNew(x, i, Position(x.info[i].addr, b)) /\ x.new[Position(x.info[i].addr, b)] = Nobody
  BY <1>8, <1>10
<1> HIDE DEF r
<1>13. Near(r, F \ {i}, 0) /\ Patched(x, r) /\ PlaceGiven(x, r, i, Position(x.info[i].addr, b))
  BY <1>0, <1>3, <1>6, <1>9, <1>12, PutKeeps
<1>14. /\ \A l \in DOMAIN x.info \ {i} : r.info[l] = x.info[l]
       /\ ~r.info[i].tried /\ r.new = [x.new EXCEPT ![slot] = i] /\ r.nNew = u /\ r.nTried = t
  BY <1>4, <1>10, <1>13 DEF PlaceGiven
<1>15. Came(m, o, r, u + t)
  <2>1. \A l \in DOMAIN x.info : r.info[l].tried <=> x.info[l].tried
    BY <1>6, <1>14
  <2> QED  BY <2>1, <1>4, <1>13, CamePatched
<1>16. ASSUME NEW s \in NewSlot
       PROVE  /\ s \in S \cup {slot} /\ m.new[s] # Nobody => r.new[s] = mapUnkIds(m, m.new[s])
              /\ s \notin S \cup {slot} \/ m.new[s] = Nobody => r.new[s] = Nobody
  <2>1. x.new \in [NewSlot -> DOMAIN x.info \cup {Nobody}]
    BY <1>3 DEF Near, Shaped
  <2>2. CASE s = slot
    BY <2>1, <2>2, <1>14
  <2>3. CASE s # slot
    BY <2>1, <2>3, <1>4, <1>14
  <2> QED  BY <2>2, <2>3
<1>17. F \ {i} \in SUBSET (0 .. (u - 1))
  OBVIOUS
<1> QED  BY <1>11, <1>13, <1>14, <1>15, <1>16, <1>17 DEF RefsCame

LEMMA RefsLoading ==
    ASSUME NEW m, NEW o, NEW x, NEW u \in Nat, NEW t \in Nat, NEW S, RefsCame(m, o, x, u, t, S)
    PROVE  x \in Loading
<1>1. x \in Man
  BY NearMan DEF RefsCame
<1>2. DOMAIN x.info = 0 .. ((u + t) - 1) /\ x.nNew = u
  BY DEF RefsCame, Came
<1> QED  BY <1>1, <1>2 DEF Loading

\* only the filled slots count
LEMMA RefsSame ==
    ASSUME NEW m, NEW o, NEW x, NEW u, NEW t, NEW S, RefsCame(m, o, x, u, t, S), NEW R,
           \A s \in NewSlot : m.new[s] # Nobody => (s \in R <=> s \in S)
    PROVE  RefsCame(m, o, x, u, t, R)
  BY DEF RefsCame

\* the slots of a bucket
InBucket(b) == {s \in NewSlot : s[1] = b}

LEMMA BucketComes ==
    ASSUME NEW m, Near(m, {}, 0), NEW o, NEW u, NEW t, Renumbered(m, o, u, t), NEW f, FileOf(m, f, o, u, t),
           NEW x, NEW S, RefsCame(m, o, x, u, t, S), NEW b \in Bucket, S \cap InBucket(b) = {}
    PROVE  RefsCame(m, o, LoadBucket(x, b, f.buckets[b]), u, t, S \cup InBucket(b))
<1> DEFINE l == f.buckets[b]
<1>1. PICK n \in Nat : \E s \in [1 .. n -> Filled(m, b)] :
          /\ \A i, k \in 1 .. n : s[i] = s[k] => i = k
          /\ \A p \in Filled(m, b) : \E k \in 1 .. n : s[k] = p
          /\ DOMAIN l = 1 .. n
          /\ \A k \in 1 .. n : l[k] = mapUnkIds(m, m.new[<<b, s[k]>>])
  BY DEF FileOf
<1>2. PICK s \in [1 .. n -> Filled(m, b)] :
          /\ \A i, k \in 1 .. n : s[i] = s[k] => i = k
          /\ \A p \in Filled(m, b) : \E k \in 1 .. n : s[k] = p
          /\ DOMAIN l = 1 .. n
          /\ \A k \in 1 .. n : l[k] = mapUnkIds(m, m.new[<<b, s[k]>>])
  BY <1>1
<1> HIDE DEF l
<1>3. ASSUME NEW k \in 1 .. n
      PROVE  <<b, s[k]>> \in NewSlot /\ <<b, s[k]>> \in InBucket(b) /\ m.new[<<b, s[k]>>] # Nobody
             /\ l[k] \in Nat
  <2>1. s[k] \in 1 .. Slots /\ m.new[<<b, s[k]>>] # Nobody
    BY DEF Filled
  <2>2. <<b, s[k]>> \in NewSlot
    BY <2>1 DEF NewSlot
  <2>3. <<b, s[k]>> \in InBucket(b)
    BY <2>2 DEF InBucket
  <2> DEFINE j == m.new[<<b, s[k]>>]
  <2>4. Placed(m, j)
    BY <2>1, <2>2, PlacedIs
  <2>5. mapUnkIds(m, j) \in 0 .. (u - 1)
    BY <2>4 DEF Placed, Renumbered
  <2>6. u \in Nat
    BY DEF Renumbered
  <2> HIDE DEF j
  <2>7. mapUnkIds(m, j) \in Nat
    BY <2>5, <2>6
  <2>8. l[k] = mapUnkIds(m, j)
    BY <1>2 DEF j
  <2> QED  BY <2>1, <2>2, <2>3, <2>7, <2>8
<1>4. u \in Nat /\ t \in Nat
  BY DEF Renumbered
<1>5. PICK h : /\ h[0] = x /\ \A k \in 1 .. n : h[k] = LoadRef(h[k - 1], b, l[k])
               /\ LoadBucket(x, b, l) = h[n]
  <2>1. x \in Loading
    BY <1>4, RefsLoading
  <2>2. DOMAIN l = 1 .. n /\ \A k \in 1 .. n : l[k] \in Nat
    BY <1>2, <1>3
  <2> QED  BY <2>1, <2>2, LoadBucketRuns
<1> DEFINE R(k) == S \cup {<<b, s[i]>> : i \in 1 .. k}
           P == {k \in Nat : RefsCame(m, o, h[k], u, t, R(k))}
<1>6. 0 \in P
  <2>1. R(0) = S
    OBVIOUS
  <2> QED  BY <2>1, <1>5
<1>7. ASSUME NEW k \in 1 .. n, k - 1 \in P PROVE k \in P
  <2> DEFINE slot == <<b, s[k]>>
             j == m.new[slot]
             y == h[k - 1]
             Q == R(k - 1)
  <2>1. RefsCame(m, o, y, u, t, Q)
    BY <1>7
  <2>2. slot \in NewSlot /\ slot \in InBucket(b) /\ j # Nobody /\ slot[1] = b /\ l[k] = mapUnkIds(m, j)
    BY <1>2, <1>3
  <2>3. slot \notin Q
    <3>1. slot \notin S
      BY <2>2
    <3>2. ASSUME NEW i \in 1 .. (k - 1) PROVE slot # <<b, s[i]>>
      <4>1. i \in 1 .. n /\ i # k
        OBVIOUS
      <4>2. s[i] # s[k]
        BY <4>1, <1>2
      <4> QED  BY <4>2
    <3> QED  BY <3>1, <3>2
  <2>4. R(k) = Q \cup {slot}
    <3>1. \A i \in 1 .. k : i = k \/ i \in 1 .. (k - 1)
      OBVIOUS
    <3>2. k \in 1 .. k /\ \A i \in 1 .. (k - 1) : i \in 1 .. k
      OBVIOUS
    <3> QED  BY <3>1, <3>2
  <2>5. h[k] = LoadRef(y, b, l[k]) /\ j = m.new[slot]
    BY <1>5
  <2> HIDE DEF slot, j, y, Q, R
  <2>6. RefsCame(m, o, LoadRef(y, b, l[k]), u, t, Q \cup {slot})
    BY <2>1, <2>2, <2>3, <2>5, RefComes
  <2>7. RefsCame(m, o, h[k], u, t, R(k)) /\ k \in Nat
    BY <2>4, <2>5, <2>6
  <2> QED  BY <2>7
<1> HIDE DEF P
<1>8. n \in P
  <2>1. \A k \in 0 .. n : k \in P
    BY <1>6, <1>7, InductionTo
  <2> QED  BY <2>1
<1>9. RefsCame(m, o, h[n], u, t, R(n))
  BY <1>8 DEF P
<1>10. ASSUME NEW p \in NewSlot, m.new[p] # Nobody PROVE p \in S \cup InBucket(b) <=> p \in R(n)
  <2>1. ASSUME p \in InBucket(b) PROVE p \in R(n)
    <3>1. p = <<b, p[2]>> /\ p[2] \in 1 .. Slots
      BY <2>1 DEF InBucket, NewSlot
    <3>2. p[2] \in Filled(m, b)
      BY <3>1, <1>10 DEF Filled
    <3>3. PICK k \in 1 .. n : s[k] = p[2]
      BY <3>2, <1>2
    <3> QED  BY <3>1, <3>3
  <2>2. R(n) \subseteq S \cup InBucket(b)
    BY <1>3
  <2>3. S \subseteq R(n)
    OBVIOUS
  <2> HIDE DEF R
  <2> QED  BY <2>1, <2>2, <2>3
<1> HIDE DEF R
<1>11. RefsCame(m, o, h[n], u, t, S \cup InBucket(b))
  BY <1>9, <1>10, RefsSame
<1> QED  BY <1>5, <1>11 DEF l

LEMMA BucketsLoaded ==
    ASSUME NEW m, Near(m, {}, 0), NEW o, NEW u, NEW t, Renumbered(m, o, u, t), NEW f, FileOf(m, f, o, u, t),
           NEW x, RefsCame(m, o, x, u, t, {})
    PROVE  RefsCame(m, o, LoadBuckets(x, f.buckets), u, t, NewSlot)
<1> DEFINE n == Cardinality(Bucket)
           c == InOrder(Bucket)
           l == f.buckets
<1>1. Lists(c, Bucket, n) /\ n \in Nat /\ \A k \in 1 .. n : c[k] = Nth(Bucket, k)
  <2>1. Bucket \in SUBSET Nat /\ IsFiniteSet(Bucket)
    BY AddrManAssumption
  <2>2. Lists(c, Bucket, n) /\ n \in Nat
    BY <2>1, InOrderLists
  <2> QED  BY <2>2 DEF InOrder
<1>2. u \in Nat /\ t \in Nat
  BY DEF Renumbered
<1>3. x \in Loading
  BY <1>2, RefsLoading
<1>4. ASSUME NEW b \in Bucket PROVE \E k \in Nat : DOMAIN l[b] = 1 .. k /\ \A p \in 1 .. k : l[b][p] \in Nat
  <2>1. PICK k \in Nat : \E s \in [1 .. k -> Filled(m, b)] :
          /\ \A i, p \in 1 .. k : s[i] = s[p] => i = p
          /\ \A p \in Filled(m, b) : \E i \in 1 .. k : s[i] = p
          /\ DOMAIN l[b] = 1 .. k
          /\ \A p \in 1 .. k : l[b][p] = mapUnkIds(m, m.new[<<b, s[p]>>])
    BY DEF FileOf
  <2>2. PICK s \in [1 .. k -> Filled(m, b)] :
          /\ DOMAIN l[b] = 1 .. k
          /\ \A p \in 1 .. k : l[b][p] = mapUnkIds(m, m.new[<<b, s[p]>>])
    BY <2>1
  <2>3. ASSUME NEW p \in 1 .. k PROVE l[b][p] \in Nat
    <3>1. s[p] \in 1 .. Slots /\ m.new[<<b, s[p]>>] # Nobody
      BY DEF Filled
    <3>2. <<b, s[p]>> \in NewSlot
      BY <3>1 DEF NewSlot
    <3> DEFINE j == m.new[<<b, s[p]>>]
    <3>3. Placed(m, j)
      BY <3>1, <3>2, PlacedIs
    <3>4. mapUnkIds(m, j) \in 0 .. (u - 1)
      BY <3>3 DEF Placed, Renumbered
    <3>5. l[b][p] = mapUnkIds(m, j)
      BY <2>2
    <3> HIDE DEF j
    <3>6. mapUnkIds(m, j) \in Nat
      BY <3>4, <1>2
    <3> QED  BY <3>5, <3>6
  <2> QED  BY <2>2, <2>3
<1> HIDE DEF n, c, l
<1>5. PICK h : /\ h \in [0 .. n -> Loading] /\ h[0] = x
               /\ \A k \in 1 .. n : h[k] = LoadBucket(h[k - 1], Nth(Bucket, k), l[Nth(Bucket, k)])
               /\ LoadBuckets(x, l) = h[n]
  BY <1>1, <1>3, <1>4, LoadBucketsRuns DEF n
<1> DEFINE R(k) == {s \in NewSlot : \E i \in 1 .. k : s[1] = c[i]}
           P == {k \in Nat : RefsCame(m, o, h[k], u, t, R(k))}
<1>6. 0 \in P
  <2>1. R(0) = {}
    OBVIOUS
  <2> QED  BY <2>1, <1>5
<1>7. ASSUME NEW k \in 1 .. n, k - 1 \in P PROVE k \in P
  <2> DEFINE b == c[k]
             y == h[k - 1]
             Q == R(k - 1)
  <2>1. RefsCame(m, o, y, u, t, Q)
    BY <1>7
  <2>2. b \in Bucket /\ h[k] = LoadBucket(y, b, l[b])
    BY <1>1, <1>5 DEF Lists
  <2>3. Q \cap InBucket(b) = {}
    <3> SUFFICES ASSUME NEW s \in NewSlot, s[1] = c[k], NEW i \in 1 .. (k - 1), s[1] = c[i] PROVE FALSE
      BY DEF InBucket
    <3>1. i \in 1 .. n /\ i # k /\ c[i] = c[k]
      BY <1>1
    <3> QED  BY <3>1, <1>1 DEF Lists
  <2>4. R(k) = Q \cup InBucket(b)
    <3>1. \A i \in 1 .. k : i = k \/ i \in 1 .. (k - 1)
      OBVIOUS
    <3>2. k \in 1 .. k /\ \A i \in 1 .. (k - 1) : i \in 1 .. k
      OBVIOUS
    <3> QED  BY <3>1, <3>2 DEF InBucket
  <2> HIDE DEF b, y, Q, R
  <2>5. RefsCame(m, o, LoadBucket(y, b, l[b]), u, t, Q \cup InBucket(b))
    BY <2>1, <2>2, <2>3, BucketComes DEF l
  <2>6. RefsCame(m, o, h[k], u, t, R(k)) /\ k \in Nat
    BY <2>2, <2>4, <2>5
  <2> QED  BY <2>6
<1> HIDE DEF P
<1>8. n \in P
  <2>1. \A k \in 0 .. n : k \in P
    BY <1>1, <1>6, <1>7, InductionTo
  <2> QED  BY <2>1, <1>1
<1>9. RefsCame(m, o, h[n], u, t, R(n))
  BY <1>8 DEF P
<1>10. R(n) = NewSlot
  <2>1. \A s \in NewSlot : s[1] \in Bucket
    BY DEF NewSlot
  <2>2. \A b \in Bucket : \E i \in 1 .. n : c[i] = b
    BY <1>1 DEF Lists
  <2> QED  BY <2>1, <2>2
<1> HIDE DEF R
<1> QED  BY <1>5, <1>9, <1>10 DEF l

\* every reference is back: nothing is lost
LEMMA AllCame ==
    ASSUME NEW m, Near(m, {}, 0), NEW o, NEW u, NEW t, Renumbered(m, o, u, t),
           NEW x, RefsCame(m, o, x, u, t, NewSlot)
    PROVE  /\ Near(x, {}, 0) /\ x.nNew = m.nNew /\ x.nTried = m.nTried
           /\ Addresses(x) = Addresses(m)
<1> DEFINE I == 0 .. (u + t - 1)
<1>1. u \in Nat /\ t \in Nat /\ m.nNew = u /\ m.nTried = t /\ (u + t) - 1 = u + t - 1
  BY DEF Renumbered
<1>2. PICK F \in SUBSET (0 .. (u - 1)) : Near(x, F, 0)
  BY DEF RefsCame
<1>3. /\ DOMAIN x.info = I /\ x.nNew = u /\ x.nTried = t
      /\ \A i \in I : /\ x.info[i].addr = m.info[o[i]].addr /\ x.info[i].source = m.info[o[i]].source
                      /\ x.info[i].tried <=> m.info[o[i]].tried
  BY <1>1 DEF RefsCame, Came
<1>4. /\ o \in [I -> DOMAIN m.info]
      /\ \A i, k \in I : o[i] = o[k] => i = k
      /\ \A j \in DOMAIN m.info : \E i \in I : o[i] = j
      /\ \A i \in I : i < u => m.info[o[i]].ref # 0
      /\ \A j \in DOMAIN m.info : m.info[j].ref # 0 =>
          mapUnkIds(m, j) \in 0 .. (u - 1) /\ o[mapUnkIds(m, j)] = j
  BY DEF Renumbered
<1>5. \A i \in 0 .. (u - 1) : i \in I /\ i < u /\ i # Nobody
  BY <1>1 DEF Nobody
<1>6. ASSUME NEW s \in NewSlot
      PROVE  /\ m.new[s] = Nobody => x.new[s] = Nobody
             /\ m.new[s] # Nobody => x.new[s] \in I /\ x.new[s] # Nobody /\ o[x.new[s]] = m.new[s]
  <2>1. m.new[s] = Nobody => x.new[s] = Nobody
    BY DEF RefsCame
  <2>2. ASSUME m.new[s] # Nobody PROVE x.new[s] \in I /\ x.new[s] # Nobody /\ o[x.new[s]] = m.new[s]
    <3> DEFINE j == m.new[s]
    <3>1. x.new[s] = mapUnkIds(m, j)
      BY <2>2 DEF RefsCame
    <3>2. Placed(m, j)
      BY <2>2, PlacedIs
    <3> HIDE DEF j
    <3>3. mapUnkIds(m, j) \in 0 .. (u - 1) /\ o[mapUnkIds(m, j)] = j
      BY <3>2, <1>4 DEF Placed
    <3> QED  BY <3>1, <3>3, <1>5 DEF j
  <2> QED  BY <2>1, <2>2
<1> HIDE DEF I
<1>7. F = {}
  <2> SUFFICES ASSUME NEW i \in F PROVE FALSE
    OBVIOUS
  <2>1. i \in I /\ i < u /\ i # Nobody
    BY <1>5
  <2>2. x.info[i].ref = 0 /\ x.info[i].ref = Cardinality(Places(x.new, i))
    BY <2>1, <1>2, <1>3 DEF Near, Referred
  <2>3. Places(x.new, i) = {}
    BY <2>2, PlacesNumber, FS_EmptySet
  <2>4. o[i] \in DOMAIN m.info /\ m.info[o[i]].ref # 0
    BY <2>1, <1>4
  <2>5. m.info[o[i]].ref = Cardinality(Places(m.new, o[i]))
    BY <2>4 DEF Near, Referred
  <2>6. Places(m.new, o[i]) # {}
    BY <2>4, <2>5, FS_EmptySet
  <2>7. PICK s \in NewSlot : m.new[s] = o[i]
    BY <2>6 DEF Places
  <2>8. o[i] # Nobody
    BY <2>4 DEF Near, Shaped, Nobody
  <2>9. x.new[s] \in I /\ o[x.new[s]] = o[i]
    BY <2>7, <2>8, <1>6
  <2>10. x.new[s] = i
    BY <2>1, <2>9, <1>4
  <2> QED  BY <2>3, <2>10 DEF Places
<1>8. Near(x, {}, 0)
  BY <1>2, <1>7
<1>9. ASSUME NEW s \in NewSlot
      PROVE  {x.info[i].addr : i \in {x.new[s]} \ {Nobody}} = {m.info[i].addr : i \in {m.new[s]} \ {Nobody}}
  <2>1. CASE m.new[s] = Nobody
    BY <2>1, <1>6
  <2>2. CASE m.new[s] # Nobody
    <3> DEFINE i == x.new[s]
               j == m.new[s]
    <3>1. i \in I /\ i # Nobody /\ o[i] = j /\ j # Nobody
      BY <2>2, <1>6
    <3>2. x.info[i].addr = m.info[j].addr
      BY <3>1, <1>3
    <3>3. {i} \ {Nobody} = {i} /\ {j} \ {Nobody} = {j}
      BY <3>1
    <3> HIDE DEF i, j
    <3>4. {x.info[k].addr : k \in {i} \ {Nobody}} = {m.info[k].addr : k \in {j} \ {Nobody}}
      BY <3>2, <3>3
    <3> QED  BY <3>4 DEF i, j
  <2> QED  BY <2>1, <2>2
<1>10. ASSUME NEW s \in TriedSlot
       PROVE  {x.info[i].addr : i \in {x.tried[s]} \ {Nobody}} = {m.info[i].addr : i \in {m.tried[s]} \ {Nobody}}
  <2>1. ASSUME x.tried[s] # Nobody PROVE m.tried[s] = o[x.tried[s]] /\ x.tried[s] \in I
    <3> DEFINE i == x.tried[s]
    <3>1. i \in I
      BY <2>1, <1>2, <1>3 DEF Near, Shaped
    <3>2. GetTriedSlot[x.info[i].addr] = s
      BY <2>1, <1>2 DEF Near, TriedPlaced
    <3>3. x.info[i].tried
      BY <3>1, <3>2, <1>2, <1>3 DEF Near, TriedPlaced
    <3> HIDE DEF i
    <3>4. o[i] \in DOMAIN m.info /\ m.info[o[i]].tried /\ GetTriedSlot[m.info[o[i]].addr] = s
      BY <3>1, <3>2, <3>3, <1>3, <1>4
    <3>5. m.tried[s] = o[i]
      BY <3>4 DEF Near, TriedPlaced
    <3> QED  BY <3>1, <3>5 DEF i
  <2>2. ASSUME m.tried[s] # Nobody PROVE x.tried[s] # Nobody
    <3> DEFINE j == m.tried[s]
    <3>1. j \in DOMAIN m.info
      BY <2>2 DEF Near, Shaped
    <3>2. GetTriedSlot[m.info[j].addr] = s
      BY <2>2 DEF Near, TriedPlaced
    <3>3. m.info[j].tried
      BY <3>1, <3>2 DEF Near, TriedPlaced
    <3> HIDE DEF j
    <3>4. PICK i \in I : o[i] = j
      BY <3>1, <1>4
    <3>5. x.info[i].tried /\ GetTriedSlot[x.info[i].addr] = s
      BY <3>2, <3>3, <3>4, <1>3
    <3>6. x.tried[s] = i
      BY <3>5, <1>2, <1>3 DEF Near, TriedPlaced
    <3>7. i # Nobody
      BY <1>2, <1>3 DEF Near, Shaped, Nobody
    <3> QED  BY <3>6, <3>7
  <2>3. CASE x.tried[s] = Nobody
    BY <2>2, <2>3
  <2>4. CASE x.tried[s] # Nobody
    <3> DEFINE i == x.tried[s]
               j == m.tried[s]
    <3>1. i \in I /\ i # Nobody /\ o[i] = j
      BY <2>1, <2>4
    <3>2. j \in DOMAIN m.info
      BY <3>1, <1>4
    <3>3. j # Nobody
      BY <3>2 DEF Near, Shaped, Nobody
    <3>4. x.info[i].addr = m.info[j].addr
      BY <3>1, <1>3
    <3>5. {i} \ {Nobody} = {i} /\ {j} \ {Nobody} = {j}
      BY <3>1, <3>3
    <3> HIDE DEF i, j
    <3>6. {x.info[k].addr : k \in {i} \ {Nobody}} = {m.info[k].addr : k \in {j} \ {Nobody}}
      BY <3>4, <3>5
    <3> QED  BY <3>6 DEF i, j
  <2> QED  BY <2>3, <2>4
<1>11. {<<x.info[i].addr, x.info[i].source>> : i \in DOMAIN x.info}
       = {<<m.info[i].addr, m.info[i].source>> : i \in DOMAIN m.info}
  BY <1>3, <1>4
<1>12. Addresses(x) = Addresses(m)
  BY <1>9, <1>10, <1>11 DEF Addresses
<1> QED  BY <1>1, <1>3, <1>8, <1>12

\* peers.dat holds what its reader needs
LEMMA RoundTrip ==
    ASSUME NEW m, Near(m, {}, 0), NEW r, r = Unserialize(Serialize(m))
    PROVE  Near(r, {}, 0) /\ r.nNew = m.nNew /\ r.nTried = m.nTried /\ Addresses(r) = Addresses(m)
<1> DEFINE f == Serialize(m)
           n == LoadAllNew([Empty EXCEPT !.nNew = Len(f.new)], f.new)
           v == LoadAllTried([n EXCEPT !.nTried = Len(f.tried)], f.tried)
           x == LoadBuckets(v, f.buckets)
<1>1. r = DeleteLost(x)
  BY DEF Unserialize
<1>2. PICK o, u, t : Renumbered(m, o, u, t) /\ FileOf(m, f, o, u, t)
  BY Serialized
<1> HIDE DEF f
<1>3. NewCame(m, o, n, u, u)
  BY <1>2, NewLoaded
<1> HIDE DEF n
<1>4. TriedCounted(m, o, v, t, u)
  BY <1>2, <1>3, TriedLoaded
<1> HIDE DEF v
<1>5. RefsCame(m, o, v, u, t, {})
  <2>1. Near(v, 0 .. (u - 1), 0) /\ Came(m, o, v, u + t) /\ v.nNew = u /\ v.nTried = t /\ v.new = Empty.new
    BY <1>4 DEF TriedCounted
  <2>2. \A s \in NewSlot : v.new[s] = Nobody
    BY <2>1 DEF Empty
  <2> QED  BY <2>1, <2>2 DEF RefsCame
<1>6. RefsCame(m, o, x, u, t, NewSlot)
  BY <1>2, <1>5, BucketsLoaded
<1> HIDE DEF x
<1>7. Near(x, {}, 0) /\ x.nNew = m.nNew /\ x.nTried = m.nTried /\ Addresses(x) = Addresses(m)
  BY <1>2, <1>6, AllCame
<1>8. \A i \in DOMAIN x.info : x.info[i].tried \/ x.info[i].ref # 0
  BY <1>7 DEF Near, Referred
<1>9. r = x
  BY <1>1, <1>8, DeleteNone
<1> QED  BY <1>7, <1>9

----------------------------------------------------------------------------
(* The theorems about the address manager. *)

\* the tables agree, and so did those that peers.dat was made of
ManInv == Near(man, {}, 0) /\ \E m : Near(m, {}, 0) /\ disk = Serialize(m)

LEMMA NearExact ==
    ASSUME NEW m, Near(m, {}, 0)
    PROVE  Exact(m)
<1>0. Shaped(m) /\ Referred(m, {}) /\ TriedPlaced(m) /\ Indexed(m) /\ Counted(m, 0) /\ MaxId \in Nat
  BY AddrManAssumption DEF Near
<1>1. Typed(m)
  <2>1. m.ids \in 0 .. MaxId /\ DOMAIN m.info \subseteq 0 .. (m.ids - 1)
        /\ m.info \in [DOMAIN m.info -> Info] /\ m.addr \in [Addr -> DOMAIN m.info \cup {Nobody}]
        /\ m.random \in Seq(DOMAIN m.info)
        /\ m.new \in [NewSlot -> DOMAIN m.info \cup {Nobody}]
        /\ m.tried \in [TriedSlot -> DOMAIN m.info \cup {Nobody}]
    BY <1>0 DEF Shaped
  <2>2. DOMAIN m.info \subseteq Id
    BY <2>1, <1>0 DEF Id
  <2>3. m.addr \in [Addr -> Id \cup {Nobody}]
    BY <2>1, <2>2
  <2>4. m.nNew \in Nat /\ m.nTried \in Nat
    <3>1. /\ Cardinality(DOMAIN m.info) \in Nat /\ Cardinality(TriedIds(m.info)) \in Nat
          /\ Cardinality(TriedIds(m.info)) <= Cardinality(DOMAIN m.info)
      BY <1>0, IdsFinite
    <3> QED  BY <3>1, <1>0 DEF Counted
  <2>5. \A i \in DOMAIN m.info : m.info[i] \in Info
    BY <2>1
  <2> QED  BY <2>1, <2>3, <2>4, <2>5 DEF Typed
<1>2. RefsExact(m)
  <2> SUFFICES ASSUME NEW i \in DOMAIN m.info
               PROVE  /\ m.info[i].ref = Cardinality(Places(m.new, i))
                      /\ Places(m.new, i) = NewSlotsOf(m, i)
                      /\ ~m.info[i].tried => m.info[i].ref \in 1 .. MaxRefs
    BY DEF RefsExact, Places
  <2>1. m.info[i].ref = Cardinality(Places(m.new, i)) /\ m.info[i].ref <= MaxRefs
        /\ (m.info[i].tried \/ m.info[i].ref >= 1)
    BY <1>0 DEF Referred
  <2>2. Places(m.new, i) = NewSlotsOf(m, i)
    BY <1>0 DEF Referred, Places, NewSlotsOf
  <2>3. m.info[i].ref \in Nat /\ MaxRefs \in Nat
    BY <2>1, PlacesNumber, AddrManAssumption
  <2>4. ASSUME ~m.info[i].tried PROVE m.info[i].ref \in 1 .. MaxRefs
    BY <2>1, <2>3, <2>4
  <2> QED  BY <2>1, <2>2, <2>4
<1>3. TriedExact(m)
  BY <1>0 DEF TriedPlaced, Referred, TriedExact
<1>4. IndexesExact(m)
  <2>1. \A a \in Addr : m.addr[a] \in DOMAIN m.info \cup {Nobody}
    BY <1>0 DEF Shaped
  <2>2. /\ m.nTried = Cardinality({i \in DOMAIN m.info : m.info[i].tried})
        /\ m.nNew = Cardinality(DOMAIN m.info) - m.nTried
    <3>1. Cardinality(DOMAIN m.info) \in Nat /\ Cardinality(TriedIds(m.info)) \in Nat
      BY <1>0, IdsFinite
    <3>2. m.nTried = Cardinality(TriedIds(m.info)) /\ m.nNew = Cardinality(DOMAIN m.info) - m.nTried + 0
      BY <1>0 DEF Counted
    <3> QED  BY <3>1, <3>2 DEF TriedIds
  <2> QED  BY <2>1, <2>2, <1>0 DEF Indexed, IndexesExact
<1> QED  BY <1>1, <1>2, <1>3, <1>4 DEF Exact

LEMMA ManInit == AddrInit => ManInv
  BY EmptyNear DEF AddrInit, ManInv

LEMMA ManNext ==
    ASSUME ManInv, [AddrNext]_addrVars
    PROVE  ManInv' /\ (Restart \/ Forgets(man, man'))
<1>0. Near(man, {}, 0)
  BY DEF ManInv
<1>1. PICK d : Near(d, {}, 0) /\ disk = Serialize(d)
  BY DEF ManInv
<1>2. ASSUME UNCHANGED disk, Near(man', {}, 0) PROVE ManInv'
  BY <1>1, <1>2 DEF ManInv
<1>3. ASSUME man' = man PROVE Forgets(man, man') /\ Near(man', {}, 0)
  BY <1>0, <1>3 DEF Forgets
<1>4. ASSUME NEW a \in Addr, NEW s \in Source, NEW terrible \in BOOLEAN, Add(a, s, terrible)
      PROVE  ManInv' /\ Forgets(man, man')
  <2>1. Near(man', {}, 0) /\ Forgets(man, man')
    BY <1>0, <1>4, AddKeeps
  <2>2. UNCHANGED disk
    BY <1>4 DEF Add
  <2> QED  BY <2>1, <2>2, <1>2
<1>5. ASSUME NEW a \in Addr, Good(a) PROVE ManInv' /\ Forgets(man, man')
  <2>1. Near(man', {}, 0) /\ Forgets(man, man')
    BY <1>0, <1>5, GoodKeeps
  <2>2. UNCHANGED disk
    BY <1>5 DEF Good
  <2> QED  BY <2>1, <2>2, <1>2
<1>6. ASSUME NEW n \in 1 .. Len(man.random), NEW at \in [1 .. n -> 1 .. Len(man.random)], GetAddr(n, at)
      PROVE  ManInv' /\ Forgets(man, man')
  <2>1. Near(man', {}, 0) /\ Forgets(man, man')
    BY <1>0, <1>6, GetAddrKeeps
  <2>2. UNCHANGED disk
    BY <1>6 DEF GetAddr
  <2> QED  BY <2>1, <2>2, <1>2
<1>7. ASSUME Save PROVE ManInv' /\ Forgets(man, man')
  <2>1. man' = man /\ disk' = Serialize(man)
    BY <1>7 DEF Save
  <2> QED  BY <2>1, <1>0, <1>3 DEF ManInv
<1>8. ASSUME Restart PROVE ManInv'
  <2>1. man' = Unserialize(Serialize(d)) /\ UNCHANGED disk
    BY <1>1, <1>8 DEF Restart
  <2>2. Near(man', {}, 0)
    BY <2>1, <1>1, RoundTrip
  <2> QED  BY <2>1, <2>2, <1>2
<1>9. ASSUME UNCHANGED addrVars PROVE ManInv' /\ Forgets(man, man')
  <2>1. man' = man /\ UNCHANGED disk
    BY <1>9 DEF addrVars
  <2> QED  BY <2>1, <1>2, <1>3
<1> QED  BY <1>4, <1>5, <1>6, <1>7, <1>8, <1>9 DEF AddrNext

\* After Clear, and after every Add_, Good_, GetAddr_, save and load, ManInv holds.
THEOREM AddrManInvariant == AddrSpec => []ManInv
<1>1. ManInv /\ [AddrNext]_addrVars => ManInv'
  BY ManNext
<1> QED  BY <1>1, ManInit, PTL DEF AddrSpec

(***************************************************************************)
(* Check_ would always succeed: the reference counts, both tables, vRandom,*)
(* mapAddr and the two counters of CAddrMan describe one set of addresses. *)
(***************************************************************************)
THEOREM TablesAlwaysExact == AddrSpec => []TablesExact
<1>1. ManInv => TablesExact
  BY NearExact DEF ManInv, TablesExact
<1> QED  BY <1>1, AddrManInvariant, PTL

(***************************************************************************)
(* Whenever CAddrMan is serialised, unserialising gives the same addresses *)
(* in the same places of both tables, with the same sources and counts.    *)
(***************************************************************************)
THEOREM SavedAlwaysLoads == AddrSpec => []SavedLoads
<1>1. ManInv => SavedLoads
  <2> SUFFICES ASSUME ManInv PROVE SavedLoads
    OBVIOUS
  <2> DEFINE r == Unserialize(Serialize(man))
  <2>1. Near(man, {}, 0) /\ r = Unserialize(Serialize(man))
    BY DEF ManInv
  <2> HIDE DEF r
  <2>2. r.nNew = man.nNew /\ r.nTried = man.nTried /\ Addresses(r) = Addresses(man)
    BY <2>1, RoundTrip
  <2> QED  BY <2>2 DEF SavedLoads, r
<1> QED  BY <1>1, AddrManInvariant, PTL

(***************************************************************************)
(* Between restarts an address is forgotten only from the new table and    *)
(* only with its last reference: eviction from tried forgets none.         *)
(***************************************************************************)
THEOREM ForgottenOnlyLast == AddrSpec => ForgottenLast
<1>1. ManInv /\ [AddrNext]_addrVars =>
      [Restart \/ \A a \in Addr :
          (man.addr[a] # Nobody /\ man'.addr[a] = Nobody)
          => ~man.info[man.addr[a]].tried /\ man.info[man.addr[a]].ref = 1]_addrVars
  BY ManNext DEF Forgets
<1> QED  BY <1>1, AddrManInvariant, PTL DEF AddrSpec, ForgottenLast
================================================================================
