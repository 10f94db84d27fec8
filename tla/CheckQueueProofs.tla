--------------------------- MODULE CheckQueueProofs ---------------------------
(***************************************************************************)
(* Proofs about CheckQueue, for any number of workers, any set of checks   *)
(* and any batch size.  The argument is the inductive invariant IInv.      *)
(* Enter, Wake and Finish end in the same loop body, so the body is        *)
(* treated once, in LoopBodyStep: whatever bookkeeping a thread did before *)
(* it, if the thread itself is left out of the counts (Rest, and the sets  *)
(* without t), the body puts it back on one side or the other.             *)
(***************************************************************************)
EXTENDS CheckQueue, FiniteSetTheorems, TLAPS

\* the pending checks that are not in t's own batch
Rest(t) == queue \cup {c \in Check : \E u \in Thread \ {t} : c \in batch[u]}

----------------------------------------------------------------------------
(* Finite sets *)

LEMMA FiniteThread == IsFiniteSet(Thread)
  BY QueueAssumption, FS_AddElement DEF Thread

\* a thread counted with and without
LEMMA CountOne ==
  ASSUME NEW S \in SUBSET Thread, NEW t \in Thread
  PROVE  /\ IsFiniteSet(S)
         /\ Cardinality(S) \in Nat
         /\ Cardinality(S \ {t}) \in Nat
         /\ t \in S => Cardinality(S) = Cardinality(S \ {t}) + 1
         /\ t \notin S => Cardinality(S) = Cardinality(S \ {t})
<1>1. IsFiniteSet(S) BY FiniteThread, FS_Subset
<1>2. IsFiniteSet(S \ {t}) /\ S \ {t} \in SUBSET S BY <1>1, FS_Subset
<1>3. Cardinality(S) \in Nat /\ Cardinality(S \ {t}) \in Nat
  BY <1>1, <1>2, FS_CardinalityType
<1>4. CASE t \in S
  <2>1. Cardinality(S \ {t}) = Cardinality(S) - 1 BY <1>1, <1>4, FS_RemoveElement
  <2> QED BY <2>1, <1>1, <1>3, <1>4
<1>5. CASE t \notin S
  <2>1. S \ {t} = S BY <1>5
  <2> QED BY <2>1, <1>1, <1>3, <1>5
<1> QED BY <1>4, <1>5

LEMMA FiniteChecks ==
  ASSUME NEW S \in SUBSET Check
  PROVE  IsFiniteSet(S) /\ Cardinality(S) \in Nat /\ (Cardinality(S) = 0 <=> S = {})
  BY QueueAssumption, FS_Subset, FS_CardinalityType, FS_EmptySet

----------------------------------------------------------------------------
(***************************************************************************)
(* The loop body re-establishes the invariant.                             *)
(***************************************************************************)
LEMMA LoopBodyStep ==
  ASSUME NEW t \in Thread, NEW p \in [Thread -> PC],
         NEW idle \in Nat, NEW total \in Int, NEW todo \in Int, NEW ok \in BOOLEAN,
         TypeOK, BatchesDisjoint,
         \A u \in Thread \ {t} : (p[u] = "exec") <=> (pc[u] = "exec"),
         \A w \in Worker : p[w] \notin {"adding", "returned"},
         p[Master] # "dead",
         t = Master => p[t] # "returned",
         todo = Cardinality(Rest(t)),
         idle >= Cardinality(Idling(p) \ {t}),
         total = idle + Cardinality(Running(p) \ {t}) + 1,
         p[Master] # "returned" => (ok <=> ((added \ Rest(t)) \cap Bad = {})),
         p[Master] = "returned" => ok /\ Rest(t) = {} /\ (verdict <=> (added \cap Bad = {})),
         \A u \in Thread \ {t} : pc[u] = "exec" /\ ~fOk[u] => ~ok,
         LoopBody(t, p, idle, total, todo, ok),
         UNCHANGED <<intr, stopped, added>>
  PROVE  IInv'
<1> USE DEF TypeOK
<1>m. Master \in Thread /\ Worker \subseteq Thread /\ Master \notin Worker
  BY QueueAssumption DEF Thread
<1>r. Rest(t) \in SUBSET Check /\ Rest(t) \subseteq added
  BY DEF Rest, BatchesDisjoint, Pending
<1>n. todo \in Nat /\ (todo = 0 <=> Rest(t) = {})
  BY <1>r, FiniteChecks
<1>f. \A S \in SUBSET Thread : Cardinality(S) \in Nat /\ Cardinality(S \ {t}) \in Nat
  BY CountOne
<1>s. Running(p) \in SUBSET Thread /\ Idling(p) \in SUBSET Thread
  BY DEF Running, Idling
<1>t. total \in Nat /\ total - 1 \in Nat
  BY <1>f, <1>s
<1>1. CASE Return(t, p, idle, total, todo, ok)
  <2>a. /\ queue = {} /\ t = Master /\ todo = 0 /\ Rest(t) = {}
        /\ pc' = [p EXCEPT ![t] = "returned"]
        /\ verdict' = ok
        /\ nIdle' = idle /\ nTotal' = total - 1 /\ nTodo' = 0 /\ fAllOk' = TRUE
        /\ batch' = [batch EXCEPT ![t] = {}]
        /\ queue' = {} /\ fOk' = fOk
    BY <1>1, <1>n DEF Return
  <2>b. Pending' = {}
    BY <2>a DEF Pending, Rest
  <2>1. TypeOK' BY <2>a, <1>t, <1>m DEF PC
  <2>2. BatchesDisjoint'
    BY <2>a, <2>b DEF BatchesDisjoint
  <2>3. Counters'
    <3>1. Idling(pc') = Idling(p) \ {t} /\ Running(pc') = Running(p) \ {t}
      BY <2>a DEF Idling, Running
    <3>2. Cardinality(Pending') = 0 BY <2>b, FS_EmptySet
    <3> QED BY <3>1, <3>2, <2>a, <1>f, <1>s DEF Counters
  <2>4. VerdictSoFar'
    <3>1. pc'[Master] = "returned" BY <2>a
    <3>2. verdict' <=> (added' \cap Bad = {})
      BY <2>a
    <3>3. \A u \in Thread : pc'[u] # "exec"
      BY <2>a DEF BatchesDisjoint, Rest
    <3> QED BY <3>1, <3>2, <3>3, <2>a, <2>b DEF VerdictSoFar
  <2>5. ThreadRoles' BY <2>a, <1>m DEF ThreadRoles
  <2> QED BY <2>1, <2>2, <2>3, <2>4, <2>5 DEF IInv
<1>2. CASE Wait(t, p, idle, total, todo, ok)
  <2>a. /\ queue = {} /\ ~(t = Master /\ todo = 0)
        /\ pc' = [p EXCEPT ![t] = "wait"]
        /\ nIdle' = idle + 1 /\ nTotal' = total /\ nTodo' = todo /\ fAllOk' = ok
        /\ batch' = [batch EXCEPT ![t] = {}]
        /\ queue' = {} /\ fOk' = fOk /\ verdict' = verdict
    BY <1>2 DEF Wait
  <2>b. Pending' = Rest(t)
    BY <2>a DEF Pending, Rest
  <2>1. TypeOK' BY <2>a, <1>t, <1>n, <1>m DEF PC
  <2>2. BatchesDisjoint'
    BY <2>a, <2>b, <1>r DEF BatchesDisjoint
  <2>3. Counters'
    <3>1. Idling(pc') \ {t} = Idling(p) \ {t} /\ t \in Idling(pc')
      BY <2>a DEF Idling
    <3>2. Running(pc') = Running(p) \ {t}
      BY <2>a DEF Running
    <3>3. Idling(pc') \in SUBSET Thread BY DEF Idling
    <3>4. Cardinality(Idling(pc')) = Cardinality(Idling(p) \ {t}) + 1
      BY <3>1, <3>3, CountOne
    <3> QED BY <3>2, <3>4, <2>a, <2>b, <1>f, <1>s DEF Counters
  <2>4. VerdictSoFar'
    <3>1. pc'[Master] = "returned" <=> p[Master] = "returned"
      BY <2>a, <1>m
    <3>2. \A u \in Thread : pc'[u] = "exec" /\ ~fOk'[u] => ~fAllOk'
      BY <2>a
    <3> QED BY <3>1, <3>2, <2>a, <2>b DEF VerdictSoFar
  <2>5. ThreadRoles' BY <2>a, <1>m DEF ThreadRoles
  <2> QED BY <2>1, <2>2, <2>3, <2>4, <2>5 DEF IInv
<1>3. CASE Take(t, p, idle, total, todo, ok)
  <2>a. /\ queue # {}
        /\ pc' = [p EXCEPT ![t] = "exec"]
        /\ fOk' = [fOk EXCEPT ![t] = ok]
        /\ nIdle' = idle /\ nTotal' = total /\ nTodo' = todo /\ fAllOk' = ok
        /\ verdict' = verdict
    BY <1>3 DEF Take
  <2>b. PICK b \in SUBSET queue :
          /\ Cardinality(b) = BatchCount(Cardinality(queue), total, idle)
          /\ batch' = [batch EXCEPT ![t] = b]
          /\ queue' = queue \ b
    BY <1>3 DEF Take
  <2>c. b # {}
    <3>1. Cardinality(queue) \in Nat BY FiniteChecks
    <3>2. Cardinality(b) # 0
      <4> DEFINE share == Cardinality(queue) \div (total + idle + 1)
                 capped == IF share < BatchSize THEN share ELSE BatchSize
      <4>1. total + idle + 1 \in Nat \ {0} BY <1>t
      <4>2. share \in Nat BY <4>1, <3>1
      <4>3. capped \in Nat BY <4>2, QueueAssumption
      <4>4. Cardinality(b) = IF capped > 1 THEN capped ELSE 1
        BY <2>b DEF BatchCount
      <4> QED BY <4>3, <4>4
    <3> QED BY <3>2, FS_EmptySet
  <2>d. Pending' = Rest(t)
    BY <2>b DEF Pending, Rest
  <2>1. TypeOK' BY <2>a, <2>b, <1>t, <1>n, <1>m DEF PC
  <2>2. BatchesDisjoint'
    BY <2>a, <2>b, <2>c, <2>d, <1>r DEF BatchesDisjoint
  <2>3. Counters'
    <3>1. Running(pc') \ {t} = Running(p) \ {t} /\ t \in Running(pc')
      BY <2>a DEF Running
    <3>2. Idling(pc') = Idling(p) \ {t}
      BY <2>a DEF Idling
    <3>3. Running(pc') \in SUBSET Thread BY DEF Running
    <3>4. Cardinality(Running(pc')) = Cardinality(Running(p) \ {t}) + 1
      BY <3>1, <3>3, CountOne
    <3> QED BY <3>2, <3>4, <2>a, <2>d, <1>f, <1>s DEF Counters
  <2>4. VerdictSoFar'
    <3>0. p[Master] # "returned" BY <2>a DEF Rest
    <3>1. pc'[Master] # "returned"
      BY <2>a, <1>m, <3>0
    <3>2. \A u \in Thread : pc'[u] = "exec" /\ ~fOk'[u] => ~fAllOk'
      BY <2>a
    <3> QED BY <3>0, <3>1, <3>2, <2>a, <2>d DEF VerdictSoFar
  <2>5. ThreadRoles' BY <2>a, <1>m DEF ThreadRoles
  <2> QED BY <2>1, <2>2, <2>3, <2>4, <2>5 DEF IInv
<1> QED BY <1>1, <1>2, <1>3 DEF LoopBody

----------------------------------------------------------------------------
(* Initiation and consecution *)

LEMMA InitIInv == Init => IInv
<1> SUFFICES ASSUME Init PROVE IInv OBVIOUS
<1>m. Master \in Thread /\ Master \notin Worker BY QueueAssumption DEF Thread
<1>1. TypeOK BY DEF Init, TypeOK, PC
<1>2. Pending = {} BY DEF Init, Pending
<1>3. Running(pc) = {} /\ Idling(pc) = {} BY DEF Init, Running, Idling
<1>4. Counters BY <1>2, <1>3, FS_EmptySet DEF Init, Counters
<1>5. BatchesDisjoint BY <1>2 DEF Init, BatchesDisjoint
<1>6. VerdictSoFar BY <1>2, <1>m DEF Init, VerdictSoFar
<1>7. ThreadRoles BY <1>m DEF Init, ThreadRoles, Thread
<1> QED BY <1>1, <1>4, <1>5, <1>6, <1>7 DEF IInv

\* a thread that has no batch leaves the pending checks as they are
LEMMA RestIsPending ==
  ASSUME IInv, NEW t \in Thread, pc[t] # "exec"
  PROVE  Rest(t) = Pending
  BY DEF IInv, BatchesDisjoint, Rest, Pending

LEMMA EnterStep ==
  ASSUME IInv, NEW t \in Thread, Enter(t)
  PROVE  IInv'
<1> USE DEF TypeOK, IInv
<1>1. pc[t] = "enter" /\ LoopBody(t, pc, nIdle, nTotal + 1, nTodo, fAllOk)
  BY DEF Enter
<1>2. Rest(t) = Pending BY <1>1, RestIsPending
<1>3. Running(pc) \ {t} = Running(pc) /\ Idling(pc) \ {t} = Idling(pc)
  BY <1>1 DEF Running, Idling
<1>4. pc[Master] # "dead" /\ \A w \in Worker : pc[w] \notin {"adding", "returned"}
  BY DEF ThreadRoles
<1>5. nTodo = Cardinality(Rest(t)) /\ nIdle >= Cardinality(Idling(pc) \ {t})
      /\ nTotal + 1 = nIdle + Cardinality(Running(pc) \ {t}) + 1
  <2>1. Cardinality(Running(pc)) \in Nat
    BY CountOne DEF Running
  <2> QED BY <1>2, <1>3, <2>1 DEF Counters
<1>6. /\ pc[Master] # "returned" => (fAllOk <=> ((added \ Rest(t)) \cap Bad = {}))
      /\ pc[Master] = "returned" => fAllOk /\ Rest(t) = {} /\ (verdict <=> (added \cap Bad = {}))
      /\ \A u \in Thread \ {t} : pc[u] = "exec" /\ ~fOk[u] => ~fAllOk
  BY <1>2 DEF VerdictSoFar
<1>7. UNCHANGED <<intr, stopped, added>> BY DEF Enter
<1>8. nTotal + 1 \in Int /\ nTodo \in Int OBVIOUS
<1> QED BY <1>1, <1>4, <1>5, <1>6, <1>7, <1>8, LoopBodyStep

LEMMA WakeStep ==
  ASSUME IInv, NEW t \in Thread, Wake(t)
  PROVE  IInv'
<1> USE DEF TypeOK, IInv
<1>1. pc[t] = "woken" /\ LoopBody(t, pc, nIdle - 1, nTotal, nTodo, fAllOk)
  BY DEF Wake
<1>2. Rest(t) = Pending BY <1>1, RestIsPending
<1>3. Running(pc) \ {t} = Running(pc) /\ t \in Idling(pc)
  BY <1>1 DEF Running, Idling
<1>4. pc[Master] # "dead" /\ \A w \in Worker : pc[w] \notin {"adding", "returned"}
  BY DEF ThreadRoles
<1>5. /\ nTodo = Cardinality(Rest(t))
      /\ nIdle - 1 \in Nat
      /\ nIdle - 1 >= Cardinality(Idling(pc) \ {t})
      /\ nTotal = (nIdle - 1) + Cardinality(Running(pc) \ {t}) + 1
  <2>1. Cardinality(Running(pc)) \in Nat
    BY CountOne DEF Running
  <2>2. Idling(pc) \in SUBSET Thread BY DEF Idling
  <2>3. /\ Cardinality(Idling(pc) \ {t}) \in Nat
        /\ Cardinality(Idling(pc)) = Cardinality(Idling(pc) \ {t}) + 1
    BY <1>3, <2>2, CountOne
  <2>4. Cardinality(Running(pc) \ {t}) = Cardinality(Running(pc)) BY <1>3
  <2>5. nTodo = Cardinality(Rest(t)) BY <1>2 DEF Counters
  <2>6. nIdle >= Cardinality(Idling(pc)) /\ nTotal = nIdle + Cardinality(Running(pc))
    BY DEF Counters
  <2>7. nIdle \in Nat OBVIOUS
  <2> QED BY ONLY <2>1, <2>3, <2>4, <2>5, <2>6, <2>7
<1>6. /\ pc[Master] # "returned" => (fAllOk <=> ((added \ Rest(t)) \cap Bad = {}))
      /\ pc[Master] = "returned" => fAllOk /\ Rest(t) = {} /\ (verdict <=> (added \cap Bad = {}))
      /\ \A u \in Thread \ {t} : pc[u] = "exec" /\ ~fOk[u] => ~fAllOk
  BY <1>2 DEF VerdictSoFar
<1>7. UNCHANGED <<intr, stopped, added>> BY DEF Wake
<1>8. nTotal \in Int /\ nTodo \in Int OBVIOUS
<1> HIDE DEF IInv
<1>9. TypeOK /\ BatchesDisjoint /\ pc \in [Thread -> PC] /\ fAllOk \in BOOLEAN BY DEF IInv
<1> HIDE DEF TypeOK
<1> DEFINE idle == nIdle - 1
<1>10. idle \in Nat /\ idle = nIdle - 1 BY <1>5
<1> QED BY <1>1, <1>4, <1>5, <1>6, <1>7, <1>8, <1>9, <1>10, LoopBodyStep

(***************************************************************************)
(* A report.  The batch leaves Pending, so nTodo drops by its size; the    *)
(* master, when notified, goes from wait to woken, which changes no count. *)
(***************************************************************************)
LEMMA FinishStep ==
  ASSUME IInv, NEW t \in Thread, Finish(t)
  PROVE  IInv'
<1> USE DEF TypeOK, IInv
<1> DEFINE ok   == fOk[t] /\ batch[t] \cap Bad = {}
           all  == fAllOk /\ ok
           todo == nTodo - Cardinality(batch[t])
           p    == IF todo = 0 /\ t # Master THEN NotifyMaster(pc) ELSE pc
<1>m. Master \in Thread /\ Worker \subseteq Thread /\ Master \notin Worker
  BY QueueAssumption DEF Thread
<1>1. pc[t] = "exec" /\ LoopBody(t, p, nIdle, nTotal, todo, all)
      /\ UNCHANGED <<intr, stopped, added>>
  BY DEF Finish
<1>2. /\ p \in [Thread -> PC]
      /\ \A u \in Thread : p[u] # pc[u] => u = Master /\ pc[u] = "wait" /\ p[u] = "woken"
  BY <1>m DEF NotifyMaster, PC
<1>3. Running(p) = Running(pc) /\ Idling(p) = Idling(pc) /\ t \in Running(pc) /\ t \notin Idling(pc)
  BY <1>1, <1>2 DEF Running, Idling
<1>4. p[Master] # "dead" /\ \A w \in Worker : p[w] \notin {"adding", "returned"}
  BY <1>2, <1>m DEF ThreadRoles
<1>5. pc[Master] # "returned" /\ p[Master] # "returned"
  <2>1. batch[t] # {} BY <1>1 DEF BatchesDisjoint
  <2>2. Pending # {} BY <2>1 DEF Pending
  <2> QED BY <2>2, <1>2, <1>m DEF VerdictSoFar
<1>6. Rest(t) \cup batch[t] = Pending /\ Rest(t) \cap batch[t] = {} /\ Rest(t) \in SUBSET Check
      /\ batch[t] \in SUBSET Check
  BY DEF Rest, Pending, BatchesDisjoint
<1>7. Cardinality(Pending) = Cardinality(Rest(t)) + Cardinality(batch[t])
      /\ Cardinality(Rest(t)) \in Nat /\ Cardinality(batch[t]) \in Nat
  <2>1. IsFiniteSet(Rest(t)) /\ IsFiniteSet(batch[t])
        /\ Cardinality(Rest(t)) \in Nat /\ Cardinality(batch[t]) \in Nat
    BY <1>6, FiniteChecks
  <2>2. Cardinality(Rest(t) \cup batch[t]) =
          Cardinality(Rest(t)) + Cardinality(batch[t]) - Cardinality(Rest(t) \cap batch[t])
    BY <2>1, FS_Union
  <2>3. Cardinality(Rest(t) \cap batch[t]) = 0 BY <1>6, FS_EmptySet
  <2>4. Cardinality(Rest(t) \cup batch[t]) = Cardinality(Pending) BY <1>6
  <2> QED BY ONLY <2>1, <2>2, <2>3, <2>4
<1>8. todo \in Int /\ todo = Cardinality(Rest(t))
  BY <1>7 DEF Counters
<1>9. nIdle >= Cardinality(Idling(p) \ {t})
      /\ nTotal = nIdle + Cardinality(Running(p) \ {t}) + 1
  <2>1. Running(pc) \in SUBSET Thread /\ Idling(pc) \in SUBSET Thread
    BY DEF Running, Idling
  <2>2. Cardinality(Running(pc)) = Cardinality(Running(pc) \ {t}) + 1
        /\ Cardinality(Running(pc) \ {t}) \in Nat
    BY <2>1, <1>3, CountOne
  <2>3. /\ Cardinality(Idling(p) \ {t}) = Cardinality(Idling(pc))
        /\ Cardinality(Running(p) \ {t}) = Cardinality(Running(pc) \ {t})
    <3>1. Idling(p) \ {t} = Idling(pc) /\ Running(p) \ {t} = Running(pc) \ {t}
      BY <1>3
    <3> QED BY ONLY <3>1
  <2>4. nIdle >= Cardinality(Idling(pc)) /\ nTotal = nIdle + Cardinality(Running(pc)) /\ nIdle \in Nat
    BY DEF Counters
  <2> QED BY ONLY <2>2, <2>3, <2>4
<1>10. all <=> ((added \ Rest(t)) \cap Bad = {})
  <2>1. fAllOk <=> ((added \ Pending) \cap Bad = {})
    BY <1>5 DEF VerdictSoFar
  <2>2. ~fOk[t] => ~fAllOk
    BY <1>1 DEF VerdictSoFar
  <2>3. added \ Rest(t) = (added \ Pending) \cup batch[t]
    BY <1>6 DEF BatchesDisjoint
  <2> QED BY <2>1, <2>2, <2>3
<1>11. \A u \in Thread \ {t} : pc[u] = "exec" /\ ~fOk[u] => ~all
  BY DEF VerdictSoFar
<1>12. /\ all \in BOOLEAN /\ nTotal \in Int
       /\ \A u \in Thread \ {t} : (p[u] = "exec") <=> (pc[u] = "exec")
       /\ p[t] = pc[t]
  BY <1>1, <1>2
<1>13. TypeOK /\ BatchesDisjoint /\ nIdle \in Nat OBVIOUS
<1>14. t = Master => p[t] # "returned" BY <1>1, <1>12
<1> HIDE DEF ok, todo, p, IInv, TypeOK, all
<1> QED BY <1>1, <1>2, <1>13, <1>14, <1>4, <1>5, <1>8, <1>9, <1>10, <1>11, <1>12, LoopBodyStep

\* the steps that move one thread without touching the queue
LEMMA PcStep ==
  ASSUME IInv, NEW t \in Thread, NEW q \in PC,
         pc' = [pc EXCEPT ![t] = q],
         q # "exec" /\ pc[t] # "exec",
         q # "returned" /\ pc[t] # "returned",
         q \in {"wait", "woken", "dead"} => pc[t] \in {"wait", "woken", "dead"},
         t \in Worker => q # "adding",
         t = Master => q # "dead",
         UNCHANGED <<queue, batch, fOk, nIdle, nTotal, nTodo, fAllOk, added, verdict>>,
         intr' \subseteq Thread, stopped' \in BOOLEAN
  PROVE  IInv'
<1> USE DEF IInv, TypeOK
<1>m. Master \in Thread /\ Worker \subseteq Thread BY DEF Thread
<1>1. TypeOK' OBVIOUS
<1>2. Pending' = Pending BY DEF Pending
<1>3. Running(pc') = Running(pc) /\ Idling(pc') \subseteq Idling(pc)
  BY DEF Running, Idling
<1>4. BatchesDisjoint' BY <1>2 DEF BatchesDisjoint
<1>5. Counters'
  <2>1. Idling(pc) \in SUBSET Thread BY DEF Idling
  <2>2. IsFiniteSet(Idling(pc)) BY <2>1, FiniteThread, FS_Subset
  <2>3. /\ Cardinality(Idling(pc')) \in Nat /\ Cardinality(Idling(pc)) \in Nat
        /\ Cardinality(Idling(pc')) <= Cardinality(Idling(pc))
    BY <1>3, <2>2, FS_Subset, FS_CardinalityType
  <2>4. Cardinality(Running(pc')) = Cardinality(Running(pc)) BY <1>3
  <2>5. /\ nTodo = Cardinality(Pending)
        /\ nIdle >= Cardinality(Idling(pc))
        /\ nTotal = nIdle + Cardinality(Running(pc))
        /\ nIdle \in Nat /\ nTodo' = nTodo /\ nIdle' = nIdle /\ nTotal' = nTotal
    BY DEF Counters
  <2>6. /\ nTodo' = Cardinality(Pending')
        /\ nIdle' >= Cardinality(Idling(pc'))
        /\ nTotal' = nIdle' + Cardinality(Running(pc'))
    BY ONLY <1>2, <2>3, <2>4, <2>5
  <2> QED BY <2>6 DEF Counters
<1>6. VerdictSoFar' BY <1>2, <1>m DEF VerdictSoFar
<1>7. ThreadRoles' BY <1>m DEF ThreadRoles
<1> QED BY <1>1, <1>4, <1>5, <1>6, <1>7

LEMMA NewControlStep == ASSUME IInv, NewControl PROVE IInv'
<1> USE DEF IInv, TypeOK
<1>m. Master \in Thread /\ Worker \subseteq Thread /\ Master \notin Worker
  BY QueueAssumption DEF Thread
<1>0. /\ pc[Master] = "returned" /\ pc' = [pc EXCEPT ![Master] = "adding"] /\ added' = {}
      /\ UNCHANGED <<queue, batch, fOk, nIdle, nTotal, nTodo, fAllOk, intr, stopped, verdict>>
  BY DEF NewControl
<1>1. TypeOK' BY <1>0 DEF PC
<1>2. Pending' = {} /\ Pending = {} BY <1>0 DEF Pending, VerdictSoFar
<1>3. Running(pc') = Running(pc) /\ Idling(pc') = Idling(pc)
  BY <1>0, <1>m DEF Running, Idling
<1>4. BatchesDisjoint' BY <1>0, <1>2 DEF BatchesDisjoint
<1>5. Counters' BY <1>0, <1>2, <1>3 DEF Counters
<1>6. VerdictSoFar' BY <1>0, <1>2, <1>m DEF VerdictSoFar
<1>7. ThreadRoles' BY <1>0, <1>m DEF ThreadRoles
<1> QED BY <1>1, <1>4, <1>5, <1>6, <1>7

LEMMA AddStep == ASSUME IInv, NEW S \in SUBSET (Check \ added), Add(S) PROVE IInv'
<1> USE DEF IInv, TypeOK
<1>m. Master \in Thread /\ Worker \subseteq Thread /\ Master \notin Worker
  BY QueueAssumption DEF Thread
<1>0. /\ pc[Master] = "adding"
      /\ queue' = queue \cup S /\ nTodo' = nTodo + Cardinality(S) /\ added' = added \cup S
      /\ UNCHANGED <<batch, fOk, nIdle, nTotal, fAllOk, intr, stopped, verdict>>
  BY DEF Add
<1>w. PICK W \in Notified(Cardinality(S)) :
        pc' = [t \in Thread |-> IF t \in W THEN "woken" ELSE pc[t]]
  BY DEF Add
<1>v. W \subseteq {w \in Worker : pc[w] = "wait"}
  BY <1>w DEF Notified
<1>p. \A t \in Thread : pc'[t] # pc[t] => t \in Worker /\ pc[t] = "wait" /\ pc'[t] = "woken"
  BY <1>w, <1>v
<1>1. TypeOK'
  <2>1. Cardinality(S) \in Nat BY FiniteChecks
  <2>2. pc' \in [Thread -> PC] BY <1>w DEF PC
  <2> QED BY <2>1, <2>2, <1>0
<1>2. Pending' = Pending \cup S /\ Pending \cap S = {} /\ Pending \in SUBSET Check
  BY <1>0 DEF Pending, BatchesDisjoint
<1>3. Running(pc') = Running(pc) /\ Idling(pc') = Idling(pc)
  BY <1>p DEF Running, Idling
<1>4. BatchesDisjoint'
  <2>1. \A t \in Thread : batch[t] \subseteq Pending BY DEF Pending
  <2> QED BY <1>0, <1>2, <1>p, <2>1 DEF BatchesDisjoint
<1>5. Counters'
  <2>1. IsFiniteSet(Pending) /\ IsFiniteSet(S)
        /\ Cardinality(Pending) \in Nat /\ Cardinality(S) \in Nat
    BY <1>2, FiniteChecks
  <2>2. Cardinality(Pending \cup S) =
          Cardinality(Pending) + Cardinality(S) - Cardinality(Pending \cap S)
    BY <2>1, FS_Union
  <2>3. Cardinality(Pending \cap S) = 0 BY <1>2, FS_EmptySet
  <2>4. Cardinality(Pending') = Cardinality(Pending \cup S) BY <1>2
  <2>5. nTodo = Cardinality(Pending) BY DEF Counters
  <2>6. nTodo' = Cardinality(Pending') BY ONLY <2>1, <2>2, <2>3, <2>4, <2>5, <1>0
  <2> QED BY <1>0, <1>3, <2>6 DEF Counters
<1>6. VerdictSoFar'
  <2>1. added' \ Pending' = added \ Pending BY <1>0, <1>2
  <2>2. pc[Master] # "returned" /\ pc'[Master] # "returned" BY <1>0, <1>p, <1>m
  <2>3. fAllOk' = ((added' \ Pending') \cap Bad = {}) BY <2>1, <2>2, <1>0 DEF VerdictSoFar
  <2> QED BY <2>2, <2>3, <1>0, <1>p DEF VerdictSoFar
<1>7. ThreadRoles' BY <1>p, <1>m DEF ThreadRoles
<1> QED BY <1>1, <1>4, <1>5, <1>6, <1>7

----------------------------------------------------------------------------
(***************************************************************************)
(* IInv is inductive.                                                      *)
(***************************************************************************)
LEMMA NextIInv == IInv /\ [Next]_vars => IInv'
<1> SUFFICES ASSUME IInv, [Next]_vars PROVE IInv' OBVIOUS
<1>m. Master \in Thread /\ Master \notin Worker BY QueueAssumption DEF Thread
<1>1. ASSUME NEW t \in Thread, Enter(t) PROVE IInv' BY <1>1, EnterStep
<1>2. ASSUME NEW t \in Thread, Wake(t) PROVE IInv' BY <1>2, WakeStep
<1>3. ASSUME NEW t \in Thread, Finish(t) PROVE IInv' BY <1>3, FinishStep
<1>4. ASSUME NEW t \in Thread, SpuriousWakeup(t) PROVE IInv'
  <2>1. "woken" \in PC BY DEF PC
  <2>2. intr' \subseteq Thread /\ stopped' \in BOOLEAN
    BY <1>4 DEF SpuriousWakeup, IInv, TypeOK
  <2> QED BY <1>4, <2>1, <2>2, PcStep DEF SpuriousWakeup
<1>5. ASSUME NEW t \in Thread, ThrowInterrupted(t) PROVE IInv'
  <2>1. intr' \subseteq Thread /\ stopped' \in BOOLEAN
    BY <1>5 DEF ThrowInterrupted, IInv, TypeOK
  <2>2. CASE t = Master
    <3>1. "enter" \in PC /\ pc' = [pc EXCEPT ![t] = "enter"]
      BY <1>5, <2>2 DEF PC, ThrowInterrupted
    <3> QED BY <1>5, <2>1, <2>2, <3>1, PcStep DEF ThrowInterrupted
  <2>3. CASE t # Master
    <3>1. "dead" \in PC /\ pc' = [pc EXCEPT ![t] = "dead"]
      BY <1>5, <2>3 DEF PC, ThrowInterrupted
    <3> QED BY <1>5, <2>1, <2>3, <3>1, PcStep DEF ThrowInterrupted
  <2> QED BY <2>2, <2>3
<1>6. CASE NewControl BY <1>6, NewControlStep
<1>7. ASSUME NEW S \in SUBSET (Check \ added), Add(S) PROVE IInv' BY <1>7, AddStep
<1>8. CASE StartWait
  <2>1. "enter" \in PC BY DEF PC
  <2>2. intr' \subseteq Thread /\ stopped' \in BOOLEAN
    BY <1>8 DEF StartWait, IInv, TypeOK
  <2> QED BY <1>8, <1>m, <2>1, <2>2, PcStep DEF StartWait
<1>9. CASE InterruptAll
  <2>1. Pending' = Pending BY <1>9 DEF InterruptAll, Pending
  <2>2. pc' = pc BY <1>9 DEF InterruptAll
  <2>3. Running(pc') = Running(pc) /\ Idling(pc') = Idling(pc) BY <2>2
  <2>4. TypeOK' BY <1>9 DEF InterruptAll, IInv, TypeOK
  <2>5. BatchesDisjoint' BY <1>9, <2>1 DEF InterruptAll, IInv, BatchesDisjoint
  <2>6. Counters' BY <1>9, <2>1, <2>3 DEF InterruptAll, IInv, Counters
  <2>7. VerdictSoFar' BY <1>9, <2>1 DEF InterruptAll, IInv, VerdictSoFar
  <2>8. ThreadRoles' BY <2>2 DEF IInv, ThreadRoles
  <2> QED BY <2>4, <2>5, <2>6, <2>7, <2>8 DEF IInv
<1>10. CASE UNCHANGED vars
  <2>1. Pending' = Pending BY <1>10 DEF vars, Pending
  <2>2. Running(pc') = Running(pc) /\ Idling(pc') = Idling(pc) BY <1>10 DEF vars
  <2> QED BY <1>10, <2>1, <2>2
       DEF vars, IInv, TypeOK, BatchesDisjoint, Counters, VerdictSoFar, ThreadRoles
<1> QED BY <1>1, <1>2, <1>3, <1>4, <1>5, <1>6, <1>7, <1>8, <1>9, <1>10 DEF Next

(***************************************************************************)
(* The values of CCheckQueue's fields stay in range; in particular the     *)
(* unsigned counters never wrap below zero.                                *)
(***************************************************************************)
THEOREM QueueTypeOK == Spec => []TypeOK
<1>1. IInv => TypeOK BY DEF IInv
<1> QED BY <1>1, InitIInv, NextIInv, PTL DEF Spec

(***************************************************************************)
(* CCheckQueueControl's assertion holds for every number of workers, every *)
(* block and every sequence of blocks, shutdown included.                  *)
(***************************************************************************)
THEOREM QueueControlFindsIdle == Spec => []ControlFindsIdleQueue
<1>1. IInv => ControlFindsIdleQueue
  <2> SUFFICES ASSUME IInv, pc[Master] = "returned" PROVE IsIdle
    BY DEF ControlFindsIdleQueue
  <2>1. fAllOk /\ Pending = {} BY DEF IInv, VerdictSoFar
  <2>2. nTodo = 0 BY <2>1, FS_EmptySet DEF IInv, Counters
  <2>3. Running(pc) = {}
    BY <2>1 DEF IInv, BatchesDisjoint, Running, Pending, TypeOK
  <2>4. nTotal = nIdle BY <2>3, FS_EmptySet DEF IInv, Counters, TypeOK
  <2> QED BY <2>1, <2>2, <2>4 DEF IsIdle
<1> QED BY <1>1, InitIInv, NextIInv, PTL DEF Spec

(***************************************************************************)
(* What CCheckQueueControl::Wait returns is the conjunction of the checks  *)
(* added for this block, all of which have been evaluated or skipped after *)
(* a failure.                                                              *)
(***************************************************************************)
THEOREM QueueVerdict == Spec => []VerdictIsConjunction
<1>1. IInv => VerdictIsConjunction
  BY DEF IInv, VerdictSoFar, VerdictIsConjunction
<1> QED BY <1>1, InitIInv, NextIInv, PTL DEF Spec
===============================================================================
