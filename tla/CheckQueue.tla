------------------------------ MODULE CheckQueue ------------------------------
(***************************************************************************)
(* The script-verification queue of checkqueue.h: CCheckQueue (one mutex,  *)
(* two condition variables) and CCheckQueueControl, the RAII object with   *)
(* which ConnectBlock uses it.  Worker threads run Loop(false) for the     *)
(* life of the node; the thread that connects a block (under cs_main, so   *)
(* there is one at a time) is the master: it constructs a control, adds    *)
(* checks transaction by transaction and then runs Loop(true).             *)
(*                                                                         *)
(* Every critical section of the mutex is one action.  A check is an       *)
(* element of Check; those in Bad evaluate to false.  The queue is a set:  *)
(* the code uses it as a stack but says that order does not matter, and    *)
(* here a thread may take any batch of the size the code computes.         *)
(*                                                                         *)
(* Shutdown interrupts the threads of threadGroup: an interrupted          *)
(* condition_variable::wait throws.  A worker then dies where it waits; a  *)
(* master unwinds through the control's destructor, which waits again.     *)
(***************************************************************************)
EXTENDS Integers, FiniteSets

CONSTANTS Worker,      \* script-check worker threads
          Master,      \* the thread connecting a block
          Check,       \* the checks of one block
          Bad,         \* the checks whose evaluation fails
          BatchSize    \* nBatchSize

ASSUME QueueAssumption ==
    /\ Master \notin Worker
    /\ IsFiniteSet(Worker)
    /\ IsFiniteSet(Check)
    /\ Bad \subseteq Check
    /\ BatchSize \in Nat \ {0}

Thread == Worker \cup {Master}

VARIABLES
    pc,        \* where each thread is, see PC
    queue,     \* checks nobody has taken
    batch,     \* vChecks: the checks a thread has taken
    fOk,       \* a thread's copy of fAllOk when it took its batch
    nIdle,     \* threads counted as waiting
    nTotal,    \* threads counted as inside Loop
    nTodo,     \* checks not yet reported
    fAllOk,    \* the verdict so far
    intr,      \* threads with a pending boost interruption
    stopped,   \* whether interrupt_all() has been called
    added,     \* checks added since the control was constructed
    verdict    \* what the last Loop(true) returned

vars == <<pc, queue, batch, fOk, nIdle, nTotal, nTodo, fAllOk, intr, stopped, added, verdict>>

(***************************************************************************)
(* enter: about to lock the mutex for the first iteration; wait: in        *)
(* cond.wait; woken: notified, not yet holding the mutex; exec: running    *)
(* its batch without the mutex; dead: left by an exception.  The master is *)
(* also adding (control constructed) or returned (no control exists).      *)
(***************************************************************************)
PC == {"enter", "wait", "woken", "exec", "dead", "adding", "returned"}

TypeOK ==
    /\ pc \in [Thread -> PC]
    /\ queue \subseteq Check
    /\ batch \in [Thread -> SUBSET Check]
    /\ fOk \in [Thread -> BOOLEAN]
    /\ nIdle \in Nat
    /\ nTotal \in Nat
    /\ nTodo \in Nat
    /\ fAllOk \in BOOLEAN
    /\ intr \subseteq Thread
    /\ stopped \in BOOLEAN
    /\ added \subseteq Check
    /\ verdict \in BOOLEAN

Init ==
    /\ pc = [t \in Thread |-> IF t = Master THEN "returned" ELSE "enter"]
    /\ queue = {}
    /\ batch = [t \in Thread |-> {}]
    /\ fOk = [t \in Thread |-> TRUE]
    /\ nIdle = 0
    /\ nTotal = 0
    /\ nTodo = 0
    /\ fAllOk = TRUE
    /\ intr = {}
    /\ stopped = FALSE
    /\ added = {}
    /\ verdict = TRUE

(***************************************************************************)
(* CCheckQueue.IsIdle: what the control's constructor asserts.             *)
(***************************************************************************)
IsIdle == nTotal = nIdle /\ nTodo = 0 /\ fAllOk = TRUE

----------------------------------------------------------------------------
(* Batches. *)

\* max(1, min(nBatchSize, queue.size() / (nTotal + nIdle + 1)))
BatchCount(n, total, idle) ==
    LET share == n \div (total + idle + 1)
        capped == IF share < BatchSize THEN share ELSE BatchSize
    IN  IF capped > 1 THEN capped ELSE 1

(***************************************************************************)
(* The `while (queue.empty())' loop and what follows it, entered with the  *)
(* mutex held and with p, idle, total, todo, ok as the values of pc,       *)
(* nIdle, nTotal, nTodo and fAllOk.  The thread returns (the master only:  *)
(* nothing sets fQuit), waits, or takes a batch.                           *)
(***************************************************************************)
ReturnKeepsStatus(t, p, idle, total, todo, ok) ==  \* mutant: fAllOk is not reset
    /\ queue = {} /\ t = Master /\ todo = 0
    /\ pc' = [p EXCEPT ![t] = "returned"]
    /\ verdict' = ok
    /\ nIdle' = idle /\ nTotal' = total - 1 /\ nTodo' = todo /\ fAllOk' = ok
    /\ batch' = [batch EXCEPT ![t] = {}]
    /\ UNCHANGED <<queue, fOk>>

ReturnEarly(t, p, idle, total, todo, ok) ==  \* mutant: nTodo is not consulted
    /\ queue = {} /\ t = Master
    /\ pc' = [p EXCEPT ![t] = "returned"]
    /\ verdict' = ok
    /\ nIdle' = idle /\ nTotal' = total - 1 /\ nTodo' = todo /\ fAllOk' = TRUE
    /\ batch' = [batch EXCEPT ![t] = {}]
    /\ UNCHANGED <<queue, fOk>>

Return(t, p, idle, total, todo, ok) ==
    /\ queue = {} /\ t = Master /\ todo = 0
    /\ pc' = [p EXCEPT ![t] = "returned"]
    /\ verdict' = ok
    /\ nIdle' = idle /\ nTotal' = total - 1 /\ nTodo' = todo /\ fAllOk' = TRUE
    /\ batch' = [batch EXCEPT ![t] = {}]
    /\ UNCHANGED <<queue, fOk>>

Wait(t, p, idle, total, todo, ok) ==
    /\ queue = {} /\ ~(t = Master /\ todo = 0)
    /\ pc' = [p EXCEPT ![t] = "wait"]
    /\ nIdle' = idle + 1 /\ nTotal' = total /\ nTodo' = todo /\ fAllOk' = ok
    /\ batch' = [batch EXCEPT ![t] = {}]
    /\ UNCHANGED <<queue, fOk, verdict>>

Take(t, p, idle, total, todo, ok) ==
    /\ queue # {}
    /\ \E b \in SUBSET queue :
          /\ Cardinality(b) = BatchCount(Cardinality(queue), total, idle)
          /\ batch' = [batch EXCEPT ![t] = b]
          /\ queue' = queue \ b
    /\ pc' = [p EXCEPT ![t] = "exec"]
    /\ fOk' = [fOk EXCEPT ![t] = ok]
    /\ nIdle' = idle /\ nTotal' = total /\ nTodo' = todo /\ fAllOk' = ok
    /\ UNCHANGED verdict

LoopBody(t, p, idle, total, todo, ok) ==
    \/ Return(t, p, idle, total, todo, ok)
    \/ Wait(t, p, idle, total, todo, ok)
    \/ Take(t, p, idle, total, todo, ok)

----------------------------------------------------------------------------
(* Loop: one action per acquisition of the mutex. *)

\* first iteration: the thread registers
Enter(t) ==
    /\ pc[t] = "enter"
    /\ LoopBody(t, pc, nIdle, nTotal + 1, nTodo, fAllOk)
    /\ UNCHANGED <<intr, stopped, added>>

\* cond.wait returns
Wake(t) ==
    /\ pc[t] = "woken"
    /\ LoopBody(t, pc, nIdle - 1, nTotal, nTodo, fAllOk)
    /\ UNCHANGED <<intr, stopped, added>>

NotifyNobody(p) == p  \* mutant: the notification is forgotten

\* condMaster.notify_one()
NotifyMaster(p) ==
    IF p[Master] = "wait" THEN [p EXCEPT ![Master] = "woken"] ELSE p

(***************************************************************************)
(* The batch is executed outside the mutex, skipping what follows a        *)
(* failure, then reported on the next iteration's critical section.        *)
(***************************************************************************)
Finish(t) ==
    /\ pc[t] = "exec"
    /\ LET ok   == fOk[t] /\ batch[t] \cap Bad = {}
           todo == nTodo - Cardinality(batch[t])
           p    == IF todo = 0 /\ t # Master THEN NotifyMaster(pc) ELSE pc
       IN  LoopBody(t, p, nIdle, nTotal, todo, fAllOk /\ ok)
    /\ UNCHANGED <<intr, stopped, added>>

\* a condition variable may wake without a notification
SpuriousWakeup(t) ==
    /\ pc[t] = "wait"
    /\ pc' = [pc EXCEPT ![t] = "woken"]
    /\ UNCHANGED <<queue, batch, fOk, nIdle, nTotal, nTodo, fAllOk, intr, stopped, added, verdict>>

----------------------------------------------------------------------------
(* CCheckQueueControl, as ConnectBlock uses it. *)

\* the constructor; its assertion is the property ControlFindsIdleQueue
NewControl ==
    /\ pc[Master] = "returned"
    /\ pc' = [pc EXCEPT ![Master] = "adding"]
    /\ added' = {}
    /\ UNCHANGED <<queue, batch, fOk, nIdle, nTotal, nTodo, fAllOk, intr, stopped, verdict>>

\* the workers that condWorker.notify_one() or notify_all() may wake
Notified(n) ==
    LET waiting == {w \in Worker : pc[w] = "wait"}
    IN  IF n = 0 \/ waiting = {} THEN {{}}
        ELSE IF n = 1 THEN {{w} : w \in waiting}
        ELSE {waiting}

Add(S) ==
    /\ pc[Master] = "adding"
    /\ queue' = queue \cup S
    /\ nTodo' = nTodo + Cardinality(S)
    /\ added' = added \cup S
    /\ \E W \in Notified(Cardinality(S)) :
          pc' = [t \in Thread |-> IF t \in W THEN "woken" ELSE pc[t]]
    /\ UNCHANGED <<batch, fOk, nIdle, nTotal, fAllOk, intr, stopped, verdict>>

(***************************************************************************)
(* ConnectBlock calls Wait, or returns early and the destructor does.      *)
(***************************************************************************)
StartWait ==
    /\ pc[Master] = "adding"
    /\ pc' = [pc EXCEPT ![Master] = "enter"]
    /\ UNCHANGED <<queue, batch, fOk, nIdle, nTotal, nTodo, fAllOk, intr, stopped, added, verdict>>

----------------------------------------------------------------------------
(* Shutdown: threadGroup.interrupt_all(), once. *)

InterruptAll ==
    /\ ~stopped
    /\ stopped' = TRUE
    /\ intr' = Thread
    /\ UNCHANGED <<pc, queue, batch, fOk, nIdle, nTotal, nTodo, fAllOk, added, verdict>>

(***************************************************************************)
(* cond.wait throws thread_interrupted: neither counter is restored.  A    *)
(* worker ends; the control's destructor (fDone is false) makes the master *)
(* run Loop(true) again.  The exception clears the thread's interruption.  *)
(***************************************************************************)
ThrowInterrupted(t) ==
    /\ t \in intr
    /\ pc[t] \in {"wait", "woken"}
    /\ pc' = [pc EXCEPT ![t] = IF t = Master THEN "enter" ELSE "dead"]
    /\ intr' = intr \ {t}
    /\ UNCHANGED <<queue, batch, fOk, nIdle, nTotal, nTodo, fAllOk, stopped, added, verdict>>

----------------------------------------------------------------------------
MutexStep(t) == Enter(t) \/ Wake(t) \/ Finish(t)

Next ==
    \/ \E t \in Thread : \/ Enter(t)
                         \/ Wake(t)
                         \/ Finish(t)
                         \/ SpuriousWakeup(t)
                         \/ ThrowInterrupted(t)
    \/ NewControl
    \/ \E S \in SUBSET (Check \ added) : Add(S)
    \/ StartWait
    \/ InterruptAll

Spec == Init /\ [][Next]_vars

(***************************************************************************)
(* A thread that can lock the mutex eventually does, a batch is finite,    *)
(* and ConnectBlock's loop over a block's transactions ends in Wait or in  *)
(* the destructor.  Nothing is assumed of wakeups or of the shutdown.      *)
(***************************************************************************)
FairSpec ==
    /\ Spec
    /\ \A t \in Thread : WF_vars(MutexStep(t))
    /\ WF_vars(StartWait)

----------------------------------------------------------------------------
(* Properties. *)

\* checks that were added and not yet reported
Pending == queue \cup {c \in Check : \E t \in Thread : c \in batch[t]}

(***************************************************************************)
(* The assertion of CCheckQueueControl's constructor never fails: when no  *)
(* control exists every registered thread is waiting, whatever happened in *)
(* the blocks before, wakeups without work and interrupted waits included. *)
(***************************************************************************)
ControlFindsIdleQueue == pc[Master] = "returned" => IsIdle

(***************************************************************************)
(* What Loop(true) returns is the conjunction of exactly the checks added  *)
(* under this control: none is still queued or running in a worker, and no *)
(* failure of an earlier block leaks in.                                   *)
(***************************************************************************)
VerdictIsConjunction ==
    pc[Master] = "returned" => /\ Pending = {}
                               /\ verdict = (added \cap Bad = {})

(***************************************************************************)
(* The condition variables lose no wakeup that matters: the thread that    *)
(* connects a block always gets out of Wait, also when the workers are     *)
(* interrupted while it is waiting for them.                               *)
(***************************************************************************)
WaitReturns == pc[Master] # "returned" ~> pc[Master] = "returned"

----------------------------------------------------------------------------
(* The inductive invariant behind the two safety properties. *)

Running(p) == {t \in Thread : p[t] = "exec"}
Idling(p)  == {t \in Thread : p[t] \in {"wait", "woken", "dead"}}

\* every pending check is in exactly one place, and was added by this control
BatchesDisjoint ==
    /\ \A t \in Thread : (pc[t] = "exec") <=> (batch[t] # {})
    /\ \A t \in Thread : batch[t] \cap queue = {}
    /\ \A t, u \in Thread : t # u => batch[t] \cap batch[u] = {}
    /\ Pending \subseteq added

\* the counters count; an interrupted wait leaves both counters one too high
Counters ==
    /\ nTodo = Cardinality(Pending)
    /\ nIdle >= Cardinality(Idling(pc))
    /\ nTotal = nIdle + Cardinality(Running(pc))

\* fAllOk is the conjunction of the checks reported so far
VerdictSoFar ==
    /\ pc[Master] # "returned" => fAllOk = ((added \ Pending) \cap Bad = {})
    /\ \A t \in Thread : pc[t] = "exec" /\ ~fOk[t] => ~fAllOk
    /\ pc[Master] = "returned" => fAllOk /\ Pending = {} /\ verdict = (added \cap Bad = {})

ThreadRoles ==
    /\ \A w \in Worker : pc[w] \notin {"adding", "returned"}
    /\ pc[Master] # "dead"

IInv == TypeOK /\ BatchesDisjoint /\ Counters /\ VerdictSoFar /\ ThreadRoles
==============================================================================
