----------------------------- MODULE CheckQueue -----------------------------
(***************************************************************************)
(* The script check queue of checkqueue.h.  The thread that connects a     *)
(* block (the master) puts checks into a queue, worker threads take them   *)
(* out in batches, and the master joins them until every check is done.    *)
(* One mutex guards the state, workers and master sleep on a condition     *)
(* variable each.  The pool's threads call ProcessBlock without cs_main,   *)
(* so there may be several masters; controlMutex admits one at a time.     *)
(*                                                                         *)
(* A step is one critical section, with what the thread computes for       *)
(* itself before it.  The order of the checks in the queue does not matter *)
(* ("As the order of booleans doesn't matter, it is used as a LIFO"), so   *)
(* the queue is a set.  fQuit is never set by any code.  Threads end when  *)
(* shutdown interrupts them, which happens in cond.wait only.              *)
(***************************************************************************)
EXTENDS Integers, FiniteSets

CONSTANTS
    Workers,        \* threads that run ThreadScriptCheck
    Masters,        \* threads that connect blocks
    NoMaster,       \* stands for no master
    Checks,         \* the script checks of a block
    Failing,        \* those whose operator() returns false
    BatchSize       \* nBatchSize (128)

Threads == Workers \cup Masters

ASSUME ThreadsDistinct == Workers \cap Masters = {} /\ NoMaster \notin Threads
ASSUME ThreadsFinite == IsFiniteSet(Workers) /\ IsFiniteSet(Masters)
ASSUME ChecksFinite == IsFiniteSet(Checks) /\ Failing \subseteq Checks
ASSUME BatchSizePositive == BatchSize \in Nat \ {0}

VARIABLES
    control,        \* who holds controlMutex
    queue,
    nIdle,
    nTotal,
    fAllOk,
    nTodo,
    pc,             \* where each thread is, see Places
    batch,          \* its vChecks
    fOk,
    unwinding,      \* masters interrupted in Wait, now in the destructor
    submitted,      \* history: the checks of the round
    results         \* history: the last verdict of each master

queueVars == <<queue, nIdle, nTotal, fAllOk, nTodo>>
vars == <<control, queueVars, pc, batch, fOk, unwinding, submitted, results>>

(* Outside of the queue; adding checks; about to enter Loop; executing a   *)
(* batch; in cond.wait; notified, about to take the mutex; ended.          *)
Places == {"out", "adding", "enter", "work", "wait", "woken", "gone"}

Init ==
    /\ control = NoMaster
    /\ queue = {}
    /\ nIdle = 0
    /\ nTotal = 0
    /\ fAllOk = TRUE
    /\ nTodo = 0
    /\ pc = [t \in Threads |-> IF t \in Workers THEN "enter" ELSE "out"]
    /\ batch = [t \in Threads |-> {}]
    /\ fOk = [t \in Threads |-> TRUE]
    /\ unwinding = {}
    /\ submitted = {}
    /\ results = [m \in Masters |-> "none"]

-----------------------------------------------------------------------------
(* The condition variables.                                                *)

Waiting(S) == {t \in S : pc[t] = "wait"}

(* The program counters after notify_one and notify_all on the condition   *)
(* variable of the threads in S.                                           *)
NotifyOne(S) == IF Waiting(S) = {} THEN {pc}
                ELSE {[pc EXCEPT ![t] = "woken"] : t \in Waiting(S)}
NotifyAll(S) == {[t \in Threads |-> IF t \in Waiting(S) THEN "woken" ELSE pc[t]]}

(* A wait may also end by itself. *)
SpuriousWakeup(t) ==
    /\ pc[t] = "wait"
    /\ pc' = [pc EXCEPT ![t] = "woken"]
    /\ UNCHANGED <<control, queueVars, batch, fOk, unwinding, submitted, results>>

(* Shutdown interrupts a thread in cond.wait, notified or not.  The        *)
(* exception leaves Loop with the thread still counted in nIdle and        *)
(* nTotal.  A worker ends; a master unwinds to the destructor of its       *)
(* control, which waits for the queue again.                               *)
Interrupt(t) ==
    /\ pc[t] \in {"wait", "woken"}
    /\ \/ /\ t \in Workers
          /\ pc' = [pc EXCEPT ![t] = "gone"]
          /\ UNCHANGED unwinding
       \/ /\ t \in Masters \ unwinding
          /\ pc' = [pc EXCEPT ![t] = "enter"]
          /\ unwinding' = unwinding \cup {t}
    /\ UNCHANGED <<control, queueVars, batch, fOk, submitted, results>>

-----------------------------------------------------------------------------
(* CCheckQueueControl and CCheckQueue::Add.                                *)

Begin(m) ==
    /\ pc[m] = "out"
    /\ control = NoMaster
    /\ control' = m
    /\ pc' = [pc EXCEPT ![m] = "adding"]
    /\ UNCHANGED <<queueVars, batch, fOk, unwinding, submitted, results>>

Add(m, S) ==
    /\ pc[m] = "adding"
    /\ queue' = queue \cup S
    /\ nTodo' = nTodo + Cardinality(S)
    /\ submitted' = submitted \cup S
    /\ pc' \in CASE S = {} -> {pc}
                 [] Cardinality(S) = 1 -> NotifyOne(Workers)
                 [] OTHER -> NotifyAll(Workers)
    /\ UNCHANGED <<control, nIdle, nTotal, fAllOk, batch, fOk, unwinding, results>>

-----------------------------------------------------------------------------
(* CCheckQueue::Loop.  Every critical section ends in the inner loop: the  *)
(* thread returns, sleeps or takes a batch.  The operators below take the  *)
(* counters and program counters as the first part of the section left     *)
(* them.                                                                   *)

UnlessZero(n) == IF n = 0 THEN 1 ELSE n
NNow(total, idle) ==
    LET share == Cardinality(queue) \div (total + idle + 1)
    IN  UnlessZero(IF share < BatchSize THEN share ELSE BatchSize)

(* The master has its verdict; Wait unlocks controlMutex. *)
KeptStatus(ok) == ok
NewStatus(ok) == TRUE

Return(t, p, total, idle, todo, ok) ==
    /\ queue = {} /\ todo = 0
    /\ t \in Masters
    /\ nTotal' = total - 1
    /\ nIdle' = idle
    /\ nTodo' = todo
    /\ fAllOk' = NewStatus(ok)
    /\ control' = NoMaster
    /\ submitted' = {}
    /\ batch' = [batch EXCEPT ![t] = {}]
    /\ pc' = [p EXCEPT ![t] = IF t \in unwinding THEN "gone" ELSE "out"]
    /\ results' = IF t \in unwinding THEN results
                  ELSE [results EXCEPT ![t] = IF ok THEN "ok" ELSE "failed"]
    /\ UNCHANGED <<queue, fOk>>

Sleep(t, p, total, idle, todo, ok) ==
    /\ queue = {}
    /\ t \in Workers \/ todo # 0
    /\ nTotal' = total
    /\ nIdle' = idle + 1
    /\ nTodo' = todo
    /\ fAllOk' = ok
    /\ batch' = [batch EXCEPT ![t] = {}]
    /\ pc' = [p EXCEPT ![t] = "wait"]
    /\ UNCHANGED <<control, queue, fOk, submitted, results>>

Take(t, p, total, idle, todo, ok) ==
    \E S \in SUBSET queue :
        /\ S # {} /\ Cardinality(S) = NNow(total, idle)
        /\ queue' = queue \ S
        /\ nTotal' = total
        /\ nIdle' = idle
        /\ nTodo' = todo
        /\ fAllOk' = ok
        /\ batch' = [batch EXCEPT ![t] = S]
        /\ fOk' = [fOk EXCEPT ![t] = ok]
        /\ pc' = [p EXCEPT ![t] = "work"]
        /\ UNCHANGED <<control, submitted, results>>

InnerLoop(t, p, total, idle, todo, ok) ==
    /\ \/ Return(t, p, total, idle, todo, ok)
       \/ Sleep(t, p, total, idle, todo, ok)
       \/ Take(t, p, total, idle, todo, ok)
    /\ UNCHANGED unwinding

(* The first section of a call of Loop: by a worker that starts, or by     *)
(* Wait, called by the master or by the destructor of its control.         *)
Enter(t) ==
    /\ pc[t] \in {"enter", "adding"}
    /\ InnerLoop(t, pc, nTotal + 1, nIdle, nTodo, fAllOk)

(* The thread has executed its batch (it skips the checks after a failed   *)
(* one) and reports.  The last one tells the master.                       *)
Evaluated(t) == fOk[t] /\ batch[t] \cap Failing = {}
LastVerdict(t) == Evaluated(t)
Merged(t) == fAllOk /\ Evaluated(t)
Silent(t, todo) == {pc}
TellMaster(t, todo) == IF todo = 0 /\ t \in Workers THEN NotifyOne(Masters) ELSE {pc}

FullBatch(t) == BatchSize
Completed(t) == Cardinality(batch[t])

Report(t) ==
    LET todo == nTodo - Completed(t)
    IN  /\ pc[t] = "work"
        /\ \E p \in TellMaster(t, todo) :
              InnerLoop(t, p, nTotal, nIdle, todo, Merged(t))

(* A notified thread has the mutex again. *)
Resume(t) ==
    /\ pc[t] = "woken"
    /\ InnerLoop(t, pc, nTotal, nIdle - 1, nTodo, fAllOk)

Section(t) == Enter(t) \/ Report(t) \/ Resume(t)

Next ==
    \/ \E t \in Threads : Section(t) \/ SpuriousWakeup(t) \/ Interrupt(t)
    \/ \E m \in Masters : Begin(m) \/ \E S \in SUBSET (Checks \ submitted) : Add(m, S)

(* A thread that can run runs: also ConnectBlock comes to the end of the   *)
(* transactions of its block and calls Wait.                               *)
Fairness == \A t \in Threads : WF_vars(Section(t))

Spec == Init /\ [][Next]_vars /\ Fairness

-----------------------------------------------------------------------------
(* TypeOK: the state of the queue and of its threads has its types.        *)
TypeOK ==
    /\ control \in Masters \cup {NoMaster}
    /\ queue \subseteq Checks
    /\ nIdle \in Nat /\ nTotal \in Nat /\ nTodo \in Nat
    /\ fAllOk \in BOOLEAN
    /\ pc \in [Threads -> Places]
    /\ batch \in [Threads -> SUBSET Checks]
    /\ fOk \in [Threads -> BOOLEAN]
    /\ unwinding \subseteq Masters
    /\ submitted \subseteq Checks
    /\ results \in [Masters -> {"none", "ok", "failed"}]

(* UnusedQueueIsClean: the three assertions of CCheckQueueControl hold     *)
(* whenever a thread gets controlMutex, also after interrupted workers and *)
(* masters left their marks on the counters.                               *)
UnusedQueueIsClean ==
    control = NoMaster => nTotal = nIdle /\ nTodo = 0 /\ fAllOk = TRUE

(* NoLostWakeup: a master asleep in cond.wait has a worker that is still   *)
(* executing checks and will notify it; interrupted workers took nothing   *)
(* with them.                                                              *)
NoLostWakeup ==
    \A m \in Waiting(Masters) : \E w \in Workers : pc[w] = "work"

(* Rounds: the verdict a master gets is about exactly the checks it added, *)
(* whichever threads executed or skipped them.                             *)
Abstract == INSTANCE CheckRounds WITH holder <- control
Rounds == Abstract!Spec

(* QueueFinishes: a thread that has the queue gives it back: "guarantees   *)
(* the passed queue is finished before continuing".                        *)
QueueFinishes == \A m \in Masters : control = m ~> control # m
=============================================================================
