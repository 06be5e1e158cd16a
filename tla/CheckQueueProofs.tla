-------------------------- MODULE CheckQueueProofs --------------------------
(***************************************************************************)
(* Proofs about CheckQueue: the assertions of CCheckQueueControl, the      *)
(* absence of lost wakeups, and that the queue implements CheckRounds.     *)
(***************************************************************************)
EXTENDS CheckQueue, FiniteSetTheorems, TLAPS

(* The checks that are in the queue or in a batch, and the threads that    *)
(* are executing or sleeping.                                              *)
Outstanding == queue \cup UNION {batch[t] : t \in Threads}
Busy == {t \in Threads : pc[t] = "work"}
Asleep == {t \in Threads : pc[t] \in {"wait", "woken"}}

HolderInv == \A m \in Masters : pc[m] \notin {"out", "gone"} <=> control = m
WorkersInv == \A w \in Workers : pc[w] \notin {"out", "adding"}
BatchInv ==
    /\ \A t \in Threads : batch[t] # {} <=> pc[t] = "work"
    /\ \A t \in Threads : batch[t] \cap queue = {}
    /\ \A t, u \in Threads : t # u => batch[t] \cap batch[u] = {}
RoundInv ==
    /\ Outstanding \subseteq submitted
    /\ control = NoMaster => submitted = {}
CountInv ==
    /\ nTodo = Cardinality(Outstanding)
    /\ nTotal = nIdle + Cardinality(Busy)
    /\ Cardinality(Asleep) <= nIdle
OkInv ==
    /\ fAllOk => (submitted \ Outstanding) \cap Failing = {}
    /\ ~fAllOk => submitted \cap Failing # {}
    /\ \A t \in Threads : pc[t] = "work" /\ ~fOk[t] => submitted \cap Failing # {}
WaitInv == \A m \in Masters : pc[m] = "wait" => queue = {} /\ nTodo # 0

IInv ==
    /\ TypeOK /\ HolderInv /\ WorkersInv /\ BatchInv
    /\ RoundInv /\ CountInv /\ OkInv /\ WaitInv

-----------------------------------------------------------------------------
(* The state inside a critical section of thread t, when it comes to the   *)
(* inner loop with program counters p and counters total, idle and todo:   *)
(* the invariant for all other threads, with t's batch accounted for.      *)
Others(t) == Threads \ {t}
Rest(t) == queue \cup UNION {batch[u] : u \in Others(t)}
BusyOthers(t, p) == {u \in Others(t) : p[u] = "work"}
AsleepOthers(t, p) == {u \in Others(t) : p[u] \in {"wait", "woken"}}

MidPlaces(t, p) ==
    /\ p \in [Threads -> Places]
    /\ \A m \in Masters : m # t => (p[m] \notin {"out", "gone"} <=> control = m)
    /\ t \in Masters => control = t
    /\ \A w \in Workers : w # t => p[w] \notin {"out", "adding"}
    /\ \A u \in Others(t) : batch[u] # {} <=> p[u] = "work"
    /\ \A u \in Others(t) : p[u] = "work" => pc[u] = "work"
MidCounts(t, p, total, idle, todo) ==
    /\ total \in Nat /\ idle \in Nat /\ todo \in Nat
    /\ todo = Cardinality(Rest(t))
    /\ total = idle + 1 + Cardinality(BusyOthers(t, p))
    /\ Cardinality(AsleepOthers(t, p)) <= idle
    /\ \A m \in Masters : m # t /\ p[m] = "wait" => queue = {} /\ todo # 0
MidOk(t, ok) ==
    /\ ok \in BOOLEAN
    /\ ok => (submitted \ Rest(t)) \cap Failing = {}
    /\ ~ok => submitted \cap Failing # {}

(* Every subset of the threads, and every set of checks, is finite.        *)
LEMMA ThreadsAreFinite == IsFiniteSet(Threads)
BY ThreadsFinite, FS_Union DEF Threads

LEMMA FiniteParts ==
    ASSUME TypeOK
    PROVE  /\ IsFiniteSet(queue) /\ IsFiniteSet(Outstanding) /\ Outstanding \subseteq Checks
           /\ \A t \in Threads : IsFiniteSet(Rest(t)) /\ IsFiniteSet(batch[t])
           /\ IsFiniteSet(Busy) /\ IsFiniteSet(Asleep)
           /\ \A t, p : IsFiniteSet(BusyOthers(t, p)) /\ IsFiniteSet(AsleepOthers(t, p))
<1>1. /\ queue \subseteq Checks /\ Outstanding \subseteq Checks
      /\ \A t \in Threads : Rest(t) \subseteq Checks /\ batch[t] \subseteq Checks
  BY DEF TypeOK, Outstanding, Rest, Others
<1>2. /\ Busy \subseteq Threads /\ Asleep \subseteq Threads
      /\ \A t, p : BusyOthers(t, p) \subseteq Threads /\ AsleepOthers(t, p) \subseteq Threads
  BY DEF Busy, Asleep, BusyOthers, AsleepOthers, Others
<1> QED
  BY <1>1, <1>2, ThreadsAreFinite, ChecksFinite, FS_Subset

(* The size of a subset of the batch that a thread takes is not zero.      *)
LEMMA EmptyOutstanding ==
    ASSUME TypeOK, NEW t \in Threads, Cardinality(Rest(t)) = 0
    PROVE  Rest(t) = {}
BY FiniteParts, FS_EmptySet

-----------------------------------------------------------------------------
(* Each way out of the inner loop restores the invariant.                  *)
LEMMA ReturnRestores ==
    ASSUME IInv, NEW t \in Threads, NEW p, NEW total, NEW idle, NEW todo, NEW ok,
           MidPlaces(t, p), MidCounts(t, p, total, idle, todo), MidOk(t, ok),
           Return(t, p, total, idle, todo, ok), UNCHANGED unwinding
    PROVE  IInv'
<1> USE DEF IInv
<1>0. t \in Masters /\ t \notin Workers /\ control = t /\ control' = NoMaster
      /\ NoMaster \notin Masters
  BY ThreadsDistinct DEF Return, MidPlaces, Threads
<1>1. Rest(t) = {}
  BY EmptyOutstanding DEF Return, MidCounts
<1>2. Outstanding' = {} /\ queue' = {} /\ submitted' = {}
      /\ \A u \in Threads : batch'[u] = {}
  BY <1>1 DEF Return, Outstanding, Rest, Others, TypeOK
<1>3. /\ \A u \in Others(t) : pc'[u] = p[u]
      /\ pc'[t] \in {"out", "gone"}
      /\ pc' \in [Threads -> Places]
  BY DEF Return, MidPlaces, Others, Places
<1>4. Busy' = BusyOthers(t, p) /\ Asleep' = AsleepOthers(t, p)
  BY <1>3 DEF Busy, Asleep, BusyOthers, AsleepOthers, Others
<1>5. TypeOK'
  <2>1. Cardinality(BusyOthers(t, p)) \in Nat
    BY FiniteParts, FS_CardinalityType
  <2>2. nIdle' \in Nat /\ nTotal' \in Nat /\ nTodo' \in Nat
    BY <2>1 DEF Return, MidCounts
  <2>3. fAllOk' \in BOOLEAN /\ unwinding' \subseteq Masters /\ fOk' \in [Threads -> BOOLEAN]
    BY DEF Return, NewStatus, TypeOK
  <2>4. results' \in [Masters -> {"none", "ok", "failed"}]
    BY <1>0 DEF Return, TypeOK
  <2>5. batch' \in [Threads -> SUBSET Checks]
    BY DEF Return, TypeOK
  <2> QED BY <1>0, <1>2, <1>3, <2>2, <2>3, <2>4, <2>5 DEF TypeOK
<1>6. HolderInv'
  BY <1>0, <1>3 DEF HolderInv, MidPlaces, Others, Threads
<1>7. WorkersInv'
  BY <1>0, <1>3 DEF WorkersInv, MidPlaces, Others, Threads
<1>8. BatchInv'
  BY <1>2, <1>3 DEF BatchInv, MidPlaces, Others, Return
<1>9. RoundInv'
  BY <1>2 DEF RoundInv
<1>10. CountInv'
  <2>1. Cardinality({}) = 0 BY FS_EmptySet
  <2>2. Cardinality(BusyOthers(t, p)) \in Nat
    BY FiniteParts, FS_CardinalityType
  <2>3. nTodo' = Cardinality(Outstanding') BY <2>1, <1>2 DEF Return
  <2>4. nTotal' = nIdle' + Cardinality(Busy') BY <2>2, <1>4 DEF Return, MidCounts
  <2>5. Cardinality(Asleep') <= nIdle' BY <1>4 DEF Return, MidCounts
  <2> QED BY <2>3, <2>4, <2>5 DEF CountInv
<1>11. OkInv'
  <2>1. fAllOk' = TRUE BY DEF Return, NewStatus
  <2>2. \A u \in Threads : pc'[u] # "work" BY <1>2, <1>8 DEF BatchInv
  <2> QED BY <1>2, <2>1, <2>2 DEF OkInv
<1>12. WaitInv'
  <2>1. \A m \in Masters : m # t => p[m] \in {"out", "gone"}
    BY <1>0 DEF MidPlaces, Places, Threads
  <2> QED BY <2>1, <1>3 DEF WaitInv, Others, Threads
<1> QED
  BY <1>5, <1>6, <1>7, <1>8, <1>9, <1>10, <1>11, <1>12

LEMMA SleepRestores ==
    ASSUME IInv, NEW t \in Threads, NEW p, NEW total, NEW idle, NEW todo, NEW ok,
           MidPlaces(t, p), MidCounts(t, p, total, idle, todo), MidOk(t, ok),
           Sleep(t, p, total, idle, todo, ok), UNCHANGED unwinding
    PROVE  IInv'
<1> USE DEF IInv
<1>1. /\ queue' = queue /\ submitted' = submitted /\ control' = control
      /\ fOk' = fOk /\ results' = results /\ nTodo' = todo /\ fAllOk' = ok
      /\ nTotal' = total /\ nIdle' = idle + 1
      /\ batch' \in [Threads -> SUBSET Checks]
      /\ batch'[t] = {} /\ \A u \in Others(t) : batch'[u] = batch[u]
  BY DEF Sleep, TypeOK, Others
<1>2. Outstanding' = Rest(t)
  BY <1>1 DEF Outstanding, Rest, Others
<1>3. /\ \A u \in Others(t) : pc'[u] = p[u]
      /\ pc'[t] = "wait"
      /\ pc' \in [Threads -> Places]
  BY DEF Sleep, MidPlaces, Others, Places
<1>4. Busy' = BusyOthers(t, p) /\ Asleep' = AsleepOthers(t, p) \cup {t}
  BY <1>3 DEF Busy, Asleep, BusyOthers, AsleepOthers, Others
<1>5. TypeOK'
  BY <1>1, <1>3 DEF TypeOK, MidCounts, MidOk
<1>6. HolderInv'
  BY <1>1, <1>3 DEF HolderInv, MidPlaces, Others, Threads
<1>7. WorkersInv'
  BY <1>3 DEF WorkersInv, MidPlaces, Others, Threads
<1>8. BatchInv'
  BY <1>1, <1>3 DEF BatchInv, MidPlaces, Others
<1>9. RoundInv'
  <2>1. Rest(t) \subseteq Outstanding BY DEF Rest, Outstanding, Others
  <2> QED BY <1>1, <1>2, <2>1 DEF RoundInv
<1>10. CountInv'
  <2>1. Cardinality(BusyOthers(t, p)) \in Nat /\ Cardinality(AsleepOthers(t, p)) \in Nat
    BY FiniteParts, FS_CardinalityType
  <2>2. Cardinality(Asleep') = Cardinality(AsleepOthers(t, p)) + 1
    <3>1. t \notin AsleepOthers(t, p) BY DEF AsleepOthers, Others
    <3>2. IsFiniteSet(AsleepOthers(t, p)) BY FiniteParts
    <3>3. Cardinality(AsleepOthers(t, p) \cup {t}) = Cardinality(AsleepOthers(t, p)) + 1
      BY <3>1, <3>2, FS_AddElement
    <3> QED BY <1>4, <3>3
  <2> QED BY <1>1, <1>2, <1>4, <2>1, <2>2 DEF CountInv, MidCounts
<1>11. OkInv'
  <2>1. \A u \in Threads : pc'[u] = "work" => pc[u] = "work" /\ fOk'[u] = fOk[u]
    BY <1>1, <1>3 DEF MidPlaces, Others
  <2> QED BY <1>1, <1>2, <2>1 DEF OkInv, MidOk
<1>12. WaitInv'
  <2>1. t \in Masters => todo # 0
    BY ThreadsDistinct DEF Sleep
  <2> QED BY <1>1, <1>3, <2>1 DEF WaitInv, MidCounts, Others, Threads, Sleep
<1> QED
  BY <1>5, <1>6, <1>7, <1>8, <1>9, <1>10, <1>11, <1>12

LEMMA TakeRestores ==
    ASSUME IInv, NEW t \in Threads, NEW p, NEW total, NEW idle, NEW todo, NEW ok,
           MidPlaces(t, p), MidCounts(t, p, total, idle, todo), MidOk(t, ok),
           Take(t, p, total, idle, todo, ok), UNCHANGED unwinding
    PROVE  IInv'
<1> USE DEF IInv
<1>0. PICK S \in SUBSET queue :
        /\ S # {}
        /\ queue' = queue \ S
        /\ nTotal' = total /\ nIdle' = idle /\ nTodo' = todo /\ fAllOk' = ok
        /\ batch' = [batch EXCEPT ![t] = S]
        /\ fOk' = [fOk EXCEPT ![t] = ok]
        /\ pc' = [p EXCEPT ![t] = "work"]
        /\ UNCHANGED <<control, submitted, results>>
  BY DEF Take
<1>1. /\ batch' \in [Threads -> SUBSET Checks]
      /\ batch'[t] = S /\ \A u \in Others(t) : batch'[u] = batch[u]
      /\ fOk' \in [Threads -> BOOLEAN]
      /\ fOk'[t] = ok /\ \A u \in Others(t) : fOk'[u] = fOk[u]
  BY <1>0 DEF TypeOK, Others, MidOk
<1>2. Outstanding' = Rest(t)
  BY <1>0, <1>1 DEF Outstanding, Rest, Others
<1>3. /\ \A u \in Others(t) : pc'[u] = p[u]
      /\ pc'[t] = "work"
      /\ pc' \in [Threads -> Places]
  BY <1>0 DEF MidPlaces, Others, Places
<1>4. Busy' = BusyOthers(t, p) \cup {t} /\ Asleep' = AsleepOthers(t, p)
  BY <1>3 DEF Busy, Asleep, BusyOthers, AsleepOthers, Others
<1>5. TypeOK'
  BY <1>0, <1>1, <1>3 DEF TypeOK, MidCounts, MidOk
<1>6. HolderInv'
  BY <1>0, <1>3 DEF HolderInv, MidPlaces, Others, Threads
<1>7. WorkersInv'
  BY <1>3 DEF WorkersInv, MidPlaces, Others, Threads
<1>8. BatchInv'
  BY <1>0, <1>1, <1>3 DEF BatchInv, MidPlaces, Others
<1>9. RoundInv'
  <2>1. Rest(t) \subseteq Outstanding BY DEF Rest, Outstanding, Others
  <2> QED BY <1>0, <1>2, <2>1 DEF RoundInv
<1>10. CountInv'
  <2>1. Cardinality(BusyOthers(t, p)) \in Nat /\ Cardinality(AsleepOthers(t, p)) \in Nat
    BY FiniteParts, FS_CardinalityType
  <2>2. Cardinality(Busy') = Cardinality(BusyOthers(t, p)) + 1
    <3>1. t \notin BusyOthers(t, p) BY DEF BusyOthers, Others
    <3>2. IsFiniteSet(BusyOthers(t, p)) BY FiniteParts
    <3>3. Cardinality(BusyOthers(t, p) \cup {t}) = Cardinality(BusyOthers(t, p)) + 1
      BY <3>1, <3>2, FS_AddElement
    <3> QED BY <1>4, <3>3
  <2> QED BY <1>0, <1>2, <1>4, <2>1, <2>2 DEF CountInv, MidCounts
<1>11. OkInv'
  <2>1. \A u \in Others(t) : pc'[u] = "work" => pc[u] = "work" /\ fOk'[u] = fOk[u]
    BY <1>1, <1>3 DEF MidPlaces, Others
  <2> QED BY <1>0, <1>1, <1>2, <2>1 DEF OkInv, MidOk, Others
<1>12. WaitInv'
  BY <1>0, <1>3 DEF WaitInv, MidCounts, Others, Threads
<1> QED
  BY <1>5, <1>6, <1>7, <1>8, <1>9, <1>10, <1>11, <1>12

LEMMA InnerLoopRestores ==
    ASSUME IInv, NEW t \in Threads, NEW p, NEW total, NEW idle, NEW todo, NEW ok,
           MidPlaces(t, p), MidCounts(t, p, total, idle, todo), MidOk(t, ok),
           InnerLoop(t, p, total, idle, todo, ok)
    PROVE  IInv'
BY ReturnRestores, SleepRestores, TakeRestores DEF InnerLoop

-----------------------------------------------------------------------------
(* Each critical section reaches the inner loop in such a state.           *)
AtInnerLoop(t) ==
    \E p, total, idle, todo, ok :
        /\ MidPlaces(t, p) /\ MidCounts(t, p, total, idle, todo) /\ MidOk(t, ok)
        /\ InnerLoop(t, p, total, idle, todo, ok)

LEMMA EnterMid ==
    ASSUME IInv, NEW t \in Threads, Enter(t)
    PROVE  AtInnerLoop(t)
<1> USE DEF IInv
<1>1. pc[t] \in {"enter", "adding"} /\ batch[t] = {}
  BY DEF Enter, BatchInv
<1>2. Rest(t) = Outstanding
  BY <1>1 DEF Rest, Outstanding, Others
<1>3. BusyOthers(t, pc) = Busy /\ AsleepOthers(t, pc) = Asleep
  BY <1>1 DEF BusyOthers, AsleepOthers, Busy, Asleep, Others
<1>4. MidPlaces(t, pc)
  BY <1>1 DEF MidPlaces, TypeOK, HolderInv, WorkersInv, BatchInv, Others, Threads
<1>5. MidCounts(t, pc, nTotal + 1, nIdle, nTodo)
  <2>1. Cardinality(Busy) \in Nat BY FiniteParts, FS_CardinalityType
  <2> QED BY <1>2, <1>3, <2>1 DEF MidCounts, TypeOK, CountInv, WaitInv
<1>6. MidOk(t, fAllOk)
  BY <1>2 DEF MidOk, OkInv, TypeOK
<1> QED
  BY <1>4, <1>5, <1>6 DEF Enter, AtInnerLoop

LEMMA ResumeMid ==
    ASSUME IInv, NEW t \in Threads, Resume(t)
    PROVE  AtInnerLoop(t)
<1> USE DEF IInv
<1>1. pc[t] = "woken" /\ batch[t] = {}
  BY DEF Resume, BatchInv
<1>2. Rest(t) = Outstanding
  BY <1>1 DEF Rest, Outstanding, Others
<1>3. BusyOthers(t, pc) = Busy /\ AsleepOthers(t, pc) = Asleep \ {t} /\ t \in Asleep
  BY <1>1 DEF BusyOthers, AsleepOthers, Busy, Asleep, Others
<1>4. MidPlaces(t, pc)
  BY <1>1 DEF MidPlaces, TypeOK, HolderInv, WorkersInv, BatchInv, Others, Threads
<1>5. MidCounts(t, pc, nTotal, nIdle - 1, nTodo)
  <2>1. Cardinality(Busy) \in Nat /\ Cardinality(Asleep) \in Nat
    BY FiniteParts, FS_CardinalityType
  <2>2. Cardinality(Asleep \ {t}) = Cardinality(Asleep) - 1
        /\ Cardinality(Asleep \ {t}) \in Nat
    BY <1>3, FiniteParts, FS_RemoveElement, FS_CardinalityType
  <2> QED BY <1>2, <1>3, <2>1, <2>2 DEF MidCounts, TypeOK, CountInv, WaitInv
<1>6. MidOk(t, fAllOk)
  BY <1>2 DEF MidOk, OkInv, TypeOK
<1> QED
  BY <1>4, <1>5, <1>6 DEF Resume, AtInnerLoop

(* notify_one changes at most one sleeping thread, to woken.               *)
LEMMA TellMasterFacts ==
    ASSUME IInv, NEW t \in Threads, pc[t] = "work", NEW todo, NEW p \in TellMaster(t, todo)
    PROVE  /\ p \in [Threads -> Places]
           /\ \A u \in Threads : p[u] = pc[u] \/ (pc[u] = "wait" /\ p[u] = "woken")
           /\ todo = 0 => \A m \in Masters : p[m] # "wait"
<1> USE DEF IInv
<1>1. \A m1, m2 \in Masters : pc[m1] = "wait" /\ pc[m2] = "wait" => m1 = m2
  BY DEF HolderInv
<1>2. t \in Masters => \A m \in Masters : pc[m] # "wait"
  BY DEF HolderInv
<1>3. CASE p = pc /\ (todo = 0 /\ t \in Workers => Waiting(Masters) = {})
  BY <1>2, <1>3 DEF TypeOK, Waiting, Threads
<1>4. CASE \E u \in Waiting(Masters) : p = [pc EXCEPT ![u] = "woken"]
  BY <1>1, <1>4 DEF TypeOK, Waiting, Threads, Places
<1> QED
  BY <1>3, <1>4 DEF TellMaster, NotifyOne

LEMMA ReportMid ==
    ASSUME IInv, NEW t \in Threads, Report(t)
    PROVE  AtInnerLoop(t)
<1> USE DEF IInv
<1> DEFINE todo == nTodo - Cardinality(batch[t])
           ok == Merged(t)
<1>1. pc[t] = "work" /\ batch[t] # {}
  BY DEF Report, BatchInv
<1>2. PICK p \in TellMaster(t, todo) : InnerLoop(t, p, nTotal, nIdle, todo, ok)
  BY DEF Report, Completed
<1>3. /\ p \in [Threads -> Places]
      /\ \A u \in Threads : p[u] = pc[u] \/ (pc[u] = "wait" /\ p[u] = "woken")
      /\ todo = 0 => \A m \in Masters : p[m] # "wait"
  BY <1>1, <1>2, TellMasterFacts
<1>4. Rest(t) = Outstanding \ batch[t] /\ batch[t] \subseteq Outstanding
  BY DEF Rest, Outstanding, Others, BatchInv
<1>5. BusyOthers(t, p) = Busy \ {t} /\ t \in Busy /\ AsleepOthers(t, p) = Asleep
  BY <1>1, <1>3 DEF BusyOthers, AsleepOthers, Busy, Asleep, Others
<1>6. MidPlaces(t, p)
  BY <1>1, <1>3 DEF MidPlaces, TypeOK, HolderInv, WorkersInv, BatchInv, Others, Threads
<1>7. MidCounts(t, p, nTotal, nIdle, todo)
  <2>1. Cardinality(Busy) \in Nat /\ Cardinality(Busy \ {t}) = Cardinality(Busy) - 1
    BY <1>5, FiniteParts, FS_RemoveElement, FS_CardinalityType
  <2>2. todo = Cardinality(Rest(t)) /\ todo \in Nat
    <3>1. Outstanding \cap batch[t] = batch[t] BY <1>4
    <3>2. Cardinality(Rest(t)) = Cardinality(Outstanding) - Cardinality(Outstanding \cap batch[t])
      BY <1>4, FiniteParts, FS_Difference
    <3>3. Cardinality(Rest(t)) \in Nat BY FiniteParts, FS_CardinalityType
    <3> QED BY <3>1, <3>2, <3>3 DEF CountInv
  <2>3. \A m \in Masters : m # t /\ p[m] = "wait" => queue = {} /\ todo # 0
    BY <1>3 DEF WaitInv, Threads
  <2> HIDE DEF todo
  <2> QED BY <1>5, <2>1, <2>2, <2>3 DEF MidCounts, TypeOK, CountInv
<1>8. MidOk(t, ok)
  <2>1. ok \in BOOLEAN BY DEF TypeOK, Merged, Evaluated
  <2>2. ok => (submitted \ Rest(t)) \cap Failing = {}
    BY <1>4 DEF OkInv, Merged, Evaluated
  <2>3. ~ok => submitted \cap Failing # {}
    BY <1>1, <1>4 DEF OkInv, Merged, Evaluated, RoundInv
  <2> QED BY <2>1, <2>2, <2>3 DEF MidOk
<1> HIDE DEF todo, ok
<1> QED
  BY <1>2, <1>6, <1>7, <1>8 DEF AtInnerLoop

LEMMA SectionMid ==
    ASSUME IInv, NEW t \in Threads, Section(t)
    PROVE  AtInnerLoop(t)
BY EnterMid, ResumeMid, ReportMid DEF Section

LEMMA SectionPreserves ==
    ASSUME IInv, NEW t \in Threads, Section(t)
    PROVE  IInv'
BY SectionMid, InnerLoopRestores DEF AtInnerLoop

-----------------------------------------------------------------------------
(* The steps outside of Loop.                                              *)

(* Waking sleeping threads disturbs nothing.                               *)
Wakes == /\ pc' \in [Threads -> Places]
         /\ \A t \in Threads : pc'[t] = pc[t] \/ (pc[t] = "wait" /\ pc'[t] = "woken")

LEMMA WakesKeeps ==
    ASSUME IInv, Wakes, UNCHANGED <<control, fAllOk, batch, fOk>>
    PROVE  /\ HolderInv' /\ WorkersInv' /\ Busy' = Busy /\ Asleep' = Asleep
           /\ \A t \in Threads : batch'[t] # {} <=> pc'[t] = "work"
           /\ \A t \in Threads : pc'[t] = "work" <=> pc[t] = "work"
           /\ \A m \in Masters : pc'[m] = "wait" => pc[m] = "wait"
<1> USE DEF IInv, Wakes
<1>1. \A t \in Threads : (pc'[t] = "work" <=> pc[t] = "work")
        /\ (pc'[t] \in {"wait", "woken"} <=> pc[t] \in {"wait", "woken"})
  OBVIOUS
<1>2. HolderInv' BY DEF HolderInv, Threads
<1>3. WorkersInv' BY DEF WorkersInv, Threads
<1>4. Busy' = Busy /\ Asleep' = Asleep BY <1>1 DEF Busy, Asleep
<1>5. \A t \in Threads : batch'[t] # {} <=> pc'[t] = "work" BY <1>1 DEF BatchInv
<1> QED BY <1>1, <1>2, <1>3, <1>4, <1>5 DEF Threads

LEMMA SpuriousPreserves ==
    ASSUME IInv, NEW t \in Threads, SpuriousWakeup(t)
    PROVE  IInv'
<1> USE DEF IInv, SpuriousWakeup, queueVars
<1>1. Wakes BY DEF Wakes, TypeOK, Places
<1>2. Outstanding' = Outstanding BY DEF Outstanding
<1> QED
  BY <1>1, <1>2, WakesKeeps
  DEF Wakes, TypeOK, BatchInv, RoundInv, CountInv, OkInv, WaitInv

LEMMA InterruptPreserves ==
    ASSUME IInv, NEW t \in Threads, Interrupt(t)
    PROVE  IInv'
<1> USE DEF IInv, queueVars
<1>1. /\ pc[t] \in {"wait", "woken"} /\ pc'[t] \in {"gone", "enter"}
      /\ t \in Masters => pc'[t] = "enter"
      /\ pc' \in [Threads -> Places]
      /\ \A u \in Threads : u # t => pc'[u] = pc[u]
      /\ UNCHANGED <<control, queueVars, batch, fOk, submitted, results>>
      /\ unwinding' \subseteq Masters
  BY ThreadsDistinct DEF Interrupt, TypeOK, Places
<1>2. Outstanding' = Outstanding BY <1>1 DEF Outstanding
<1>3. Busy' = Busy /\ Asleep' = Asleep \ {t} BY <1>1 DEF Busy, Asleep
<1>4. Cardinality(Asleep') <= nIdle'
  <2>1. Cardinality(Asleep \ {t}) <= Cardinality(Asleep)
        /\ Cardinality(Asleep) \in Nat /\ Cardinality(Asleep \ {t}) \in Nat
    BY FiniteParts, FS_Subset, FS_CardinalityType
  <2> QED BY <1>1, <1>3, <2>1 DEF CountInv, TypeOK
<1>5. TypeOK' BY <1>1 DEF TypeOK
<1>6. HolderInv' BY <1>1 DEF HolderInv, Threads
<1>7. WorkersInv' BY <1>1 DEF WorkersInv, Threads
<1>8. BatchInv' BY <1>1 DEF BatchInv
<1>9. RoundInv' BY <1>1, <1>2 DEF RoundInv
<1>10. CountInv' BY <1>1, <1>2, <1>3, <1>4 DEF CountInv
<1>11. OkInv'
  <2>1. \A u \in Threads : pc'[u] = "work" => pc[u] = "work" BY <1>1
  <2> QED BY <1>1, <1>2, <2>1 DEF OkInv
<1>12. WaitInv' BY <1>1 DEF WaitInv, Threads
<1> QED
  BY <1>5, <1>6, <1>7, <1>8, <1>9, <1>10, <1>11, <1>12

LEMMA BeginPreserves ==
    ASSUME IInv, NEW m \in Masters, Begin(m)
    PROVE  IInv'
<1> USE DEF IInv, Begin, queueVars
<1>0. m \in Threads /\ m \notin Workers BY ThreadsDistinct DEF Threads
<1>1. /\ pc' \in [Threads -> Places] /\ pc'[m] = "adding"
      /\ \A u \in Threads : u # m => pc'[u] = pc[u]
  BY <1>0 DEF TypeOK, Places
<1>2. Outstanding' = Outstanding BY DEF Outstanding
<1>3. Busy' = Busy /\ Asleep' = Asleep BY <1>0, <1>1 DEF Busy, Asleep
<1>4. TypeOK' BY <1>1 DEF TypeOK
<1>5. HolderInv'
  <2>1. \A k \in Masters : k # m => pc'[k] = pc[k] BY <1>1 DEF Threads
  <2>2. \A k \in Masters : k # NoMaster BY ThreadsDistinct DEF Threads
  <2> QED BY <1>1, <2>1, <2>2 DEF HolderInv
<1>6. WorkersInv' BY <1>0, <1>1 DEF WorkersInv, Threads
<1>7. BatchInv' BY <1>0, <1>1 DEF BatchInv
<1>8. RoundInv'
  BY <1>2, ThreadsDistinct DEF RoundInv, Threads
<1>9. CountInv' BY <1>2, <1>3 DEF CountInv
<1>10. OkInv' BY <1>0, <1>1, <1>2 DEF OkInv
<1>11. WaitInv' BY <1>1 DEF WaitInv, Threads
<1> QED
  BY <1>4, <1>5, <1>6, <1>7, <1>8, <1>9, <1>10, <1>11

LEMMA AddPreserves ==
    ASSUME IInv, NEW m \in Masters, NEW S \in SUBSET (Checks \ submitted), Add(m, S)
    PROVE  IInv'
<1> USE DEF IInv
<1>0. /\ pc[m] = "adding" /\ control = m
      /\ queue' = queue \cup S /\ submitted' = submitted \cup S
      /\ nTodo' = nTodo + Cardinality(S)
      /\ UNCHANGED <<control, nIdle, nTotal, fAllOk, batch, fOk, unwinding, results>>
  BY DEF Add, HolderInv
<1>1. Wakes
  <2>1. pc' \in {pc} \cup NotifyOne(Workers) \cup NotifyAll(Workers) BY DEF Add
  <2>2. CASE pc' = pc BY <2>2 DEF Wakes, TypeOK
  <2>3. CASE \E w \in Waiting(Workers) : pc' = [pc EXCEPT ![w] = "woken"]
    BY <2>3 DEF Wakes, TypeOK, Waiting, Places, Threads
  <2>4. CASE pc' = [t \in Threads |-> IF t \in Waiting(Workers) THEN "woken" ELSE pc[t]]
    BY <2>4 DEF Wakes, TypeOK, Waiting, Places, Threads
  <2> QED BY <2>1, <2>2, <2>3, <2>4 DEF NotifyOne, NotifyAll
<1>2. Outstanding' = Outstanding \cup S /\ Outstanding \cap S = {}
  BY <1>0 DEF Outstanding, RoundInv
<1>3. IsFiniteSet(S) /\ Cardinality(S) \in Nat
  BY ChecksFinite, FS_Subset, FS_CardinalityType
<1>4. nTodo' = Cardinality(Outstanding')
  <2>1. Cardinality(Outstanding \cup S)
          = Cardinality(Outstanding) + Cardinality(S) - Cardinality(Outstanding \cap S)
    BY <1>3, FiniteParts, FS_Union
  <2>2. Cardinality(Outstanding \cap S) = 0 BY <1>2, FS_EmptySet
  <2>3. Cardinality(Outstanding) \in Nat BY FiniteParts, FS_CardinalityType
  <2> QED BY <1>0, <1>2, <1>3, <2>1, <2>2, <2>3 DEF CountInv
<1>5. TypeOK' BY <1>0, <1>1, <1>3 DEF TypeOK, Wakes
<1>6. BatchInv'
  <2>1. \A t \in Threads : batch[t] \cap S = {} BY DEF RoundInv, Outstanding
  <2> QED BY <1>0, <1>1, <2>1, WakesKeeps DEF BatchInv
<1>7. RoundInv'
  BY <1>0, <1>2, ThreadsDistinct DEF RoundInv, Threads
<1>8. CountInv' BY <1>0, <1>1, <1>4, WakesKeeps DEF CountInv
<1>9. OkInv'
  <2>1. submitted' \ Outstanding' \subseteq submitted \ Outstanding BY <1>0, <1>2
  <2> QED BY <1>0, <1>1, <2>1, WakesKeeps DEF OkInv
<1>10. WaitInv'
  <2>1. \A k \in Masters : pc[k] # "wait" BY <1>0 DEF HolderInv
  <2> QED BY <1>0, <1>1, <2>1, WakesKeeps DEF WaitInv
<1> QED
  BY <1>0, <1>1, <1>5, <1>6, <1>7, <1>8, <1>9, <1>10, WakesKeeps

-----------------------------------------------------------------------------
LEMMA InitEstablishes == Init => IInv
<1> SUFFICES ASSUME Init PROVE IInv OBVIOUS
<1> USE DEF Init
<1>1. Outstanding = {} /\ Busy = {} /\ Asleep = {}
  BY DEF Outstanding, Busy, Asleep
<1>2. TypeOK BY DEF TypeOK, Places
<1>3. HolderInv /\ WorkersInv /\ WaitInv
  BY ThreadsDistinct DEF HolderInv, WorkersInv, WaitInv, Threads
<1>4. BatchInv BY DEF BatchInv
<1>5. RoundInv /\ OkInv BY <1>1 DEF RoundInv, OkInv
<1>6. CountInv BY <1>1, FS_EmptySet DEF CountInv
<1> QED BY <1>2, <1>3, <1>4, <1>5, <1>6 DEF IInv

LEMMA NextPreserves == IInv /\ [Next]_vars => IInv'
<1> SUFFICES ASSUME IInv, [Next]_vars PROVE IInv' OBVIOUS
<1>1. CASE UNCHANGED vars
  BY <1>1 DEF vars, queueVars, IInv, TypeOK, HolderInv, WorkersInv, BatchInv, RoundInv,
     CountInv, OkInv, WaitInv, Outstanding, Busy, Asleep
<1>2. CASE Next
  BY <1>2, SectionPreserves, SpuriousPreserves, InterruptPreserves, BeginPreserves,
     AddPreserves DEF Next
<1> QED BY <1>1, <1>2

LEMMA Inductive == Spec => []IInv
BY InitEstablishes, NextPreserves, PTL DEF Spec

(* TypeCorrect: the counters of the queue stay natural numbers, and the    *)
(* rest of the state keeps its types.                                      *)
THEOREM TypeCorrect == Spec => []TypeOK
<1>1. IInv => TypeOK BY DEF IInv
<1> QED BY <1>1, Inductive, PTL

(* AssertionsHold: the assertions of CCheckQueueControl never fail,        *)
(* whichever threads were interrupted before.                              *)
THEOREM AssertionsHold == Spec => []UnusedQueueIsClean
<1>1. IInv => UnusedQueueIsClean
  <2> SUFFICES ASSUME IInv, control = NoMaster
               PROVE  nTotal = nIdle /\ nTodo = 0 /\ fAllOk = TRUE
    BY DEF UnusedQueueIsClean
  <2> USE DEF IInv
  <2>1. Outstanding = {} /\ submitted = {} BY DEF RoundInv
  <2>2. Busy = {} BY <2>1 DEF Busy, BatchInv, Outstanding
  <2>3. nTotal = nIdle /\ nTodo = 0
    BY <2>1, <2>2, FS_EmptySet DEF CountInv, TypeOK
  <2>4. fAllOk = TRUE BY <2>1 DEF OkInv, TypeOK
  <2> QED BY <2>3, <2>4
<1> QED BY <1>1, Inductive, PTL

(* WakeupsArrive: a sleeping master always has a worker that will notify   *)
(* it.                                                                     *)
THEOREM WakeupsArrive == Spec => []NoLostWakeup
<1>1. IInv => NoLostWakeup
  <2> SUFFICES ASSUME IInv, NEW m \in Masters, pc[m] = "wait"
               PROVE  \E w \in Workers : pc[w] = "work"
    BY DEF NoLostWakeup, Waiting
  <2> USE DEF IInv
  <2>1. queue = {} /\ nTodo # 0 BY DEF WaitInv
  <2>2. Outstanding # {} BY <2>1, FS_EmptySet DEF CountInv
  <2>3. PICK t \in Threads : batch[t] # {} BY <2>1, <2>2 DEF Outstanding
  <2>4. pc[t] = "work" BY <2>3 DEF BatchInv
  <2>5. t \notin Masters BY <2>4 DEF HolderInv
  <2> QED BY <2>4, <2>5 DEF Threads
<1> QED BY <1>1, Inductive, PTL

-----------------------------------------------------------------------------
(* What the inner loop does to the round: nothing, or a verdict.           *)
LEMMA SectionRefines ==
    ASSUME IInv, NEW t \in Threads, AtInnerLoop(t)
    PROVE  Abstract!Next \/ UNCHANGED <<control, submitted, results>>
<1> USE DEF IInv
<1>1. PICK p, total, idle, todo, ok :
        /\ MidPlaces(t, p) /\ MidCounts(t, p, total, idle, todo) /\ MidOk(t, ok)
        /\ InnerLoop(t, p, total, idle, todo, ok)
  BY DEF AtInnerLoop
<1>2. CASE Return(t, p, total, idle, todo, ok)
  <2>1. Rest(t) = {} BY <1>1, <1>2, EmptyOutstanding DEF Return, MidCounts
  <2>2. t \in Masters /\ control = t BY <1>1, <1>2 DEF Return, MidPlaces
  <2>3. (IF ok THEN "ok" ELSE "failed") = Abstract!Verdict
    BY <1>1, <2>1 DEF MidOk, Abstract!Verdict
  <2>4. Abstract!Return(t) BY <1>2, <2>2, <2>3 DEF Return, Abstract!Return
  <2> QED BY <2>2, <2>4 DEF Abstract!Next
<1>3. CASE Sleep(t, p, total, idle, todo, ok) \/ Take(t, p, total, idle, todo, ok)
  BY <1>3 DEF Sleep, Take
<1> QED BY <1>1, <1>2, <1>3 DEF InnerLoop

(* ImplementsRounds: for every number of workers, masters and checks, and  *)
(* whoever is interrupted, a master's verdict is about exactly the checks  *)
(* it added.                                                               *)
THEOREM ImplementsRounds == Spec => Rounds
<1>1. Init => Abstract!Init BY DEF Init, Abstract!Init
<1>2. IInv /\ [Next]_vars => [Abstract!Next]_<<control, submitted, results>>
  <2> SUFFICES ASSUME IInv, [Next]_vars
               PROVE  Abstract!Next \/ UNCHANGED <<control, submitted, results>>
    OBVIOUS
  <2>1. CASE UNCHANGED vars BY <2>1 DEF vars
  <2>2. ASSUME NEW t \in Threads, Section(t)
        PROVE  Abstract!Next \/ UNCHANGED <<control, submitted, results>>
    BY <2>2, SectionMid, SectionRefines
  <2>3. ASSUME NEW t \in Threads, SpuriousWakeup(t) \/ Interrupt(t)
        PROVE  UNCHANGED <<control, submitted, results>>
    BY <2>3 DEF SpuriousWakeup, Interrupt
  <2>4. ASSUME NEW m \in Masters, Begin(m)
        PROVE  Abstract!Next
    BY <2>4 DEF Begin, Abstract!Next, Abstract!Begin
  <2>5. ASSUME NEW m \in Masters, NEW S \in SUBSET (Checks \ submitted), Add(m, S)
        PROVE  Abstract!Next
    <3>1. Abstract!Submit(m, S) BY <2>5 DEF Add, Abstract!Submit, IInv, HolderInv
    <3> QED BY <3>1 DEF Abstract!Next
  <2> QED BY <2>1, <2>2, <2>3, <2>4, <2>5 DEF Next
<1> QED BY <1>1, <1>2, Inductive, PTL DEF Spec, Rounds, Abstract!Spec
=============================================================================
