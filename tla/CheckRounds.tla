----------------------------- MODULE CheckRounds -----------------------------
(***************************************************************************)
(* What a CCheckQueueControl promises the thread that connects a block:    *)
(* one thread at a time submits checks and gets one verdict, which is      *)
(* about exactly the checks it submitted.                                  *)
(***************************************************************************)
CONSTANTS Masters, NoMaster, Checks, Failing

VARIABLES
    holder,         \* the thread that has the queue
    submitted,      \* the checks it has submitted
    results         \* the last verdict each thread was given

Init ==
    /\ holder = NoMaster
    /\ submitted = {}
    /\ results = [m \in Masters |-> "none"]

Begin(m) ==
    /\ holder = NoMaster
    /\ holder' = m
    /\ UNCHANGED <<submitted, results>>

Submit(m, S) ==
    /\ holder = m
    /\ submitted' = submitted \cup S
    /\ UNCHANGED <<holder, results>>

(* The verdict is that no submitted check failed.  A thread that is being  *)
(* interrupted gives up the queue without a verdict.                       *)
Verdict == IF submitted \cap Failing = {} THEN "ok" ELSE "failed"

Return(m) ==
    /\ holder = m
    /\ holder' = NoMaster
    /\ submitted' = {}
    /\ results' \in {results, [results EXCEPT ![m] = Verdict]}

Next == \E m \in Masters :
            Begin(m) \/ Return(m) \/ \E S \in SUBSET Checks : Submit(m, S)

Spec == Init /\ [][Next]_<<holder, submitted, results>>
=============================================================================
