SPECIFICATION Spec
CONSTANTS
    w1 = w1
    w2 = w2
    m1 = m1
    none = none
    good1 = good1
    good2 = good2
    good3 = good3
    bad = bad
    Workers <- MCWorkers
    NoMaster = none
    Checks <- MCChecks
    Failing <- MCFailing
    BatchSize = 2
    Masters <- MCMasters
INVARIANTS TypeOK UnusedQueueIsClean NoLostWakeup
PROPERTIES Rounds QueueFinishes
CHECK_DEADLOCK FALSE
