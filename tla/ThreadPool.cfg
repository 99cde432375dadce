SPECIFICATION poolFairSpec
CONSTANTS
    t1 = t1
    t2 = t2
    j1 = j1
    j2 = j2
    j3 = j3
    Threads = {t1, t2}
    Counts <- MCCounts
    Processors = 0
    Jobs = {j1, j2, j3}
    NoJob = NoJob
INVARIANTS
    poolTypeOK
    NoLostWakeup
    FreeWaits
    StopDrains
PROPERTIES
    FreeReturns
    JobsServed
CHECK_DEADLOCK FALSE
