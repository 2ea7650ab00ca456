\* Three threads: two locks and a condition that are created and destroyed, or
\* three entries of the process table and four processes that are started.
SPECIFICATION MCFairSpec
CONSTANTS
    Threads = {t1, t2, t3}
    NO_THREAD = none
    RESERVED = RESERVED
    LockCount = 2
    CondCount = 1
    MaxNesting = 2
    Tids = {t1, t2, t3}
    NO_TID = none
    MAX_PROCESSES = 3
    MaxStarts = 4
    Retvals <- SomeRetvals
    INT_MIN <- MinusTwo
INVARIANTS LocksOwned CountsExact EntriesOwned PidsNameChildren
PROPERTIES ImplementsMonitor LockReturns ParentsGoOn
CHECK_DEADLOCK FALSE
