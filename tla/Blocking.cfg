\* Semaphores that are created, used by three threads and an interrupt handler on
\* one CPU, and destroyed; or a file of three blocks, the last one partial.
SPECIFICATION MCFairSpec
CONSTANTS
    t1 = t1
    t2 = t2
    t3 = t3
    Threads = {t1, t2, t3}
    Handlers = {h1}
    NCPUs = 1
    SemCount = 2
    Temporary = {0, 1}
    NoThread = NoThread
    Values = {0, 1}
    MaxValue = 1
    NULL = NULL
    SFS_VBLOCK_SIZE = 2
    FileSize = 5
    Bytes = {0, 1, 2}
    Users = {t1, t2, t3}
    Calls <- MixedCalls
INVARIANTS WaitersCounted ReadersCounted
PROPERTIES ImplementsCountingSemaphore EveryPReturns ImplementsByteFile EveryCallReturns
