\* Two threads make the calls of vfs.c on two volumes; one of them mounts.
SPECIFICATION FairSpec
CONSTANTS
    Threads = {t1, t2}
    t1 = t1
    t2 = t2
    NULL = NULL
    Rows = {0, 1}
    OpenFiles = {3}
    MAX_OPEN_FILES_PER_PROCESS = 1
    Filesystems = {f1, f2}
    Names = {n1, n2}
    Calls <- MostCalls
    MaxLost = 1
CHECK_DEADLOCK FALSE
INVARIANTS CallsSafe HandlesExclusive
PROPERTY HaltEnds
