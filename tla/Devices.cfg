\* Three threads with three requests in flight on two blocks of two values; or
\* writers, readers and kernel messages on a terminal with buffers of two
\* characters; or two senders and the receiver of a network interface.
SPECIFICATION MCFairSpec
CONSTANTS
    t1 = t1
    t2 = t2
    t3 = t3
    Threads = {t1, t2, t3}
    NULL = NULL
    SemCount = 3
    LastBlock = 1
    Values = {v1, v2}
    Calls <- MixedCalls
    SFS_BLOCKS_PER_VBLOCK = 2
    w1 = w1
    w2 = w2
    r1 = r1
    r2 = r2
    Writers = {w1, w2}
    Readers = {r1, r2}
    Kernel = kernel
    NoThread = NoThread
    TTY_BUF_SIZE = 2
    Lengths = {1, 3}
    MaxRead = 1
    Senders = {s1, s2}
    Receivers = {r1}
    Arrivals = 2
    Sends = 1
INVARIANTS RequestsAlive OutputExact InputExact FramesInUse
PROPERTIES ImplementsBlockDevice EveryRequestReturns TerminalGoesOn
CHECK_DEADLOCK FALSE
