\* Packets between two threads, the service thread and an interface, with queues
\* of two packets.
SPECIFICATION FairSpec
CONSTANTS
    u1 = u1
    u2 = u2
    Users = {u1, u2}
    NULL = NULL
    MAX_OPEN_SOCKETS = 2
    POP_QUEUE_SIZE = 2
    POP_QUEUE_MIN_AGE = 1
    Loads <- NetworkLoads
    Pages = 4
INVARIANTS FramesOwned ReceiverServed
PROPERTY RecvReturns
CHECK_DEADLOCK FALSE
