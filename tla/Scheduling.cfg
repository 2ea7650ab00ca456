\* Three threads on two CPUs, no timed sleep; or four threads on the links of the
\* ready list and of two chains.
SPECIFICATION MCSpec
CONSTANTS
    Threads = {t1, t2, t3}
    IDLE = IDLE
    CPUs = {c1, c2}
    NoCPU = NoCPU
    Resources = {r1, r2}
    NoResource = NoResource
    Priorities = {"HIGH", "NORMAL"}
    SleepTimes = {}
    TimeModulus = 16
    BootRtc = 1
    MaxRtc = 1
    SLEEPQ_HASHTABLE_SIZE = 2
SYMMETRY SafetySymmetry
INVARIANT ListsExact
PROPERTIES ReadyOrder ImplementsSleepQueue ImplementsThreadLists WakeAllComplete
