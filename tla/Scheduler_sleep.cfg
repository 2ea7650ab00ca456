\* One CPU, fair scheduling, sleeps on a resource and for a time.  The clock wraps
\* once, from 7 to 0.
SPECIFICATION FairSpec
CONSTANTS
    Threads = {t1, t2, t3}
    IDLE = IDLE
    CPUs = {c1}
    NoCPU = NoCPU
    Resources = {r1}
    NoResource = NoResource
    Priorities = {"NORMAL"}
    SleepTimes = {2}
    TimeModulus = 8
    BootRtc = 7
    MaxRtc = 11
INVARIANT SleepElapsed
PROPERTY SleepersReturn
