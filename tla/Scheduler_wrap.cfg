\* One CPU and two threads that sleep for a time.  The clock wraps once, from 7 to 0.
SPECIFICATION Spec
CONSTANTS
    Threads = {t1, t2}
    IDLE = IDLE
    CPUs = {c1}
    NoCPU = NoCPU
    Resources = {r1}
    NoResource = NoResource
    Priorities = {"NORMAL"}
    SleepTimes = {2}
    TimeModulus = 8
    BootRtc = 7
    MaxRtc = 11
INVARIANT SleepNotEarly
