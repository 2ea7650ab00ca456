SPECIFICATION FairProcessSpec
CONSTANTS
    Tids = {t1, t2}
    NO_TID = none
    MAX_PROCESSES = 2
    MaxStarts = 3
    Retvals <- SomeRetvals
    INT_MIN <- MinusTwo
CHECK_DEADLOCK FALSE
PROPERTIES
    ExitEnds
