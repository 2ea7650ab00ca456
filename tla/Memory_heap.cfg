\* Two processes on six pages.
SPECIFICATION Spec
CONSTANTS
    Procs = {p1, p2}
    Pages = {1, 2, 3, 4, 5, 6}
    NULL = NULL
    Images <- TwoImages
    STACK = 6
    PAGETABLE_ENTRIES = 4
    TLB_SIZE = 2
    MaxStarts = 3
INVARIANT HeapEndMapped
CHECK_DEADLOCK FALSE
