\* Two threads open and remove the same file.
SPECIFICATION Spec
CONSTANTS
    Threads = {t1, t2}
    NULL = NULL
    LastBlock = 6
    SFS_MAX_OPEN_FILES = 2
    SFS_MAX_FILES = 2
    Paths <- SmallTree
    Folders = {"d/"}
    Sizes = {1}
CHECK_DEADLOCK FALSE
INVARIANT OpenRefusesDeleted
