\* Two threads on an SFS tree of three files and a directory, with a disk and a
\* directory that can be full; or a TFS volume of four data blocks with one fault;
\* or two processes on five pages, started three times.
SPECIFICATION MCSpec
CONSTANTS
    Procs = {t1, t2}
    NULL = NULL
    LastBlock = 5
    SFS_MAX_OPEN_FILES = 2
    SFS_MAX_FILES = 2
    Folders = {"d/"}
    Sizes = {1}
    Names = {f, g}
    NoName = NoName
    TFS_BLOCK_SIZE = 2
    TFS_BLOCKS_MAX = 2
    TFS_MAX_FILES = 2
    totalblocks = 7
    TFS_Sizes = {0, 3}
    Faults = 1
    Pages = {1, 2, 3, 4, 5}
    Images <- TwoImages
    STACK = 6
    PAGETABLE_ENTRIES = 2
    TLB_SIZE = 2
    MaxStarts = 3
SYMMETRY Symmetry
INVARIANTS EntriesExact BlocksExact OpenFilesKept VolumeConsistent ContentsKept
           PagesOwned TlbAgrees
CHECK_DEADLOCK FALSE
