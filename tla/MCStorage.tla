------------------------------ MODULE MCStorage ------------------------------
(***************************************************************************)
(* Small instances of Memory, SFS and TFS, side by side: the initial state *)
(* says which of them runs, and the others stay as they began.             *)
(***************************************************************************)
EXTENDS MCMemory, TLC

CONSTANTS
    LastBlock, SFS_MAX_OPEN_FILES, SFS_MAX_FILES, Folders, Sizes,
    Names, NoName, TFS_BLOCK_SIZE, TFS_BLOCKS_MAX, TFS_MAX_FILES, totalblocks, TFS_Sizes,
    Faults

VARIABLES
    component,
    bat, disk, open_files, slock, handles, sfs_pc, call, mounted, orphaned, missed,
    sfs_stale,
    tfs_bat, md, blk, tfs_mounted, writes, op, promised, torn, leaked, faults

\* The root, two files in it, a directory, and a file in that.
SmallTree == {<<>>, <<"a">>, <<"b">>, <<"d/">>, <<"d/", "x">>}

Simple == INSTANCE SFS WITH
    pc <- sfs_pc, stale <- sfs_stale, Threads <- Procs, Paths <- SmallTree

\* A part of the first block, and two whole blocks.
TwoTexts == {<<0, 1>>, <<1, 0, 1, 1>>}

Trivial == INSTANCE TFS WITH
    bat <- tfs_bat, mounted <- tfs_mounted, Sizes <- TFS_Sizes, Texts <- TwoTexts

ASSUME MemoryAssumption
ASSUME Simple!SFSAssumption

sfs == <<bat, disk, open_files, slock, handles, sfs_pc, call, mounted, orphaned, missed,
         sfs_stale>>
tfs == <<tfs_bat, md, blk, tfs_mounted, writes, op, promised, torn, leaked, faults>>

MCInit ==
    /\ component \in {"memory", "sfs", "tfs"}
    /\ Init /\ Simple!Init /\ Trivial!Init

MCNext ==
    /\ UNCHANGED component
    /\ \/ component = "memory" /\ Next /\ UNCHANGED <<sfs, tfs>>
       \/ component = "sfs" /\ Simple!Next /\ UNCHANGED <<vars, tfs>>
       \/ component = "tfs" /\ Trivial!Next /\ UNCHANGED <<vars, sfs>>

MCSpec == MCInit /\ [][MCNext]_<<component, vars, sfs, tfs>>

\* The processes of Memory are interchangeable, and so are the threads of SFS.
Symmetry == Permutations(Procs)

EntriesExact == component = "sfs" => Simple!EntriesExact
BlocksExact == component = "sfs" => Simple!BlocksExact
OpenFilesKept == component = "sfs" => Simple!OpenFilesKept
VolumeConsistent == component = "tfs" => Trivial!VolumeConsistent
ContentsKept == component = "tfs" => Trivial!ContentsKept
=============================================================================
