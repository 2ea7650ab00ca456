--------------------------------- MODULE SFS ----------------------------------
(***************************************************************************)
(* The student filesystem (fs/sfs.c): the directory tree and the           *)
(* allocation block on the disk, the table of open files, and deletion     *)
(* that waits for the last handle.  What a read or write does to the data  *)
(* of a file is in SFSFile.                                                *)
(*                                                                         *)
(* The callers are those of fs/vfs.c: create and remove exclude each other *)
(* (vfs_table.sem is held around them), open, read, write and close do     *)
(* not.  A section that holds openfile_lock is one step, and so is one     *)
(* that holds sfs->lock, except in sfs_create, whose three writes to the   *)
(* disk are steps of their own.  A directory name ends with a slash, so a  *)
(* name tells whether it is a directory.  Reads and writes of blocks do    *)
(* not fail: the driver reports no errors (Disk).                          *)
(***************************************************************************)
EXTENDS Naturals, Sequences, FiniteSets

CONSTANTS
    Threads,
    NULL,
    LastBlock,         \* sfs->totalvblocks - 1
    SFS_MAX_OPEN_FILES,
    SFS_MAX_FILES,
    Paths,             \* sequences of names, as sfs_next_path_elem gives them
    Folders,           \* the names that end with a slash
    Sizes              \* sizes of files in blocks

SFS_DIRECTORY_BLOCK == 2
Blocks == SFS_DIRECTORY_BLOCK..LastBlock
Entries == 1..SFS_MAX_OPEN_FILES

SFSAssumption ==
    /\ LastBlock \in Nat /\ SFS_MAX_OPEN_FILES \in Nat /\ SFS_MAX_FILES \in Nat
    /\ NULL \notin Threads \cup Nat /\ Sizes \subseteq Nat

VARIABLES
    bat,               \* the blocks marked in the allocation block
    disk,              \* contents of the other blocks
    open_files,
    slock,             \* the thread that has passed the P of sfs->lock
    handles,           \* the file each thread has open
    pc,                \* where a thread is in its call
    call,              \* what it has found out: [fileid, parent, path, ...]
    mounted,
    orphaned,          \* history: blocks below a removed directory
    missed,            \* history: openers whose file was deleted since they
                       \* looked it up
    stale              \* history: such an opener has entered the table

vars == <<bat, disk, open_files, slock, handles, pc, call, mounted, orphaned,
          missed, stale>>
history == <<orphaned, missed, stale>>

\* Contents of a block: a directory, an inode, or the data of a file.
Directory(S) == [entries |-> S]
Inode(S) == [blocks |-> S]
Zeros == [data |-> 0]

\* sfs_reset_entry; the fields of the readers and writers are in SFSFile.
sfs_reset_entry ==
    [fileid |-> NULL, parentid |-> NULL, times_opened |-> 0, is_folder |-> FALSE,
     is_deleted |-> FALSE]

NoCall ==
    [op |-> NULL, fileid |-> NULL, parent |-> NULL, name |-> NULL, entry |-> NULL,
     is_deleted |-> FALSE, blocks |-> {}]

Goto(t, p) == pc' = [pc EXCEPT ![t] = p]
Return(t) == Goto(t, "idle") /\ call' = [call EXCEPT ![t] = NoCall]

Smallest(S) == CHOOSE x \in S : \A y \in S : x <= y
Last(p) == p[Len(p)]
-----------------------------------------------------------------------------
(* Looking up names.                                                       *)

\* The block that a name of a directory leads to.
Lookup(d, name) ==
    LET found == {e \in disk[d].entries : e[1] = name}
    IN  IF found = {} THEN NULL ELSE (CHOOSE e \in found : TRUE)[2]

\* The block that the first i names of the path lead to.
sfs_resolve_file(path) ==
    LET walk[i \in 0..Len(path)] ==
            IF i = 0 THEN SFS_DIRECTORY_BLOCK
            ELSE IF walk[i - 1] = NULL THEN NULL
            ELSE Lookup(walk[i - 1], path[i])
    IN  walk

\* Start an operation on the file that path names.
Resolve(t, op, path, p) ==
    LET walk == sfs_resolve_file(path) IN
    /\ pc[t] = "idle" /\ mounted /\ slock = NULL
    /\ walk[Len(path)] # NULL
    /\ call' = [call EXCEPT ![t] =
                  [NoCall EXCEPT !.op = op, !.fileid = walk[Len(path)],
                     !.parent = IF path = <<>> THEN NULL ELSE walk[Len(path) - 1],
                     !.name = IF path = <<>> THEN NULL ELSE Last(path)]]
    /\ Goto(t, p)

\* vfs_table.sem is held around create and remove.
TableFree == \A u \in Threads : call[u].op \notin {"create", "remove"}

\* The root has no name, and its path is a slash.
IsFolder(name) == name \in Folders \cup {NULL}
-----------------------------------------------------------------------------
(* Deletion.                                                               *)

\* Blocks that belong to a file or directory.
Body(fileid, is_folder) == {fileid} \cup IF is_folder THEN {} ELSE disk[fileid].blocks

\* Faulty: the blocks of the contents are not freed.
_delete_bug(f) ==
    /\ slock = NULL
    /\ bat' = bat \ {f.fileid}
    /\ missed' = missed \cup {t \in Threads : pc[t] = "enter" /\ call[t].fileid = f.fileid}

\* The entries of files in a deleted directory forget it (see sfs_exit).
_delete(f) ==
    /\ slock = NULL
    /\ bat' = bat \ Body(f.fileid, f.is_folder)
    /\ missed' = missed \cup {t \in Threads : pc[t] = "enter" /\ call[t].fileid = f.fileid}

IsDirectory(b) == "entries" \in DOMAIN disk[b]
IsInode(b) == "blocks" \in DOMAIN disk[b]

\* Everything below a directory.
Below(d) ==
    LET level[i \in Nat] ==
            IF i = 0 THEN {d}
            ELSE LET S == level[i - 1]
                 IN  S \cup {e[2] : e \in UNION {disk[b].entries : b \in {c \in S : IsDirectory(c)}}}
        files == level[Cardinality(Blocks)] \ {d}
    IN  files \cup UNION {disk[b].blocks : b \in {c \in files : IsInode(c)}}

_delete_from_dirtree(f) ==
    /\ slock = NULL
    /\ disk' = IF f.parentid = NULL THEN disk
               ELSE [disk EXCEPT ![f.parentid].entries =
                       {e \in @ : e[2] # f.fileid}]
    /\ orphaned' = orphaned \cup IF f.is_folder THEN Below(f.fileid) ELSE {}
-----------------------------------------------------------------------------
(* The table of open files.                                                *)

EntriesOf(fileid) == {i \in Entries : open_files[i].fileid = fileid}

\* Faulty: the search stops at the first free entry.
SlotFor_bug(fileid) ==
    LET S == EntriesOf(fileid) \cup EntriesOf(NULL)
    IN  IF S = {} THEN NULL ELSE Smallest(S)

\* The entry of the file, or the first free one.
SlotFor(fileid) ==
    IF EntriesOf(fileid) # {} THEN Smallest(EntriesOf(fileid))
    ELSE IF EntriesOf(NULL) # {} THEN Smallest(EntriesOf(NULL)) ELSE NULL

\* The entry that sfs_enter_ext has opened for the file of t.
Entered(t) ==
    LET f == open_files[SlotFor(call[t].fileid)]
    IN  IF f.fileid # NULL THEN [f EXCEPT !.times_opened = @ + 1]
        ELSE [fileid |-> call[t].fileid, parentid |-> call[t].parent,
              times_opened |-> f.times_opened + 1,
              is_folder |-> IsFolder(call[t].name), is_deleted |-> f.is_deleted]

\* Faulty: a deleted file is freed although others have it open.
sfs_exit_bug(i, is_close_op) ==
    LET f == [open_files[i] EXCEPT !.times_opened = IF is_close_op THEN @ - 1 ELSE @] IN
    /\ IF f.is_deleted THEN _delete(f) ELSE UNCHANGED <<bat, missed>>
    /\ open_files' = [open_files EXCEPT ![i] =
                        IF f.times_opened = 0 THEN sfs_reset_entry ELSE f]
    /\ UNCHANGED <<disk, slock, mounted, orphaned, stale>>

\* Leave entry i; the last one to close a deleted file deletes it.
sfs_exit(i, is_close_op) ==
    LET f == [open_files[i] EXCEPT !.times_opened = IF is_close_op THEN @ - 1 ELSE @] IN
    /\ IF f.times_opened = 0 /\ f.is_deleted THEN _delete(f) ELSE UNCHANGED <<bat, missed>>
    /\ open_files' =
        [j \in Entries |->
            IF j = i THEN IF f.times_opened = 0 THEN sfs_reset_entry ELSE f
            ELSE IF f.times_opened = 0 /\ f.is_deleted /\ f.is_folder
                     /\ open_files[j].parentid = f.fileid
            THEN [open_files[j] EXCEPT !.parentid = NULL]
            ELSE open_files[j]]
    /\ UNCHANGED <<disk, slock, mounted, orphaned, stale>>
-----------------------------------------------------------------------------
(* sfs_open, sfs_close, sfs_read and sfs_write.                            *)

\* Bound: a thread has one file open.
sfs_open(t, path) ==
    /\ handles[t] = NULL
    /\ Resolve(t, "open", path, "enter")
    /\ UNCHANGED <<bat, disk, open_files, slock, handles, mounted, history>>

open_enter(t) ==
    LET i == SlotFor(call[t].fileid) IN
    /\ pc[t] = "enter"
    /\ IF i = NULL THEN Return(t) /\ UNCHANGED <<open_files, stale>>
       ELSE /\ open_files' = [open_files EXCEPT ![i] = Entered(t)]
            /\ call' = [call EXCEPT ![t].entry = i]
            /\ stale' = (stale \/ t \in missed)
            /\ Goto(t, "check")
    /\ missed' = missed \ {t}
    /\ UNCHANGED <<bat, disk, slock, handles, mounted, orphaned>>

\* is_deleted is read without the lock.
open_check(t) ==
    /\ pc[t] = "check"
    /\ call' = [call EXCEPT ![t].is_deleted = open_files[call[t].entry].is_deleted]
    /\ Goto(t, "exit")
    /\ UNCHANGED <<bat, disk, open_files, slock, handles, mounted, history>>

open_exit(t) ==
    /\ pc[t] = "exit" /\ call[t].op = "open"
    /\ sfs_exit(call[t].entry, call[t].is_deleted)
    /\ handles' = IF call[t].is_deleted THEN handles
                  ELSE [handles EXCEPT ![t] = call[t].fileid]
    /\ Return(t)

sfs_close(t) ==
    /\ pc[t] = "idle" /\ handles[t] # NULL /\ mounted
    /\ sfs_exit(SlotFor(handles[t]), TRUE)
    /\ handles' = [handles EXCEPT ![t] = NULL]
    /\ UNCHANGED <<pc, call>>

\* sfs_read and sfs_write, from sfs_enter to sfs_exit.
sfs_read_write(t) ==
    /\ pc[t] = "idle" /\ handles[t] # NULL /\ mounted
    /\ call' = [call EXCEPT ![t] = [NoCall EXCEPT !.op = "use", !.entry = SlotFor(handles[t])]]
    /\ Goto(t, "using")
    /\ UNCHANGED <<bat, disk, open_files, slock, handles, mounted, history>>

read_write_exit(t) ==
    /\ pc[t] = "using"
    /\ sfs_exit(call[t].entry, FALSE)
    /\ Return(t) /\ UNCHANGED handles
-----------------------------------------------------------------------------
(* sfs_create.                                                             *)

sfs_create(t, path, size) ==
    LET walk == sfs_resolve_file(path) IN
    /\ pc[t] = "idle" /\ mounted /\ slock = NULL /\ TableFree
    /\ path # <<>>
    /\ walk[Len(path)] = NULL /\ walk[Len(path) - 1] # NULL
    /\ call' = [call EXCEPT ![t] =
                  [NoCall EXCEPT !.op = "create", !.parent = walk[Len(path) - 1],
                     !.name = Last(path),
                     !.blocks = 1..(IF IsFolder(Last(path)) THEN 0 ELSE size)]]
    /\ Goto(t, "alloc")
    /\ UNCHANGED <<bat, disk, open_files, slock, handles, mounted, history>>

\* bitmap_findnset, n times.
FirstFree(n) ==
    CHOOSE S \in SUBSET (Blocks \ bat) :
        /\ Cardinality(S) = n
        /\ \A x \in S, y \in (Blocks \ bat) \ S : x < y

\* Take the lock, look for room in the directory and on the disk, and write
\* the allocation block; give up without a trace if there is none.
create_alloc(t) ==
    LET n == Cardinality(call[t].blocks) + 1 IN
    /\ pc[t] = "alloc" /\ slock = NULL
    /\ IF \/ Cardinality(disk[call[t].parent].entries) = SFS_MAX_FILES
          \/ Cardinality(Blocks \ bat) < n
       THEN Return(t) /\ UNCHANGED <<bat, slock>>
       ELSE LET inode == Smallest(FirstFree(n)) IN
            /\ bat' = bat \cup FirstFree(n)
            /\ call' = [call EXCEPT ![t].fileid = inode,
                                    ![t].blocks = FirstFree(n) \ {inode}]
            /\ slock' = t /\ Goto(t, "link")
    /\ UNCHANGED <<disk, open_files, handles, mounted, history>>

\* Write the parent directory.
create_link(t) ==
    /\ pc[t] = "link"
    /\ disk' = [disk EXCEPT ![call[t].parent].entries =
                  @ \cup {<<call[t].name, call[t].fileid>>}]
    /\ Goto(t, "inode")
    /\ UNCHANGED <<bat, open_files, slock, handles, call, mounted, history>>

\* Write the inode and zero the contents, or write an empty directory.
create_inode(t) ==
    /\ pc[t] = "inode"
    /\ disk' = [b \in Blocks |->
                  IF b = call[t].fileid
                  THEN IF IsFolder(call[t].name) THEN Directory({}) ELSE Inode(call[t].blocks)
                  ELSE IF b \in call[t].blocks THEN Zeros ELSE disk[b]]
    /\ slock' = NULL
    /\ Return(t)
    /\ UNCHANGED <<bat, open_files, handles, mounted, history>>
-----------------------------------------------------------------------------
(* sfs_remove and sfs_unmount.                                             *)

sfs_remove(t, path) ==
    /\ TableFree /\ path # <<>>
    /\ Resolve(t, "remove", path, "mark")
    /\ UNCHANGED <<bat, disk, open_files, slock, handles, mounted, history>>

\* Open the entry and mark it deleted; the first time, take the name away.
remove_enter(t) ==
    LET i == SlotFor(call[t].fileid) IN
    /\ pc[t] = "mark"
    /\ IF i = NULL THEN Return(t) /\ UNCHANGED <<open_files, disk, orphaned>>
       ELSE /\ IF Entered(t).is_deleted THEN UNCHANGED <<disk, orphaned>>
               ELSE _delete_from_dirtree(Entered(t))
            /\ open_files' = [open_files EXCEPT ![i] = [Entered(t) EXCEPT !.is_deleted = TRUE]]
            /\ call' = [call EXCEPT ![t].entry = i]
            /\ Goto(t, "exit")
    /\ UNCHANGED <<bat, slock, handles, mounted, missed, stale>>

remove_exit(t) ==
    /\ pc[t] = "exit" /\ call[t].op = "remove"
    /\ sfs_exit(call[t].entry, TRUE)
    /\ Return(t) /\ UNCHANGED handles

\* VFS unmounts when no call is inside; at a halt files may still be open.
sfs_unmount ==
    /\ mounted /\ \A t \in Threads : pc[t] = "idle"
    /\ bat' = bat \ UNION {Body(open_files[i].fileid, open_files[i].is_folder) :
                             i \in {j \in Entries : open_files[j].is_deleted}}
    /\ mounted' = FALSE
    /\ UNCHANGED <<disk, open_files, slock, handles, pc, call, history>>
-----------------------------------------------------------------------------
\* sfs_init on a disk with an empty root directory.
Init ==
    /\ bat = {SFS_DIRECTORY_BLOCK}
    /\ disk = [b \in Blocks |->
                 IF b = SFS_DIRECTORY_BLOCK THEN Directory({}) ELSE Zeros]
    /\ open_files = [i \in Entries |-> sfs_reset_entry]
    /\ slock = NULL
    /\ handles = [t \in Threads |-> NULL]
    /\ pc = [t \in Threads |-> "idle"]
    /\ call = [t \in Threads |-> NoCall]
    /\ mounted = TRUE
    /\ orphaned = {} /\ missed = {} /\ stale = FALSE

\* What happens once a handle refers to a deleted file is not modelled.
Next ==
    /\ ~stale
    /\ \/ \E t \in Threads :
            \/ open_enter(t) \/ open_check(t) \/ open_exit(t) \/ sfs_close(t)
            \/ sfs_read_write(t) \/ read_write_exit(t)
            \/ create_alloc(t) \/ create_link(t) \/ create_inode(t)
            \/ remove_enter(t) \/ remove_exit(t)
            \/ \E path \in Paths :
                \/ sfs_open(t, path) \/ sfs_remove(t, path)
                \/ \E size \in Sizes : sfs_create(t, path, size)
       \/ sfs_unmount

Spec == Init /\ [][Next]_vars
-----------------------------------------------------------------------------
TypeOK ==
    /\ bat \subseteq Blocks
    /\ disk \in [Blocks -> [entries : SUBSET ({p[Len(p)] : p \in Paths \ {<<>>}} \X Blocks)]
                             \cup [blocks : SUBSET Blocks] \cup {Zeros}]
    /\ slock \in Threads \cup {NULL}
    /\ handles \in [Threads -> Blocks \cup {NULL}]
    /\ mounted \in BOOLEAN

\* The table of open files is exact: a file has one entry, which counts the
\* handles on it and the opens and removes under way, a thread that uses a file
\* finds its entry still in place, and an entry that nobody counts on is free.
\* (And every variable has its type.)
EntriesExact ==
    /\ TypeOK
    /\ \A i \in Entries :
        /\ open_files[i].times_opened =
              Cardinality({t \in Threads : handles[t] # NULL /\ handles[t] = open_files[i].fileid})
                + Cardinality({t \in Threads : pc[t] \in {"check", "exit"} /\ call[t].entry = i})
        /\ (open_files[i].times_opened = 0) <=> (open_files[i] = sfs_reset_entry)
        /\ \A j \in Entries \ {i} : open_files[i].fileid # NULL
                                        => open_files[i].fileid # open_files[j].fileid
    /\ \A t \in Threads : pc[t] = "using" => open_files[call[t].entry].fileid = handles[t]

\* The file whose inode is not yet on the disk.
Unwritten == {call[t].fileid : t \in {u \in Threads : pc[u] = "inode"}}

Reachable == Below(SFS_DIRECTORY_BLOCK)

\* At every moment, also between the three writes of sfs_create, a name on the
\* disk leads to a block that is marked in the allocation block, and so do the
\* inodes; no block belongs to two files.
NamesAllocated ==
    LET dirs == {SFS_DIRECTORY_BLOCK} \cup
                {b \in Reachable \ Unwritten : IsDirectory(b)}
        files == {b \in Reachable \ Unwritten : IsInode(b)}
        names == UNION {disk[d].entries : d \in dirs}
    IN  /\ {e[2] : e \in names} \cup UNION {disk[b].blocks : b \in files} \subseteq bat
        /\ \A e, f \in names : e # f => e[2] # f[2]
        /\ \A b, c \in files : b # c => disk[b].blocks \cap disk[c].blocks = {}
        /\ \A b \in files : disk[b].blocks \cap (files \cup dirs) = {}

\* The files that wait for their last handle.
Pending ==
    UNION {Body(open_files[i].fileid, open_files[i].is_folder) :
             i \in {j \in Entries : mounted /\ open_files[j].is_deleted}}

\* No block is lost: outside of sfs_create, a marked block is the root, belongs
\* to a file or directory that has a name, to a removed one that is still open,
\* or was below a directory that was removed.  After an unmount nothing waits.
\* And NamesAllocated.
BlocksExact ==
    /\ NamesAllocated
    /\ slock = NULL =>
        bat = {SFS_DIRECTORY_BLOCK} \cup Reachable \cup Pending \cup orphaned

\* "The contents of the deleted file remain in the disk until all handles are
\* cleared": the blocks of an open file are not freed.
OpenFilesKept ==
    (mounted /\ ~stale) => \A t \in Threads : handles[t] # NULL =>
        /\ handles[t] \in bat
        /\ IsInode(handles[t]) => disk[handles[t]].blocks \subseteq bat

\* "If file is marked as deleted then we want to close file entry immediately
\* and return error": sfs_open gives no handle on a file that was deleted.
OpenRefusesDeleted == ~stale

=============================================================================
