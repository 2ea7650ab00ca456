--------------------------------- MODULE VFS ----------------------------------
(***************************************************************************)
(* The virtual filesystem (fs/vfs.c) and the file handles of a process     *)
(* (proc/syscall_handler_fs.c): threads call vfs_ functions, mount and     *)
(* unmount volumes and halt the system.                                    *)
(*                                                                         *)
(* The three binary semaphores are held from P to V.  A call into a        *)
(* filesystem driver is a step in and a step out, and returns any result.  *)
(* A process has one thread, so a thread here stands for the process too.  *)
(* Left out: the data read and written, and seek_position, which only the  *)
(* owner of a handle uses (CallsSafe).                                     *)
(***************************************************************************)
EXTENDS Integers, FiniteSets

CONSTANTS
    Threads,
    NULL,
    Rows,              \* vfs_table.filesystems, 0..CONFIG_MAX_FILESYSTEMS - 1
    OpenFiles,         \* rows of openfile_table after the standard handles
    MAX_OPEN_FILES_PER_PROCESS,
    Filesystems,       \* what filesystems_try_all finds, one for each disk
    Names,             \* mountpoints
    Calls,             \* which vfs_ functions each thread calls
    MaxLost            \* bound: operations that error returns leave counted

ASSUME VFSAssumption ==
    /\ Rows \subseteq Nat /\ OpenFiles \subseteq Nat
    /\ NULL \notin Threads \cup Filesystems \cup Names \cup OpenFiles
    /\ MAX_OPEN_FILES_PER_PROCESS \in Nat /\ MaxLost \in Nat

VARIABLES
    filesystem, mountpoint,           \* vfs_table.filesystems
    files,             \* openfile_table.files[].filesystem
    table_sem, openfile_sem, op_sem,  \* who has passed the P of each
    unmount_sem,       \* value of vfs_unmount_sem
    vfs_ops, vfs_usable,
    handles,           \* filehandle[] of each process
    pc,                \* where a thread is in its call
    call,              \* what it calls: [op, name, file, fs]
    ret,               \* what its last call returned
    alive              \* filesystems between their init and their unmount

mounts == <<filesystem, mountpoint>>
sems == <<table_sem, openfile_sem, op_sem, unmount_sem>>
vars == <<mounts, files, sems, vfs_ops, vfs_usable, handles, pc, call, ret, alive>>

NoCall == [op |-> "none", name |-> NULL, file |-> NULL, fs |-> NULL]

Goto(t, p) == pc' = [pc EXCEPT ![t] = p]
Return(t, r) == ret' = [ret EXCEPT ![t] = r]

Smallest(S) == CHOOSE x \in S : \A y \in S : x <= y

\* stringcmp over every row, the ones without a filesystem included.
RowsNamed(n) == {r \in Rows : mountpoint[r] = n}

vfs_get_filesystem(n) ==
    IF RowsNamed(n) = {} THEN NULL ELSE filesystem[Smallest(RowsNamed(n))]

vfs_verify_open(f) == files[f] # NULL
-----------------------------------------------------------------------------
(* The calls a thread may make, and vfs_start_op with which each begins.   *)

\* First step after vfs_start_op.
FirstStep(op) ==
    CASE op \in {"open", "create", "remove", "getfree", "mount", "unmount"} -> "table"
      [] op = "close" -> "close"
      [] op = "seek" -> "seek"
      [] op \in {"read", "write"} -> "verify"

\* A process uses its own handles (check_filehandle) and has a limited number.
MayCall(t, c) ==
    /\ c.op \in Calls[t]
    /\ c.op = "open" => Cardinality(handles[t]) < MAX_OPEN_FILES_PER_PROCESS
    /\ c.op \in {"close", "seek", "read", "write"} => c.file \in handles[t]
    /\ c.op = "mount" => c.fs \in Filesystems \ alive

Inputs ==
    [op : {"open", "create", "remove", "getfree", "unmount"}, name : Names,
     file : {NULL}, fs : {NULL}]
    \cup [op : {"mount"}, name : Names, file : {NULL}, fs : Filesystems]
    \cup [op : {"close", "seek", "read", "write"}, name : {NULL},
          file : OpenFiles, fs : {NULL}]

\* syscall_handle_close forgets the handle, whatever vfs_close returned.
CloseHandle(t, c) ==
    handles' = IF c.op = "close" THEN [handles EXCEPT ![t] = @ \ {c.file}] ELSE handles

\* vfs_mount_fs makes the filesystem for vfs_mount, and drops it if that fails
\* (here at once if vfs_start_op refuses, otherwise in vfs_mount).
vfs_mount_fs(c) == alive' = IF c.op = "mount" THEN alive \cup {c.fs} ELSE alive

vfs_start_op(t, c) ==
    /\ pc[t] = "idle" /\ MayCall(t, c) /\ op_sem = NULL
    /\ IF vfs_usable
       THEN /\ vfs_ops' = vfs_ops + 1
            /\ call' = [call EXCEPT ![t] = c]
            /\ Goto(t, FirstStep(c.op))
            /\ Return(t, "none")
            /\ vfs_mount_fs(c) /\ UNCHANGED handles
       ELSE /\ Return(t, "VFS_UNUSABLE") /\ CloseHandle(t, c)
            /\ UNCHANGED <<vfs_ops, call, pc, alive>>
    /\ UNCHANGED <<mounts, files, sems, vfs_usable>>

\* Faulty: the halting thread is not told.
vfs_end_op_bug(t) ==
    /\ pc[t] = "end" /\ op_sem = NULL
    /\ vfs_ops' = vfs_ops - 1
    /\ IF call[t].op = "open" /\ ret[t] = "VFS_OK"
       THEN handles' = [handles EXCEPT ![t] = @ \cup {call[t].file}]
       ELSE CloseHandle(t, call[t])
    /\ call' = [call EXCEPT ![t] = NoCall]
    /\ Goto(t, "idle")
    /\ UNCHANGED <<mounts, files, sems, vfs_usable, ret, alive>>

\* The call's end, with what the system call then does to the handles.
vfs_end_op(t) ==
    /\ pc[t] = "end" /\ op_sem = NULL
    /\ vfs_ops' = vfs_ops - 1
    /\ unmount_sem' = IF ~vfs_usable /\ vfs_ops' = 0 THEN unmount_sem + 1
                      ELSE unmount_sem
    /\ IF call[t].op = "open" /\ ret[t] = "VFS_OK"
       THEN handles' = [handles EXCEPT ![t] = @ \cup {call[t].file}]
       ELSE CloseHandle(t, call[t])
    /\ call' = [call EXCEPT ![t] = NoCall]
    /\ Goto(t, "idle")
    /\ UNCHANGED <<mounts, files, table_sem, openfile_sem, op_sem, vfs_usable,
                   ret, alive>>

\* Return without vfs_end_op, as seek, read, write and close do on an error.
ReturnAtOnce(t) ==
    /\ Return(t, "VFS_ERROR") /\ Goto(t, "idle")
    /\ call' = [call EXCEPT ![t] = NoCall]
    /\ CloseHandle(t, call[t])
-----------------------------------------------------------------------------
(* Calls that use the table of mounted filesystems.                        *)

\* vfs_create, vfs_remove and vfs_getfree keep table_sem while the filesystem
\* works.
name_lookup(t) ==
    LET fs == vfs_get_filesystem(call[t].name) IN
    /\ pc[t] = "table" /\ call[t].op \in {"create", "remove", "getfree"}
    /\ table_sem = NULL
    /\ IF fs = NULL
       THEN /\ Return(t, "VFS_NO_SUCH_FS") /\ Goto(t, "end")
            /\ UNCHANGED <<table_sem, call>>
       ELSE /\ table_sem' = t /\ Goto(t, "in_fs")
            /\ call' = [call EXCEPT ![t].fs = fs] /\ UNCHANGED ret
    /\ UNCHANGED <<mounts, files, openfile_sem, op_sem, unmount_sem, vfs_ops,
                   vfs_usable, handles, alive>>

FreeRows == {r \in Rows : filesystem[r] = NULL}

vfs_mount(t) ==
    LET n == call[t].name IN
    /\ pc[t] = "table" /\ call[t].op = "mount" /\ table_sem = NULL
    /\ IF FreeRows = {} \/ RowsNamed(n) # {}
       THEN /\ Return(t, IF FreeRows = {} THEN "VFS_LIMIT" ELSE "VFS_ERROR")
            /\ alive' = alive \ {call[t].fs}
            /\ UNCHANGED mounts
       ELSE /\ filesystem' = [filesystem EXCEPT ![Smallest(FreeRows)] = call[t].fs]
            /\ mountpoint' = [mountpoint EXCEPT ![Smallest(FreeRows)] = n]
            /\ Return(t, "VFS_OK") /\ UNCHANGED alive
    /\ Goto(t, "end")
    /\ UNCHANGED <<files, sems, vfs_ops, vfs_usable, handles, call>>

vfs_unmount(t) ==
    LET fs == vfs_get_filesystem(call[t].name) IN
    /\ pc[t] = "table" /\ call[t].op = "unmount" /\ table_sem = NULL
    /\ IF fs = NULL
       THEN /\ Return(t, "VFS_NOT_FOUND") /\ Goto(t, "end")
            /\ UNCHANGED <<table_sem, call>>
       ELSE /\ table_sem' = t /\ Goto(t, "unmount")
            /\ call' = [call EXCEPT ![t].fs = fs] /\ UNCHANGED ret
    /\ UNCHANGED <<mounts, files, openfile_sem, op_sem, unmount_sem, vfs_ops,
                   vfs_usable, handles, alive>>

\* Faulty: open files are not looked for.
unmount_files_bug(t) ==
    /\ pc[t] = "unmount" /\ openfile_sem = NULL
    /\ openfile_sem' = t /\ Goto(t, "in_unmount")
    /\ UNCHANGED <<table_sem, ret, mounts, files, op_sem, unmount_sem, vfs_ops,
                   vfs_usable, handles, call, alive>>

unmount_files(t) ==
    /\ pc[t] = "unmount" /\ openfile_sem = NULL
    /\ IF \E f \in OpenFiles : files[f] = call[t].fs
       THEN /\ table_sem' = NULL /\ Return(t, "VFS_IN_USE") /\ Goto(t, "end")
            /\ UNCHANGED openfile_sem
       ELSE openfile_sem' = t /\ Goto(t, "in_unmount") /\ UNCHANGED <<table_sem, ret>>
    /\ UNCHANGED <<mounts, files, op_sem, unmount_sem, vfs_ops, vfs_usable,
                   handles, call, alive>>

\* fs->unmount returns; the row keeps its mountpoint.
unmount_end(t) ==
    /\ pc[t] = "in_unmount"
    /\ alive' = alive \ {call[t].fs}
    /\ filesystem' = [filesystem EXCEPT ![Smallest(RowsNamed(call[t].name))] = NULL]
    /\ openfile_sem' = NULL /\ table_sem' = NULL
    /\ Return(t, "VFS_OK") /\ Goto(t, "end")
    /\ UNCHANGED <<mountpoint, files, op_sem, unmount_sem, vfs_ops, vfs_usable,
                   handles, call>>

vfs_open(t) ==
    /\ pc[t] = "table" /\ call[t].op = "open" /\ table_sem = NULL
    /\ table_sem' = t
    /\ Goto(t, "open")
    /\ UNCHANGED <<mounts, files, openfile_sem, op_sem, unmount_sem, vfs_ops,
                   vfs_usable, handles, call, ret, alive>>

\* Faulty: the row is taken only when the filesystem has opened the file.
open_files_bug(t) ==
    LET free == {f \in OpenFiles : files[f] = NULL}
        fs == vfs_get_filesystem(call[t].name) IN
    /\ pc[t] = "open" /\ openfile_sem = NULL
    /\ table_sem' = NULL
    /\ IF free = {} \/ fs = NULL
       THEN /\ Return(t, IF free = {} THEN "VFS_LIMIT" ELSE "VFS_NO_SUCH_FS")
            /\ Goto(t, "end") /\ UNCHANGED call
       ELSE /\ call' = [call EXCEPT ![t].fs = fs, ![t].file = Smallest(free)]
            /\ Goto(t, "in_fs") /\ UNCHANGED ret
    /\ UNCHANGED <<files, mounts, openfile_sem, op_sem, unmount_sem, vfs_ops,
                   vfs_usable, handles, alive>>

\* Take a row of openfile_table.
open_files(t) ==
    LET free == {f \in OpenFiles : files[f] = NULL}
        fs == vfs_get_filesystem(call[t].name) IN
    /\ pc[t] = "open" /\ openfile_sem = NULL
    /\ table_sem' = NULL
    /\ IF free = {} \/ fs = NULL
       THEN /\ Return(t, IF free = {} THEN "VFS_LIMIT" ELSE "VFS_NO_SUCH_FS")
            /\ Goto(t, "end") /\ UNCHANGED <<files, call>>
       ELSE /\ files' = [files EXCEPT ![Smallest(free)] = fs]
            /\ call' = [call EXCEPT ![t].fs = fs, ![t].file = Smallest(free)]
            /\ Goto(t, "in_fs") /\ UNCHANGED ret
    /\ UNCHANGED <<mounts, openfile_sem, op_sem, unmount_sem, vfs_ops, vfs_usable,
                   handles, alive>>
-----------------------------------------------------------------------------
(* Calls on an open file.                                                  *)

vfs_close(t) ==
    LET f == call[t].file IN
    /\ pc[t] = "close" /\ openfile_sem = NULL
    /\ IF vfs_verify_open(f)
       THEN /\ openfile_sem' = t /\ Goto(t, "in_fs")
            /\ call' = [call EXCEPT ![t].fs = files[f]] /\ UNCHANGED <<ret, handles>>
       ELSE ReturnAtOnce(t) /\ UNCHANGED openfile_sem
    /\ UNCHANGED <<mounts, files, table_sem, op_sem, unmount_sem, vfs_ops,
                   vfs_usable, alive>>

\* Threads inside an operation, and operations that are counted but over.
Busy == {t \in Threads : pc[t] \notin {"idle", "halt_wait", "halt_op", "halt_table",
                                       "halt_files", "halted"}}
Lost == vfs_ops - Cardinality(Busy)

\* A negative position is an error before the semaphore is taken.
vfs_seek(t) ==
    /\ pc[t] = "seek"
    /\ \/ Lost < MaxLost /\ ReturnAtOnce(t)
       \/ /\ openfile_sem = NULL
          /\ IF vfs_verify_open(call[t].file)
             THEN Return(t, "VFS_OK") /\ Goto(t, "end") /\ UNCHANGED <<call, handles>>
             ELSE ReturnAtOnce(t)
    /\ UNCHANGED <<mounts, files, sems, vfs_ops, vfs_usable, alive>>

\* vfs_read and vfs_write look at the row without its semaphore.  For vfs_read a
\* negative size is an error: process_start passes the size that the program's
\* file gives.
vfs_read_write(t) ==
    LET f == call[t].file IN
    /\ pc[t] = "verify"
    /\ \/ /\ vfs_verify_open(f)
          /\ call' = [call EXCEPT ![t].fs = files[f]]
          /\ Goto(t, "in_fs") /\ UNCHANGED <<ret, handles>>
       \/ /\ ~vfs_verify_open(f) \/ (call[t].op = "read" /\ Lost < MaxLost)
          /\ ReturnAtOnce(t)
    /\ UNCHANGED <<mounts, files, sems, vfs_ops, vfs_usable, alive>>
-----------------------------------------------------------------------------
(* The filesystem returns from the call made to it.                        *)

\* A failed open gives its row back, and a read or write that moved data
\* updates the position: both take openfile_sem again.
fs_returns(t) ==
    LET op == call[t].op IN
    /\ pc[t] = "in_fs"
    /\ \E ok \in BOOLEAN :
        /\ Return(t, IF ok THEN "VFS_OK" ELSE "fs_error")
        /\ Goto(t, CASE op = "open" -> IF ok THEN "end" ELSE "open_undo"
                     [] op \in {"read", "write"} -> IF ok THEN "advance" ELSE "end"
                     [] OTHER -> "end")
    /\ table_sem' = IF op \in {"create", "remove", "getfree"} THEN NULL ELSE table_sem
    /\ openfile_sem' = IF op = "close" THEN NULL ELSE openfile_sem
    /\ files' = IF op = "close" THEN [files EXCEPT ![call[t].file] = NULL] ELSE files
    /\ UNCHANGED <<mounts, op_sem, unmount_sem, vfs_ops, vfs_usable, handles, call,
                   alive>>

open_undo(t) ==
    /\ pc[t] = "open_undo" /\ openfile_sem = NULL
    /\ files' = [files EXCEPT ![call[t].file] = NULL]
    /\ Goto(t, "end")
    /\ UNCHANGED <<mounts, sems, vfs_ops, vfs_usable, handles, call, ret, alive>>

advance(t) ==
    /\ pc[t] = "advance" /\ openfile_sem = NULL
    /\ Goto(t, "end")
    /\ UNCHANGED <<mounts, files, sems, vfs_ops, vfs_usable, handles, call, ret,
                   alive>>
-----------------------------------------------------------------------------
(* vfs_deinit, called to halt the system.                                  *)

vfs_deinit(t) ==
    /\ pc[t] = "idle" /\ "deinit" \in Calls[t] /\ op_sem = NULL
    /\ vfs_usable' = FALSE
    /\ IF vfs_ops > 0
       THEN Goto(t, "halt_wait") /\ UNCHANGED op_sem
       ELSE Goto(t, "halt_table") /\ op_sem' = t
    /\ UNCHANGED <<mounts, files, table_sem, openfile_sem, unmount_sem, vfs_ops,
                   handles, call, ret, alive>>

\* semaphore_P(vfs_unmount_sem).
deinit_wait(t) ==
    /\ pc[t] = "halt_wait" /\ unmount_sem > 0
    /\ unmount_sem' = unmount_sem - 1
    /\ Goto(t, "halt_op")
    /\ UNCHANGED <<mounts, files, table_sem, openfile_sem, op_sem, vfs_ops,
                   vfs_usable, handles, call, ret, alive>>

deinit_op(t) ==
    /\ pc[t] = "halt_op" /\ op_sem = NULL
    /\ op_sem' = t
    /\ Goto(t, "halt_table")
    /\ UNCHANGED <<mounts, files, table_sem, openfile_sem, unmount_sem, vfs_ops,
                   vfs_usable, handles, call, ret, alive>>

deinit_table(t) ==
    /\ pc[t] = "halt_table" /\ table_sem = NULL
    /\ table_sem' = t
    /\ Goto(t, "halt_files")
    /\ UNCHANGED <<mounts, files, openfile_sem, op_sem, unmount_sem, vfs_ops,
                   vfs_usable, handles, call, ret, alive>>

\* Unmount everything and give the semaphores back.
deinit_unmount(t) ==
    /\ pc[t] = "halt_files" /\ openfile_sem = NULL
    /\ alive' = alive \ {filesystem[r] : r \in Rows}
    /\ filesystem' = [r \in Rows |-> NULL]
    /\ table_sem' = NULL /\ op_sem' = NULL
    /\ Goto(t, "halted")
    /\ UNCHANGED <<mountpoint, files, openfile_sem, unmount_sem, vfs_ops,
                   vfs_usable, handles, call, ret>>
-----------------------------------------------------------------------------
\* vfs_init; the names of the rows are empty.
Init ==
    /\ filesystem = [r \in Rows |-> NULL] /\ mountpoint = [r \in Rows |-> NULL]
    /\ files = [f \in OpenFiles |-> NULL]
    /\ table_sem = NULL /\ openfile_sem = NULL /\ op_sem = NULL /\ unmount_sem = 0
    /\ vfs_ops = 0 /\ vfs_usable = TRUE
    /\ handles = [t \in Threads |-> {}]
    /\ pc = [t \in Threads |-> "idle"]
    /\ call = [t \in Threads |-> NoCall]
    /\ ret = [t \in Threads |-> "none"]
    /\ alive = {}

Proceed(t) ==
    \/ vfs_end_op(t) \/ name_lookup(t) \/ vfs_mount(t) \/ vfs_unmount(t)
    \/ unmount_files(t) \/ unmount_end(t) \/ vfs_open(t) \/ open_files(t)
    \/ vfs_close(t) \/ vfs_seek(t) \/ vfs_read_write(t) \/ fs_returns(t)
    \/ open_undo(t) \/ advance(t)
    \/ deinit_wait(t) \/ deinit_op(t) \/ deinit_table(t) \/ deinit_unmount(t)

Next ==
    \E t \in Threads : Proceed(t) \/ vfs_deinit(t) \/ \E c \in Inputs : vfs_start_op(t, c)

Spec == Init /\ [][Next]_vars

\* Semaphores serve their waiters in turn, and filesystems return.
FairSpec == Spec /\ \A t \in Threads : SF_vars(Proceed(t))
-----------------------------------------------------------------------------
Ops == {"none", "open", "close", "seek", "read", "write", "create", "remove",
        "getfree", "mount", "unmount"}
Requests == [op : Ops, name : Names \cup {NULL}, file : OpenFiles \cup {NULL},
             fs : Filesystems \cup {NULL}]
Points == {"idle", "end", "table", "open", "open_undo", "close", "seek", "verify",
        "advance", "in_fs", "unmount", "in_unmount",
        "halt_wait", "halt_op", "halt_table", "halt_files", "halted"}
Results == {"none", "VFS_OK", "VFS_UNUSABLE", "VFS_ERROR", "VFS_NO_SUCH_FS", "VFS_LIMIT",
            "VFS_NOT_FOUND", "VFS_IN_USE", "fs_error"}

\* Every variable has its type.
TypeOK ==
    /\ filesystem \in [Rows -> Filesystems \cup {NULL}]
    /\ mountpoint \in [Rows -> Names \cup {NULL}]
    /\ files \in [OpenFiles -> Filesystems \cup {NULL}]
    /\ {table_sem, openfile_sem, op_sem} \subseteq Threads \cup {NULL}
    /\ unmount_sem \in Nat /\ vfs_ops \in Nat /\ vfs_usable \in BOOLEAN
    /\ handles \in [Threads -> SUBSET OpenFiles]
    /\ pc \in [Threads -> Points]
    /\ call \in [Threads -> Requests]
    /\ ret \in [Threads -> Results]
    /\ alive \subseteq Filesystems

\* A filesystem is called only between its mount and its unmount: neither
\* vfs_unmount nor the forced unmount of vfs_deinit frees a filesystem that a
\* read, write, open, close, create, remove or getfree is inside of, although
\* these hold different semaphores, or none.  And the row of an open file keeps
\* its filesystem while its owner reads or writes through it.  vfs_deinit goes on
\* only when no operation is left: KERNEL_ASSERT(vfs_ops == 0).
CallsSafe ==
    \A t \in Threads :
        /\ pc[t] \in {"in_fs", "in_unmount"} => call[t].fs \in alive
        /\ (pc[t] \in {"in_fs", "advance"} /\ call[t].op \in {"read", "write"})
              => files[call[t].file] = call[t].fs
        /\ pc[t] \in {"halt_table", "halt_files", "halted"} => vfs_ops = 0 /\ Busy = {}

\* Rows a thread may use: its handles, without one it has just closed, and the
\* row it is opening.
Owned(t) ==
    {f \in OpenFiles :
        \/ f \in handles[t] /\ ~(pc[t] = "end" /\ call[t].op = "close" /\ call[t].file = f)
        \/ call[t].op = "open" /\ call[t].file = f /\ ret[t] # "fs_error"}

\* An open file has one owner: a row is in the handles of one process, or being
\* opened by one thread, and never both.  (And every variable has its type.)
HandlesExclusive ==
    /\ TypeOK
    /\ \A s, t \in Threads : s # t => Owned(s) \cap Owned(t) = {}

\* A call to halt, which waits for the operations under way, ends, unless an
\* operation was lost: a return that skips vfs_end_op leaves it in vfs_ops for ever.
HaltEnds ==
    \A t \in Threads :
        []<>(\/ pc[t] \notin {"halt_wait", "halt_op", "halt_table", "halt_files"}
             \/ Lost > 0)
=============================================================================
