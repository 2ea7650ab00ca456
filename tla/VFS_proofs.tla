----------------------------- MODULE VFS_proofs -----------------------------
(***************************************************************************)
(* The virtual filesystem and the file handles of processes, for any number *)
(* of threads, volumes and open files.                                      *)
(***************************************************************************)
EXTENDS VFS, TLAPS

NameOps == {"create", "remove", "getfree"}
FileOps == {"close", "seek", "read", "write"}
Outside == {"idle", "halt_wait", "halt_op", "halt_table", "halt_files", "halted"}
Halting == Outside \ {"idle"}

\* A thread at p, in call c with result r, and with handles h.
Stage(p, c, r, h) ==
    /\ p \in Outside <=> c.op = "none"
    /\ p \in {"unmount", "in_unmount"} => c.op = "unmount"
    /\ p = "in_fs" => c.op \in NameOps \cup {"open", "close", "read", "write"}
    /\ p = "close" => c.op = "close"
    /\ p = "seek" => c.op = "seek"
    /\ p \in {"verify", "advance"} => c.op \in {"read", "write"}
    /\ p \in {"open", "open_undo"} => c.op = "open"
    /\ c.op \in FileOps => c.file \in h
    /\ c.op = "open" => c.file \notin h
    /\ c.op = "open" =>
        \/ p \in {"table", "open"} /\ c.file = NULL
        \/ p = "in_fs" /\ c.file # NULL
        \/ p = "open_undo" /\ c.file # NULL /\ r = "fs_error"
        \/ p = "end" /\ c.file = NULL /\ r # "VFS_OK"
        \/ p = "end" /\ c.file # NULL /\ r \in {"VFS_OK", "fs_error"}

StageInv == \A t \in Threads : Stage(pc[t], call[t], ret[t], handles[t])

\* The semaphores that a thread has passed and not given back.
HasTable(p, op) ==
    p \in {"open", "unmount", "in_unmount", "halt_files"} \/ (p = "in_fs" /\ op \in NameOps)
HasFiles(p, op) == p = "in_unmount" \/ (p = "in_fs" /\ op = "close")

SemInv ==
    \A t \in Threads :
        /\ HasTable(pc[t], call[t].op) => table_sem = t
        /\ HasFiles(pc[t], call[t].op) => openfile_sem = t

\* vfs_deinit passes when no operation is left.
OpsInv ==
    /\ unmount_sem > 0 => ~vfs_usable /\ vfs_ops = 0
    /\ \A t \in Threads :
        /\ pc[t] \in Halting => ~vfs_usable
        /\ pc[t] \in Halting \ {"halt_wait"} => vfs_ops = 0

Mounted(fs) == \E r \in Rows : filesystem[r] = fs
Mounting(t) == pc[t] = "table" /\ call[t].op = "mount"

\* A mounted filesystem is alive and has one row; one that is being mounted has
\* none yet, and nobody else mounts it.
MountInv ==
    /\ \A r \in Rows : filesystem[r] # NULL => filesystem[r] \in alive
    /\ \A r, q \in Rows : filesystem[r] # NULL /\ filesystem[r] = filesystem[q] => r = q
    /\ \A t \in Threads : Mounting(t) =>
        /\ call[t].fs \in alive /\ ~Mounted(call[t].fs)
        /\ \A s \in Threads : Mounting(s) /\ call[s].fs = call[t].fs => s = t

\* What a thread with table_sem has found in the table stays there.
FoundInv ==
    \A t \in Threads :
        /\ pc[t] \in {"unmount", "in_unmount"} =>
            /\ call[t].fs # NULL /\ RowsNamed(call[t].name) # {}
            /\ filesystem[Smallest(RowsNamed(call[t].name))] = call[t].fs
        /\ pc[t] = "in_fs" /\ call[t].op \in NameOps => call[t].fs # NULL /\ Mounted(call[t].fs)

\* The rows that a thread alone may give back.
Held(t) ==
    {f \in OpenFiles :
        \/ f \in handles[t] /\ ~(pc[t] = "end" /\ call[t].op = "close" /\ call[t].file = f)
        \/ /\ call[t].op = "open" /\ call[t].file = f
           /\ pc[t] \in {"in_fs", "open_undo"} \/ (pc[t] = "end" /\ ret[t] = "VFS_OK")}

\* The filesystem of an open file is mounted, until vfs_deinit has unmounted all.
FileInv ==
    /\ vfs_usable \/ vfs_ops > 0 => \A f \in OpenFiles : files[f] # NULL => Mounted(files[f])
    /\ \A t \in Threads :
        /\ \A f \in Held(t) : files[f] # NULL
        /\ \A s \in Threads : s # t => Held(s) \cap Held(t) = {}
        /\ pc[t] \in {"in_fs", "advance"} /\ call[t].op \in FileOps \cup {"open"}
              => files[call[t].file] = call[t].fs
        /\ pc[t] = "in_unmount" => \A f \in OpenFiles : files[f] # call[t].fs

\* An operation under way is counted.
Counted == vfs_ops = 0 => Busy = {}
CountInv == IsFiniteSet(Busy) /\ Cardinality(Busy) <= vfs_ops

IInv == TypeOK /\ StageInv /\ SemInv /\ OpsInv /\ MountInv /\ FoundInv /\ FileInv

-----------------------------------------------------------------------------
\* A set of row numbers that is not empty has a smallest.
Least == \A S \in SUBSET Nat : S # {} => Smallest(S) \in S

\* How a step changes the operations under way, and their count.
Tally ==
    \E t \in Threads :
        \/ Busy' \subseteq Busy /\ vfs_ops' = vfs_ops
        \/ Busy' = Busy \cup {t} /\ vfs_ops' = vfs_ops + 1
        \/ t \in Busy /\ Busy' = Busy \ {t} /\ vfs_ops' = vfs_ops - 1

\* A step of t leaves what the other threads are doing.
Others(t) ==
    \A s \in Threads : s # t =>
        pc'[s] = pc[s] /\ call'[s] = call[s] /\ ret'[s] = ret[s] /\ handles'[s] = handles[s]

LEMMA CallFs ==
    ASSUME TypeOK, NEW t \in Threads, NEW fs \in Filesystems \cup {NULL},
           call' = [call EXCEPT ![t].fs = fs]
    PROVE  /\ call' \in [Threads -> Requests]
           /\ \A s \in Threads : s # t => call'[s] = call[s]
           /\ call'[t].fs = fs /\ call'[t].op = call[t].op
           /\ call'[t].name = call[t].name /\ call'[t].file = call[t].file
  BY DEF TypeOK, Requests

LEMMA CallOver ==
    ASSUME TypeOK, NEW t \in Threads, call' = [call EXCEPT ![t] = NoCall]
    PROVE  /\ call' \in [Threads -> Requests]
           /\ \A s \in Threads : s # t => call'[s] = call[s]
           /\ call'[t].fs = NULL /\ call'[t].op = "none"
           /\ call'[t].name = NULL /\ call'[t].file = NULL
<1>1. NoCall \in Requests
  BY DEF NoCall, Requests, Ops
<1>2. call'[t] = NoCall /\ \A s \in Threads : s # t => call'[s] = call[s]
  BY Zenon DEF TypeOK
<1>3. call' \in [Threads -> Requests]
  BY <1>1, Zenon DEF TypeOK
<1> QED  BY <1>2, <1>3 DEF NoCall

LEMMA StageStep ==
    ASSUME StageInv, NEW t \in Threads, Others(t), Stage(pc'[t], call'[t], ret'[t], handles'[t])
    PROVE  StageInv'
<1>1. ASSUME NEW s \in Threads PROVE Stage(pc'[s], call'[s], ret'[s], handles'[s])
  <2>1. CASE s = t
    BY <2>1, Zenon
  <2>2. CASE s # t
    <3>1. pc'[s] = pc[s] /\ call'[s] = call[s] /\ ret'[s] = ret[s] /\ handles'[s] = handles[s]
      BY <2>2, Zenon DEF Others
    <3>2. Stage(pc[s], call[s], ret[s], handles[s])
      BY Zenon DEF StageInv
    <3> QED  BY <3>1, <3>2, Zenon
  <2> QED  BY <2>1, <2>2, Zenon
<1> QED  BY <1>1, Zenon DEF StageInv

LEMMA SemStep ==
    ASSUME SemInv, VFSAssumption, NEW t \in Threads, Others(t),
           table_sem' = table_sem \/ table_sem = NULL \/ HasTable(pc[t], call[t].op),
           openfile_sem' = openfile_sem \/ openfile_sem = NULL \/ HasFiles(pc[t], call[t].op),
           HasTable(pc'[t], call'[t].op) => table_sem' = t,
           HasFiles(pc'[t], call'[t].op) => openfile_sem' = t
    PROVE  SemInv'
<1>1. \A s \in Threads : s # NULL
  BY Zenon DEF VFSAssumption
<1>2. ASSUME NEW s \in Threads
      PROVE  /\ HasTable(pc'[s], call'[s].op) => table_sem' = s
             /\ HasFiles(pc'[s], call'[s].op) => openfile_sem' = s
  <2>1. CASE s = t
    BY <2>1, Zenon
  <2>2. CASE s # t
    <3>1. pc'[s] = pc[s] /\ call'[s] = call[s]
      BY <2>2, Zenon DEF Others
    <3>2. /\ HasTable(pc[s], call[s].op) => table_sem = s
          /\ HasFiles(pc[s], call[s].op) => openfile_sem = s
          /\ HasTable(pc[t], call[t].op) => table_sem = t
          /\ HasFiles(pc[t], call[t].op) => openfile_sem = t
      BY Zenon DEF SemInv
    <3> QED  BY <1>1, <2>2, <3>1, <3>2, Zenon
  <2> QED  BY <2>1, <2>2, Zenon
<1> QED  BY <1>2, Zenon DEF SemInv

LEMMA OpsStep ==
    ASSUME OpsInv, NEW t \in Threads, Others(t), pc[t] \notin Outside,
           pc'[t] \notin Outside \/ pc'[t] = "idle",
           UNCHANGED <<vfs_ops, vfs_usable, unmount_sem>>
    PROVE  OpsInv' /\ Tally
<1>1. \A s \in Threads : pc'[s] \in Halting => pc[s] = pc'[s]
  BY Zenon DEF Others, Halting, Outside
<1>2. Busy' \subseteq Busy
  BY Zenon DEF Busy, Others, Outside
<1>3. (\A s \in Threads :
        /\ pc[s] \in Halting => ~vfs_usable
        /\ pc[s] \in Halting \ {"halt_wait"} => vfs_ops = 0)'
  BY <1>1, Zenon DEF OpsInv
<1>4. (unmount_sem > 0 => ~vfs_usable /\ vfs_ops = 0)'
  BY Zenon DEF OpsInv
<1> QED  BY <1>2, <1>3, <1>4, Zenon DEF OpsInv, Tally

LEMMA MountStep ==
    ASSUME MountInv, NEW t \in Threads, Others(t), UNCHANGED <<filesystem, alive>>,
           Mounting(t)' => Mounting(t) /\ call'[t].fs = call[t].fs
    PROVE  MountInv'
<1>1. \A s \in Threads : Mounting(s)' => Mounting(s) /\ call'[s].fs = call[s].fs
  BY Zenon DEF Others, Mounting
<1> QED  BY <1>1, Zenon DEF MountInv, Mounted

\* What FoundInv and FileInv say of one thread.
Found(t) ==
    /\ pc[t] \in {"unmount", "in_unmount"} =>
        /\ call[t].fs # NULL /\ RowsNamed(call[t].name) # {}
        /\ filesystem[Smallest(RowsNamed(call[t].name))] = call[t].fs
    /\ pc[t] = "in_fs" /\ call[t].op \in NameOps => call[t].fs # NULL /\ Mounted(call[t].fs)

UsesFile(t) ==
    /\ pc[t] \in {"in_fs", "advance"} /\ call[t].op \in FileOps \cup {"open"}
          => files[call[t].file] = call[t].fs
    /\ pc[t] = "in_unmount" => \A f \in OpenFiles : files[f] # call[t].fs

LEMMA FoundStep ==
    ASSUME FoundInv, NEW t \in Threads, Others(t), UNCHANGED <<filesystem, mountpoint>>, Found(t)'
    PROVE  FoundInv'
<1>1. ASSUME NEW s \in Threads, s # t PROVE Found(s)'
  <2>1. pc'[s] = pc[s] /\ call'[s] = call[s]
    BY <1>1, Zenon DEF Others
  <2>2. Found(s)
    BY Zenon DEF FoundInv, Found
  <2>3. RowsNamed(call[s].name)' = RowsNamed(call[s].name)
    BY <2>1, Zenon DEF RowsNamed
  <2> QED  BY <2>1, <2>2, <2>3, Zenon DEF Found, Mounted
<1> QED  BY <1>1, Zenon DEF FoundInv, Found

LEMMA HeldOthers ==
    ASSUME NEW t \in Threads, Others(t)
    PROVE  \A s \in Threads : s # t => Held(s)' = Held(s)
  BY Zenon DEF Others, Held

LEMMA FileStep ==
    ASSUME TypeOK, FileInv, NEW t \in Threads, Others(t), UNCHANGED <<filesystem, files>>,
           vfs_usable' \/ vfs_ops' > 0 => vfs_usable \/ vfs_ops > 0,
           Held(t)' \subseteq Held(t), UsesFile(t)'
    PROVE  FileInv'
<1>1. (vfs_usable \/ vfs_ops > 0 => \A f \in OpenFiles : files[f] # NULL => Mounted(files[f]))'
  BY Zenon DEF FileInv, Mounted
<1>2. \A s \in Threads : Held(s)' \subseteq Held(s)
  BY HeldOthers, Zenon
<1>3. \A s \in Threads : \A f \in Held(s)' : files'[f] # NULL
  BY <1>2, Zenon DEF FileInv
<1>4. \A s, r \in Threads : s # r => Held(s)' \cap Held(r)' = {}
  BY <1>2, Zenon DEF FileInv
<1>5. ASSUME NEW s \in Threads PROVE UsesFile(s)'
  <2>1. CASE s # t
    <3>1. pc'[s] = pc[s] /\ call'[s] = call[s]
      BY <2>1, Zenon DEF Others
    <3>2. UsesFile(s)
      BY Zenon DEF FileInv, UsesFile
    <3> QED  BY <3>1, <3>2, Zenon DEF UsesFile
  <2> QED  BY <2>1, Zenon
<1> QED  BY <1>1, <1>3, <1>4, <1>5, Zenon DEF FileInv, UsesFile

\* A step of t inside a call that changes neither the tables nor the counts.
LEMMA CalmStep ==
    ASSUME VFSAssumption, IInv, TypeOK', NEW t \in Threads, Others(t),
           UNCHANGED <<filesystem, mountpoint, files, vfs_ops, vfs_usable, unmount_sem, alive>>,
           pc[t] \notin Outside, pc'[t] \notin Outside \cup {"table"} \/ pc'[t] = "idle",
           Stage(pc'[t], call'[t], ret'[t], handles'[t]),
           table_sem' = table_sem \/ table_sem = NULL \/ HasTable(pc[t], call[t].op),
           openfile_sem' = openfile_sem \/ openfile_sem = NULL \/ HasFiles(pc[t], call[t].op),
           HasTable(pc'[t], call'[t].op) => table_sem' = t,
           HasFiles(pc'[t], call'[t].op) => openfile_sem' = t,
           Found(t)', Held(t)' \subseteq Held(t), UsesFile(t)'
    PROVE  IInv' /\ Tally
<1>1. StageInv'
  BY StageStep, Zenon DEF IInv
<1>2. SemInv'
  BY SemStep, Zenon DEF IInv
<1>3. OpsInv' /\ Tally
  <2>1. pc'[t] \notin Outside \/ pc'[t] = "idle"
    BY Zenon
  <2> QED  BY <2>1, OpsStep, Zenon DEF IInv
<1>4. MountInv'
  <2>1. ~Mounting(t)'
    BY Zenon DEF Mounting
  <2> QED  BY <2>1, MountStep, Zenon DEF IInv
<1>5. FoundInv'
  BY FoundStep, Zenon DEF IInv
<1>6. FileInv'
  <2>1. vfs_usable' \/ vfs_ops' > 0 => vfs_usable \/ vfs_ops > 0
    BY Zenon
  <2> QED  BY <2>1, FileStep, Zenon DEF IInv
<1> QED  BY <1>1, <1>2, <1>3, <1>4, <1>5, <1>6, Zenon DEF IInv

LEMMA GotoStep ==
    ASSUME TypeOK, NEW t \in Threads, NEW p \in Points, Goto(t, p)
    PROVE  pc' \in [Threads -> Points] /\ pc'[t] = p /\ \A s \in Threads : s # t => pc'[s] = pc[s]
  BY Zenon DEF TypeOK, Goto

LEMMA ReturnStep ==
    ASSUME TypeOK, NEW t \in Threads, NEW r \in Results, Return(t, r)
    PROVE  ret' \in [Threads -> Results] /\ ret'[t] = r /\ \A s \in Threads : s # t => ret'[s] = ret[s]
  BY Zenon DEF TypeOK, Return

LEMMA CloseStep ==
    ASSUME TypeOK, NEW t \in Threads, NEW c, CloseHandle(t, c)
    PROVE  /\ handles' \in [Threads -> SUBSET OpenFiles] /\ handles'[t] \subseteq handles[t]
           /\ \A s \in Threads : s # t => handles'[s] = handles[s]
<1>1. handles \in [Threads -> SUBSET OpenFiles]
  BY Zenon DEF TypeOK
<1>2. CASE c.op = "close"
  <2>1. handles' = [handles EXCEPT ![t] = handles[t] \ {c.file}]
    BY <1>2, Zenon DEF CloseHandle
  <2>2. handles[t] \ {c.file} \in SUBSET OpenFiles
    BY <1>1, Zenon
  <2> QED  BY <1>1, <2>1, <2>2, Zenon
<1>3. CASE c.op # "close"
  <2>1. handles' = handles
    BY <1>3, Zenon DEF CloseHandle
  <2> QED  BY <1>1, <2>1, Zenon
<1> QED  BY <1>2, <1>3, Zenon

LEMMA GetFilesystem ==
    ASSUME VFSAssumption, Least, TypeOK, NEW n
    PROVE  /\ vfs_get_filesystem(n) \in Filesystems \cup {NULL}
           /\ vfs_get_filesystem(n) # NULL =>
                /\ RowsNamed(n) # {} /\ Smallest(RowsNamed(n)) \in RowsNamed(n)
                /\ Smallest(RowsNamed(n)) \in Rows
                /\ filesystem[Smallest(RowsNamed(n))] = vfs_get_filesystem(n)
<1>1. RowsNamed(n) \subseteq Rows /\ RowsNamed(n) \subseteq Nat
  BY Zenon DEF RowsNamed, VFSAssumption
<1>2. CASE RowsNamed(n) = {}
  BY <1>2, Zenon DEF vfs_get_filesystem
<1>3. CASE RowsNamed(n) # {}
  <2>1. Smallest(RowsNamed(n)) \in RowsNamed(n)
    BY <1>1, <1>3, Zenon DEF Least
  <2> QED  BY <1>1, <1>3, <2>1, Zenon DEF vfs_get_filesystem, TypeOK
<1> QED  BY <1>2, <1>3, Zenon

LEMMA InitInv == VFSAssumption /\ Init => IInv
<1> SUFFICES ASSUME VFSAssumption, Init PROVE IInv
  BY Zenon
<1>0. \A t \in Threads : call[t].op = "none" /\ call[t].fs = NULL /\ call[t].file = NULL /\ pc[t] = "idle"
  BY DEF Init, NoCall
<1>1. TypeOK
  <2>1. NoCall \in Requests
    BY DEF NoCall, Requests, Ops
  <2> QED  BY <2>1 DEF Init, TypeOK, Points, Results
<1>2. StageInv
  BY <1>0 DEF StageInv, Stage, Outside, FileOps
<1>3. SemInv
  BY <1>0 DEF SemInv, HasTable, HasFiles
<1>4. OpsInv
  <2>1. \A t \in Threads : pc[t] \notin Halting
    BY <1>0 DEF Halting
  <2>2. ~(unmount_sem > 0)
    BY DEF Init
  <2> QED  BY <2>1, <2>2, Zenon DEF OpsInv
<1>5. MountInv
  BY <1>0 DEF MountInv, Mounting, Init
<1>6. FoundInv
  BY <1>0 DEF FoundInv
<1>7. FileInv
  BY <1>0 DEF FileInv, Held, Init
<1> QED  BY <1>1, <1>2, <1>3, <1>4, <1>5, <1>6, <1>7, Zenon DEF IInv

-----------------------------------------------------------------------------
LEMMA name_lookup_Inv ==
    ASSUME VFSAssumption, Least, IInv, NEW t \in Threads, name_lookup(t)
    PROVE  IInv' /\ Tally
<1>0. PICK fs : fs = vfs_get_filesystem(call[t].name)
  BY Zenon
<1>1. /\ TypeOK /\ Stage(pc[t], call[t], ret[t], handles[t])
      /\ pc[t] = "table" /\ call[t].op \in NameOps /\ table_sem = NULL
      /\ UNCHANGED <<filesystem, mountpoint, files, openfile_sem, op_sem, unmount_sem, vfs_ops,
                     vfs_usable, handles, alive>>
  BY Zenon DEF IInv, StageInv, name_lookup, mounts, NameOps
<1>2. CASE fs = NULL
  <2>1. Return(t, "VFS_NO_SUCH_FS") /\ Goto(t, "end") /\ UNCHANGED <<table_sem, call>>
    BY <1>0, <1>2, Zenon DEF name_lookup
  <2>2. pc' \in [Threads -> Points] /\ pc'[t] = "end" /\ \A s \in Threads : s # t => pc'[s] = pc[s]
    BY <1>1, <2>1, GotoStep, Zenon DEF Points
  <2>3. /\ ret' \in [Threads -> Results] /\ ret'[t] = "VFS_NO_SUCH_FS"
        /\ \A s \in Threads : s # t => ret'[s] = ret[s]
    BY <1>1, <2>1, ReturnStep, Zenon DEF Results
  <2>4. TypeOK' /\ Others(t)
    BY <1>1, <2>1, <2>2, <2>3, Zenon DEF TypeOK, Others
  <2>5. Stage(pc'[t], call'[t], ret'[t], handles'[t])
    BY <1>1, <2>1, <2>2, <2>3 DEF Stage, Outside, FileOps, NameOps
  <2>6. Held(t)' \subseteq Held(t) /\ Found(t)' /\ UsesFile(t)'
    BY <1>1, <2>1, <2>2, <2>3 DEF Held, Found, UsesFile, NameOps
  <2>7. ~HasTable(pc'[t], call'[t].op) /\ ~HasFiles(pc'[t], call'[t].op)
    BY <2>2, Zenon DEF HasTable, HasFiles
  <2>8. pc[t] \notin Outside /\ pc'[t] \notin Outside \cup {"table"}
    BY <1>1, <2>2 DEF Outside
  <2> QED  BY <1>1, <2>1, <2>4, <2>5, <2>6, <2>7, <2>8, CalmStep, Zenon
<1>3. CASE fs # NULL
  <2>1. /\ table_sem' = t /\ Goto(t, "in_fs") /\ ret' = ret
        /\ call' = [call EXCEPT ![t].fs = fs]
    BY <1>0, <1>3, Zenon DEF name_lookup
  <2>2. pc' \in [Threads -> Points] /\ pc'[t] = "in_fs" /\ \A s \in Threads : s # t => pc'[s] = pc[s]
    BY <1>1, <2>1, GotoStep, Zenon DEF Points
  <2>3. fs \in Filesystems \cup {NULL} /\ Smallest(RowsNamed(call[t].name)) \in Rows
        /\ filesystem[Smallest(RowsNamed(call[t].name))] = fs
    BY <1>0, <1>1, <1>3, GetFilesystem, Zenon
  <2>4. /\ call' \in [Threads -> Requests]
        /\ \A s \in Threads : s # t => call'[s] = call[s]
        /\ call'[t].fs = fs /\ call'[t].op = call[t].op
        /\ call'[t].name = call[t].name /\ call'[t].file = call[t].file
    BY <1>1, <2>1, <2>3, CallFs, Zenon
  <2>5. TypeOK' /\ Others(t)
    BY <1>1, <2>1, <2>2, <2>4, ZenonT(60) DEF TypeOK, Others
  <2>6. Stage(pc'[t], call'[t], ret'[t], handles'[t])
    BY <1>1, <2>1, <2>2, <2>4 DEF Stage, Outside, FileOps, NameOps
  <2>7. Held(t)' \subseteq Held(t) /\ UsesFile(t)'
    BY <1>1, <2>1, <2>2, <2>4 DEF Held, UsesFile, NameOps, FileOps
  <2>8. Found(t)'
    <3>1. \E r \in Rows : filesystem'[r] = fs
      BY <1>1, <2>3, Zenon
    <3> QED  BY <1>3, <2>2, <2>4, <3>1 DEF Found, Mounted
  <2>9. ~HasFiles(pc'[t], call'[t].op)
    BY <1>1, <2>2, <2>4 DEF HasFiles, NameOps
  <2>10. pc[t] \notin Outside /\ pc'[t] \notin Outside \cup {"table"}
    BY <1>1, <2>2 DEF Outside
  <2> QED  BY <1>1, <2>1, <2>5, <2>6, <2>7, <2>8, <2>9, <2>10, CalmStep, Zenon
<1> QED  BY <1>2, <1>3, Zenon

LEMMA vfs_unmount_Inv ==
    ASSUME VFSAssumption, Least, IInv, NEW t \in Threads, vfs_unmount(t)
    PROVE  IInv' /\ Tally
<1>0. PICK fs : fs = vfs_get_filesystem(call[t].name)
  BY Zenon
<1>1. /\ TypeOK /\ Stage(pc[t], call[t], ret[t], handles[t])
      /\ pc[t] = "table" /\ call[t].op = "unmount" /\ table_sem = NULL
      /\ UNCHANGED <<filesystem, mountpoint, files, openfile_sem, op_sem, unmount_sem, vfs_ops,
                     vfs_usable, handles, alive>>
  BY Zenon DEF IInv, StageInv, vfs_unmount, mounts
<1>2. CASE fs = NULL
  <2>1. Return(t, "VFS_NOT_FOUND") /\ Goto(t, "end") /\ UNCHANGED <<table_sem, call>>
    BY <1>0, <1>2, Zenon DEF vfs_unmount
  <2>2. pc' \in [Threads -> Points] /\ pc'[t] = "end" /\ \A s \in Threads : s # t => pc'[s] = pc[s]
    BY <1>1, <2>1, GotoStep, Zenon DEF Points
  <2>3. /\ ret' \in [Threads -> Results] /\ ret'[t] = "VFS_NOT_FOUND"
        /\ \A s \in Threads : s # t => ret'[s] = ret[s]
    BY <1>1, <2>1, ReturnStep, Zenon DEF Results
  <2>4. TypeOK' /\ Others(t)
    BY <1>1, <2>1, <2>2, <2>3, Zenon DEF TypeOK, Others
  <2>5. Stage(pc'[t], call'[t], ret'[t], handles'[t])
    BY <1>1, <2>1, <2>2, <2>3 DEF Stage, Outside, FileOps
  <2>6. Held(t)' \subseteq Held(t) /\ Found(t)' /\ UsesFile(t)'
    BY <1>1, <2>1, <2>2, <2>3 DEF Held, Found, UsesFile
  <2>7. ~HasTable(pc'[t], call'[t].op) /\ ~HasFiles(pc'[t], call'[t].op)
    BY <2>2, Zenon DEF HasTable, HasFiles
  <2>8. pc[t] \notin Outside /\ pc'[t] \notin Outside \cup {"table"}
    BY <1>1, <2>2 DEF Outside
  <2> QED  BY <1>1, <2>1, <2>4, <2>5, <2>6, <2>7, <2>8, CalmStep, Zenon
<1>3. CASE fs # NULL
  <2>1. /\ table_sem' = t /\ Goto(t, "unmount") /\ ret' = ret
        /\ call' = [call EXCEPT ![t].fs = fs]
    BY <1>0, <1>3, Zenon DEF vfs_unmount
  <2>2. pc' \in [Threads -> Points] /\ pc'[t] = "unmount" /\ \A s \in Threads : s # t => pc'[s] = pc[s]
    BY <1>1, <2>1, GotoStep, Zenon DEF Points
  <2>3. /\ fs \in Filesystems \cup {NULL} /\ RowsNamed(call[t].name) # {}
        /\ filesystem[Smallest(RowsNamed(call[t].name))] = fs
    BY <1>0, <1>1, <1>3, GetFilesystem, Zenon
  <2>4. /\ call' \in [Threads -> Requests]
        /\ \A s \in Threads : s # t => call'[s] = call[s]
        /\ call'[t].fs = fs /\ call'[t].op = call[t].op
        /\ call'[t].name = call[t].name /\ call'[t].file = call[t].file
    BY <1>1, <2>1, <2>3, CallFs, Zenon
  <2>5. TypeOK' /\ Others(t)
    BY <1>1, <2>1, <2>2, <2>4, ZenonT(60) DEF TypeOK, Others
  <2>6. Stage(pc'[t], call'[t], ret'[t], handles'[t])
    BY <1>1, <2>1, <2>2, <2>4 DEF Stage, Outside, FileOps
  <2>7. Held(t)' \subseteq Held(t) /\ UsesFile(t)'
    BY <1>1, <2>1, <2>2, <2>4 DEF Held, UsesFile
  <2>8. Found(t)'
    <3>1. RowsNamed(call[t].name)' = RowsNamed(call[t].name)
      BY <1>1, <2>4, Zenon DEF RowsNamed
    <3>2. pc'[t] # "in_fs"
      BY <2>2
    <3> QED  BY <1>1, <1>3, <2>3, <2>4, <3>1, <3>2, Zenon DEF Found
  <2>9. ~HasFiles(pc'[t], call'[t].op)
    BY <2>2, Zenon DEF HasFiles
  <2>10. pc[t] \notin Outside /\ pc'[t] \notin Outside \cup {"table"}
    BY <1>1, <2>2 DEF Outside
  <2> QED  BY <1>1, <2>1, <2>5, <2>6, <2>7, <2>8, <2>9, <2>10, CalmStep, Zenon
<1> QED  BY <1>2, <1>3, Zenon

LEMMA unmount_files_Inv ==
    ASSUME VFSAssumption, IInv, NEW t \in Threads, unmount_files(t)
    PROVE  IInv' /\ Tally
<1>1. /\ TypeOK /\ Stage(pc[t], call[t], ret[t], handles[t])
      /\ pc[t] = "unmount" /\ openfile_sem = NULL /\ call[t].op = "unmount"
      /\ UNCHANGED <<filesystem, mountpoint, files, op_sem, unmount_sem, vfs_ops,
                     vfs_usable, handles, call, alive>>
  BY Zenon DEF IInv, StageInv, Stage, unmount_files, mounts
<1>2. table_sem = t
  BY <1>1, Zenon DEF IInv, SemInv, HasTable
<1>3. CASE \E f \in OpenFiles : files[f] = call[t].fs
  <2>1. Return(t, "VFS_IN_USE") /\ Goto(t, "end") /\ table_sem' = NULL /\ openfile_sem' = openfile_sem
    BY <1>3, Zenon DEF unmount_files
  <2>2. pc' \in [Threads -> Points] /\ pc'[t] = "end" /\ \A s \in Threads : s # t => pc'[s] = pc[s]
    BY <1>1, <2>1, GotoStep, Zenon DEF Points
  <2>3. /\ ret' \in [Threads -> Results] /\ ret'[t] = "VFS_IN_USE"
        /\ \A s \in Threads : s # t => ret'[s] = ret[s]
    BY <1>1, <2>1, ReturnStep, Zenon DEF Results
  <2>4. TypeOK' /\ Others(t)
    BY <1>1, <2>1, <2>2, <2>3, Zenon DEF TypeOK, Others
  <2>5. Stage(pc'[t], call'[t], ret'[t], handles'[t])
    BY <1>1, <2>1, <2>2, <2>3 DEF Stage, Outside, FileOps
  <2>6. Held(t)' \subseteq Held(t) /\ Found(t)' /\ UsesFile(t)'
    BY <1>1, <2>1, <2>2, <2>3 DEF Held, Found, UsesFile
  <2>7. ~HasTable(pc'[t], call'[t].op) /\ ~HasFiles(pc'[t], call'[t].op)
    BY <2>2, Zenon DEF HasTable, HasFiles
  <2>8. pc[t] \notin Outside /\ pc'[t] \notin Outside \cup {"table"} /\ HasTable(pc[t], call[t].op)
    BY <1>1, <2>2 DEF Outside, HasTable
  <2> QED  BY <1>1, <2>1, <2>4, <2>5, <2>6, <2>7, <2>8, CalmStep, Zenon
<1>4. CASE ~\E f \in OpenFiles : files[f] = call[t].fs
  <2>1. Goto(t, "in_unmount") /\ openfile_sem' = t /\ UNCHANGED <<table_sem, ret>>
    BY <1>4, Zenon DEF unmount_files
  <2>2. pc' \in [Threads -> Points] /\ pc'[t] = "in_unmount" /\ \A s \in Threads : s # t => pc'[s] = pc[s]
    BY <1>1, <2>1, GotoStep, Zenon DEF Points
  <2>4. TypeOK' /\ Others(t)
    BY <1>1, <2>1, <2>2, Zenon DEF TypeOK, Others
  <2>5. Stage(pc'[t], call'[t], ret'[t], handles'[t])
    BY <1>1, <2>1, <2>2 DEF Stage, Outside, FileOps
  <2>6. Held(t)' \subseteq Held(t)
    BY <1>1, <2>1, <2>2 DEF Held
  <2>7. UsesFile(t)'
    BY <1>1, <1>4, <2>2 DEF UsesFile
  <2>8. Found(t)'
    <3>1. Found(t)
      BY Zenon DEF IInv, FoundInv, Found
    <3>2. RowsNamed(call[t].name)' = RowsNamed(call[t].name)
      BY <1>1, Zenon DEF RowsNamed
    <3>3. pc'[t] # "in_fs"
      BY <2>2
    <3> QED  BY <1>1, <3>1, <3>2, <3>3, Zenon DEF Found
  <2>9. pc[t] \notin Outside /\ pc'[t] \notin Outside \cup {"table"}
    BY <1>1, <2>2 DEF Outside
  <2> QED  BY <1>1, <1>2, <2>1, <2>4, <2>5, <2>6, <2>7, <2>8, <2>9, CalmStep, Zenon
<1> QED  BY <1>3, <1>4, Zenon

LEMMA vfs_open_Inv ==
    ASSUME VFSAssumption, IInv, NEW t \in Threads, vfs_open(t)
    PROVE  IInv' /\ Tally
<1>1. /\ TypeOK /\ Stage(pc[t], call[t], ret[t], handles[t])
      /\ pc[t] = "table" /\ call[t].op = "open" /\ table_sem = NULL /\ table_sem' = t
      /\ Goto(t, "open")
      /\ UNCHANGED <<filesystem, mountpoint, files, openfile_sem, op_sem, unmount_sem, vfs_ops,
                     vfs_usable, handles, call, ret, alive>>
  BY Zenon DEF IInv, StageInv, vfs_open, mounts
<1>2. pc' \in [Threads -> Points] /\ pc'[t] = "open" /\ \A s \in Threads : s # t => pc'[s] = pc[s]
  BY <1>1, GotoStep, Zenon DEF Points
<1>3. TypeOK' /\ Others(t)
  BY <1>1, <1>2, Zenon DEF TypeOK, Others
<1>4. Stage(pc'[t], call'[t], ret'[t], handles'[t])
  BY <1>1, <1>2 DEF Stage, Outside, FileOps
<1>5. Held(t)' \subseteq Held(t) /\ Found(t)' /\ UsesFile(t)' /\ ~HasFiles(pc'[t], call'[t].op)
  BY <1>1, <1>2 DEF Held, Found, UsesFile, HasFiles
<1>6. pc[t] \notin Outside /\ pc'[t] \notin Outside \cup {"table"}
  BY <1>1, <1>2 DEF Outside
<1> QED  BY <1>1, <1>3, <1>4, <1>5, <1>6, CalmStep, Zenon

LEMMA GiveUp ==
    ASSUME VFSAssumption, IInv, NEW t \in Threads, pc[t] \in {"close", "seek", "verify"},
           ReturnAtOnce(t),
           UNCHANGED <<filesystem, mountpoint, files, table_sem, openfile_sem, op_sem,
                       unmount_sem, vfs_ops, vfs_usable, alive>>
    PROVE  IInv' /\ Tally
<1>0. TypeOK /\ CloseHandle(t, call[t])
  BY Zenon DEF IInv, ReturnAtOnce
<1>1. TypeOK /\ Return(t, "VFS_ERROR") /\ Goto(t, "idle") /\ call' = [call EXCEPT ![t] = NoCall]
  BY Zenon DEF IInv, ReturnAtOnce
<1>10. /\ handles' \in [Threads -> SUBSET OpenFiles] /\ handles'[t] \subseteq handles[t]
       /\ \A s \in Threads : s # t => handles'[s] = handles[s]
  BY <1>0, CloseStep, Zenon
<1>2. pc' \in [Threads -> Points] /\ pc'[t] = "idle" /\ \A s \in Threads : s # t => pc'[s] = pc[s]
  BY <1>1, GotoStep, Zenon DEF Points
<1>3. ret' \in [Threads -> Results] /\ \A s \in Threads : s # t => ret'[s] = ret[s]
  BY <1>1, ReturnStep, Zenon DEF Results
<1>4. /\ call' \in [Threads -> Requests]
      /\ \A s \in Threads : s # t => call'[s] = call[s]
      /\ call'[t].op = "none"
  BY <1>1, CallOver, Zenon
<1>5. TypeOK' /\ Others(t)
  BY <1>1, <1>2, <1>3, <1>4, <1>10, ZenonT(40) DEF TypeOK, Others
<1>6. Stage(pc'[t], call'[t], ret'[t], handles'[t])
  BY <1>2, <1>4 DEF Stage, Outside, FileOps
<1>7. Held(t)' \subseteq Held(t)
  BY <1>2, <1>4, <1>10 DEF Held
<1>8. Found(t)' /\ UsesFile(t)' /\ ~HasFiles(pc'[t], call'[t].op) /\ ~HasTable(pc'[t], call'[t].op)
  BY <1>2 DEF Found, UsesFile, HasFiles, HasTable
<1>9. pc[t] \notin Outside
  BY DEF Outside
<1> QED  BY <1>2, <1>5, <1>6, <1>7, <1>8, <1>9, CalmStep, Zenon

LEMMA OwnFile ==
    ASSUME IInv, NEW t \in Threads, call[t].op \in FileOps
    PROVE  /\ call[t].file \in handles[t] /\ call[t].file \in OpenFiles
           /\ files[call[t].file] \in Filesystems \cup {NULL}
<1>1. call[t].file \in handles[t]
  BY Zenon DEF IInv, StageInv, Stage
<1>2. call[t].file \in OpenFiles
  BY <1>1, Zenon DEF IInv, TypeOK
<1> QED  BY <1>1, <1>2, Zenon DEF IInv, TypeOK

LEMMA EnterFile ==
    ASSUME VFSAssumption, IInv, NEW t \in Threads,
           \/ pc[t] = "close" /\ openfile_sem = NULL /\ openfile_sem' = t
           \/ pc[t] = "verify" /\ openfile_sem' = openfile_sem,
           Goto(t, "in_fs"), call' = [call EXCEPT ![t].fs = files[call[t].file]],
           UNCHANGED <<filesystem, mountpoint, files, table_sem, op_sem, unmount_sem, vfs_ops,
                       vfs_usable, handles, ret, alive>>
    PROVE  IInv' /\ Tally
<1>1. TypeOK /\ Stage(pc[t], call[t], ret[t], handles[t])
  BY Zenon DEF IInv, StageInv
<1>2. /\ pc[t] = "close" => call[t].op = "close"
      /\ pc[t] = "verify" => call[t].op \in {"read", "write"}
  BY <1>1, Zenon DEF Stage
<1>3. call[t].op \in FileOps
  BY <1>2 DEF FileOps
<1>4. /\ call' \in [Threads -> Requests]
      /\ \A s \in Threads : s # t => call'[s] = call[s]
      /\ call'[t].fs = files[call[t].file] /\ call'[t].op = call[t].op
      /\ call'[t].file = call[t].file
  BY <1>1, <1>3, OwnFile, CallFs, Zenon
<1>5. pc' \in [Threads -> Points] /\ pc'[t] = "in_fs" /\ \A s \in Threads : s # t => pc'[s] = pc[s]
  BY <1>1, GotoStep, Zenon DEF Points
<1>6. TypeOK' /\ Others(t)
  <2>1. openfile_sem' \in Threads \cup {NULL}
    BY <1>1, Zenon DEF TypeOK
  <2>2. TypeOK'
    BY <1>1, <1>4, <1>5, <2>1, ZenonT(60) DEF TypeOK
  <2>3. Others(t)
    BY <1>1, <1>4, <1>5, <2>1, ZenonT(60) DEF Others
  <2> QED  BY <2>2, <2>3, Zenon
<1>7. Stage(pc'[t], call'[t], ret'[t], handles'[t])
  BY <1>1, <1>2, <1>4, <1>5 DEF Stage, Outside, FileOps
<1>8. Held(t)' \subseteq Held(t)
  BY <1>2, <1>4, <1>5 DEF Held
<1>9. Found(t)' /\ UsesFile(t)' /\ ~HasTable(pc'[t], call'[t].op)
  BY <1>3, <1>4, <1>5 DEF Found, UsesFile, HasTable, FileOps, NameOps
<1>10. /\ openfile_sem' = openfile_sem \/ openfile_sem = NULL
       /\ HasFiles(pc'[t], call'[t].op) => openfile_sem' = t
  BY <1>2, <1>4, <1>5 DEF HasFiles
<1>11. pc[t] \notin Outside /\ pc'[t] \notin Outside \cup {"table"}
  BY <1>5 DEF Outside
<1> QED  BY <1>6, <1>7, <1>8, <1>9, <1>10, <1>11, CalmStep, Zenon

LEMMA vfs_close_Inv ==
    ASSUME VFSAssumption, IInv, NEW t \in Threads, vfs_close(t)
    PROVE  IInv' /\ Tally
<1>1. /\ pc[t] = "close" /\ openfile_sem = NULL
      /\ UNCHANGED <<filesystem, mountpoint, files, table_sem, op_sem, unmount_sem, vfs_ops,
                     vfs_usable, alive>>
  BY Zenon DEF vfs_close, mounts
<1>2. CASE vfs_verify_open(call[t].file)
  BY <1>1, <1>2, EnterFile, Zenon DEF vfs_close
<1>3. CASE ~vfs_verify_open(call[t].file)
  BY <1>1, <1>3, GiveUp, Zenon DEF vfs_close
<1> QED  BY <1>2, <1>3, Zenon

LEMMA vfs_read_write_Inv ==
    ASSUME VFSAssumption, IInv, NEW t \in Threads, vfs_read_write(t)
    PROVE  IInv' /\ Tally
<1>1. /\ pc[t] = "verify"
      /\ UNCHANGED <<filesystem, mountpoint, files, table_sem, openfile_sem, op_sem,
                     unmount_sem, vfs_ops, vfs_usable, alive>>
  BY Zenon DEF vfs_read_write, mounts, sems
<1>2. CASE ReturnAtOnce(t)
  BY <1>1, <1>2, GiveUp, Zenon
<1>3. CASE ~ReturnAtOnce(t)
  BY <1>1, <1>3, EnterFile, Zenon DEF vfs_read_write
<1> QED  BY <1>2, <1>3, Zenon

\* To the end of a call on an open file, with the result r.
LEMMA FileDone ==
    ASSUME VFSAssumption, IInv, NEW t \in Threads, pc[t] \in {"seek", "advance"},
           Goto(t, "end"), NEW r \in Results, Return(t, r) \/ ret' = ret,
           UNCHANGED <<filesystem, mountpoint, files, table_sem, openfile_sem, op_sem,
                       unmount_sem, vfs_ops, vfs_usable, handles, call, alive>>
    PROVE  IInv' /\ Tally
<1>1. TypeOK /\ Stage(pc[t], call[t], ret[t], handles[t])
  BY Zenon DEF IInv, StageInv
<1>2. call[t].op \in {"seek", "read", "write"}
  BY <1>1 DEF Stage
<1>3. ret' \in [Threads -> Results] /\ \A s \in Threads : s # t => ret'[s] = ret[s]
  BY <1>1, ReturnStep, Zenon DEF TypeOK
<1>5. pc' \in [Threads -> Points] /\ pc'[t] = "end" /\ \A s \in Threads : s # t => pc'[s] = pc[s]
  BY <1>1, GotoStep, Zenon DEF Points
<1>6. TypeOK' /\ Others(t)
  BY <1>1, <1>3, <1>5, Zenon DEF TypeOK, Others
<1>7. Stage(pc'[t], call'[t], ret'[t], handles'[t])
  BY <1>1, <1>2, <1>5 DEF Stage, Outside, FileOps
<1>8. Held(t)' \subseteq Held(t)
  BY <1>2, <1>5 DEF Held
<1>9. Found(t)' /\ UsesFile(t)' /\ ~HasTable(pc'[t], call'[t].op) /\ ~HasFiles(pc'[t], call'[t].op)
  BY <1>5 DEF Found, UsesFile, HasTable, HasFiles
<1>11. pc[t] \notin Outside /\ pc'[t] \notin Outside \cup {"table"}
  BY <1>5 DEF Outside
<1> QED  BY <1>6, <1>7, <1>8, <1>9, <1>11, CalmStep, Zenon

LEMMA vfs_seek_Inv ==
    ASSUME VFSAssumption, IInv, NEW t \in Threads, vfs_seek(t)
    PROVE  IInv' /\ Tally
<1>1. /\ pc[t] = "seek"
      /\ UNCHANGED <<filesystem, mountpoint, files, table_sem, openfile_sem, op_sem,
                     unmount_sem, vfs_ops, vfs_usable, alive>>
  BY Zenon DEF vfs_seek, mounts, sems
<1>2. CASE ReturnAtOnce(t)
  BY <1>1, <1>2, GiveUp, Zenon
<1>3. CASE ~ReturnAtOnce(t)
  <2>1. Return(t, "VFS_OK") /\ Goto(t, "end") /\ UNCHANGED <<call, handles>>
    BY <1>3, Zenon DEF vfs_seek
  <2> QED  BY <1>1, <2>1, FileDone, Zenon DEF Results
<1> QED  BY <1>2, <1>3, Zenon

LEMMA advance_Inv ==
    ASSUME VFSAssumption, IInv, NEW t \in Threads, advance(t)
    PROVE  IInv' /\ Tally
<1>1. /\ pc[t] = "advance" /\ Goto(t, "end")
      /\ UNCHANGED <<filesystem, mountpoint, files, table_sem, openfile_sem, op_sem,
                     unmount_sem, vfs_ops, vfs_usable, handles, call, ret, alive>>
  BY Zenon DEF advance, mounts, sems
<1>2. "none" \in Results
  BY Zenon DEF Results
<1> QED  BY <1>1, <1>2, FileDone, Zenon

LEMMA HeldFile ==
    ASSUME VFSAssumption, IInv, NEW t \in Threads,
           \/ pc[t] \in {"in_fs", "advance"} /\ call[t].op \in FileOps \cup {"open"}
           \/ pc[t] = "open_undo"
    PROVE  call[t].file \in Held(t) /\ call[t].file \in OpenFiles
<1>1. TypeOK /\ Stage(pc[t], call[t], ret[t], handles[t])
  BY Zenon DEF IInv, StageInv
<1>2. CASE call[t].op \in FileOps
  <2>1. call[t].file \in handles[t] /\ call[t].file \in OpenFiles
    BY <1>2, OwnFile, Zenon
  <2>2. pc[t] # "end"
    OBVIOUS
  <2> QED  BY <2>1, <2>2, Zenon DEF Held
<1>3. CASE call[t].op \notin FileOps
  <2>1. call[t].op = "open"
    BY <1>1, <1>3 DEF Stage
  <2>2. pc[t] \in {"in_fs", "open_undo"} /\ call[t].file # NULL
    BY <1>1, <2>1 DEF Stage
  <2>3. call[t].file \in OpenFiles
    BY <1>1, <2>2 DEF TypeOK, Requests
  <2> QED  BY <2>1, <2>2, <2>3, Zenon DEF Held
<1> QED  BY <1>2, <1>3, Zenon

\* A step with which t gives its row of openfile_table back.
LEMMA FileFreed ==
    ASSUME VFSAssumption, IInv, NEW t \in Threads, Others(t), NEW f \in Held(t),
           files' = [files EXCEPT ![f] = NULL],
           UNCHANGED <<filesystem, vfs_usable, vfs_ops>>,
           Held(t)' \subseteq Held(t) \ {f}, pc'[t] = "end"
    PROVE  FileInv'
<1>1. \A g \in OpenFiles : /\ g # f => files'[g] = files[g]
                           /\ files'[g] # NULL => files'[g] = files[g]
  BY Zenon DEF IInv, TypeOK
<1>2. (vfs_usable \/ vfs_ops > 0 => \A g \in OpenFiles : files[g] # NULL => Mounted(files[g]))'
  BY <1>1, Zenon DEF IInv, FileInv, Mounted
<1>3. \A s \in Threads : Held(s)' \subseteq Held(s) /\ f \notin Held(s)'
  BY HeldOthers, Zenon DEF IInv, FileInv
<1>4. \A s \in Threads : Held(s) \subseteq OpenFiles
  BY Zenon DEF Held
<1>5. ASSUME NEW s \in Threads, NEW g \in Held(s)' PROVE files'[g] # NULL
  <2>1. g \in Held(s) /\ g # f /\ g \in OpenFiles
    BY <1>3, <1>4, <1>5, Zenon
  <2>2. files[g] # NULL
    BY <2>1, Zenon DEF IInv, FileInv
  <2> QED  BY <1>1, <2>1, <2>2, Zenon
<1>6. \A s, r \in Threads : s # r => Held(s)' \cap Held(r)' = {}
  BY <1>3, Zenon DEF IInv, FileInv
<1>7. ASSUME NEW s \in Threads PROVE UsesFile(s)'
  <2>1. CASE s # t
    <3>1. pc'[s] = pc[s] /\ call'[s] = call[s]
      BY <2>1, Zenon DEF Others
    <3>2. UsesFile(s)
      BY Zenon DEF IInv, FileInv, UsesFile
    <3>3. ASSUME pc[s] \in {"in_fs", "advance"}, call[s].op \in FileOps \cup {"open"}
          PROVE  files'[call[s].file] = call[s].fs
      <4>1. call[s].file \in Held(s) /\ call[s].file \in OpenFiles
        BY <3>3, HeldFile, Zenon
      <4>2. call[s].file # f
        BY <2>1, <4>1, Zenon DEF IInv, FileInv
      <4> QED  BY <1>1, <3>2, <3>3, <4>1, <4>2, Zenon DEF UsesFile
    <3>4. ASSUME pc[s] = "in_unmount" PROVE \A g \in OpenFiles : files'[g] # call[s].fs
      <4>1. call[s].fs # NULL
        BY <3>4, Zenon DEF IInv, FoundInv
      <4> QED  BY <1>1, <3>2, <3>4, <4>1, Zenon DEF UsesFile
    <3> QED  BY <3>1, <3>3, <3>4, Zenon DEF UsesFile
  <2>2. CASE s = t
    BY <2>2 DEF UsesFile
  <2> QED  BY <2>1, <2>2, Zenon
<1> QED  BY <1>2, <1>5, <1>6, <1>7, Zenon DEF FileInv, UsesFile

\* close gives a row back when the filesystem has returned, a failed open in
\* open_undo.
LEMMA FreedStep ==
    ASSUME VFSAssumption, IInv, NEW t \in Threads, NEW r \in Results,
           \/ /\ pc[t] = "in_fs" /\ call[t].op = "close"
              /\ openfile_sem' = NULL /\ Return(t, r)
           \/ pc[t] = "open_undo" /\ openfile_sem' = openfile_sem /\ ret' = ret,
           Goto(t, "end"), files' = [files EXCEPT ![call[t].file] = NULL],
           UNCHANGED <<filesystem, mountpoint, table_sem, op_sem, unmount_sem, vfs_ops,
                       vfs_usable, handles, call, alive>>
    PROVE  IInv' /\ Tally
<1>1. TypeOK /\ Stage(pc[t], call[t], ret[t], handles[t])
  BY Zenon DEF IInv, StageInv
<1>2. \/ pc[t] = "in_fs" /\ call[t].op = "close"
      \/ /\ pc[t] = "open_undo" /\ call[t].op = "open" /\ call[t].file # NULL
         /\ ret'[t] = "fs_error"
  BY <1>1 DEF Stage
<1>3. call[t].file \in Held(t) /\ call[t].file \in OpenFiles
  BY <1>2, HeldFile, Zenon DEF FileOps
<1>4. pc' \in [Threads -> Points] /\ pc'[t] = "end" /\ \A s \in Threads : s # t => pc'[s] = pc[s]
  BY <1>1, GotoStep, Zenon DEF Points
<1>5. ret' \in [Threads -> Results] /\ \A s \in Threads : s # t => ret'[s] = ret[s]
  BY <1>1, ReturnStep, Zenon DEF TypeOK
<1>6. TypeOK' /\ Others(t)
  <2>1. openfile_sem' \in Threads \cup {NULL}
    BY <1>1, Zenon DEF TypeOK
  <2>2. files' \in [OpenFiles -> Filesystems \cup {NULL}]
    BY <1>1, Zenon DEF TypeOK
  <2>3. TypeOK'
    BY <1>1, <1>4, <1>5, <2>1, <2>2, ZenonT(60) DEF TypeOK
  <2>4. Others(t)
    BY <1>4, <1>5, ZenonT(60) DEF Others
  <2> QED  BY <2>3, <2>4, Zenon
<1>7. StageInv'
  <2>1. Stage(pc'[t], call'[t], ret'[t], handles'[t])
    BY <1>1, <1>2, <1>4 DEF Stage, Outside, FileOps
  <2> QED  BY <1>6, <2>1, StageStep, Zenon DEF IInv
<1>8. SemInv'
  <2>1. openfile_sem' = openfile_sem \/ HasFiles(pc[t], call[t].op)
    BY Zenon DEF HasFiles
  <2>2. ~HasTable(pc'[t], call'[t].op) /\ ~HasFiles(pc'[t], call'[t].op)
    BY <1>4 DEF HasTable, HasFiles
  <2> QED  BY <1>6, <2>1, <2>2, SemStep, Zenon DEF IInv
<1>9. OpsInv' /\ Tally
  <2>1. pc[t] \notin Outside /\ pc'[t] \notin Outside
    BY <1>2, <1>4 DEF Outside
  <2> QED  BY <1>1, <1>6, <2>1, OpsStep, Zenon DEF IInv
<1>10. MountInv'
  <2>1. ~Mounting(t)'
    BY <1>4 DEF Mounting
  <2> QED  BY <1>6, <2>1, MountStep, Zenon DEF IInv
<1>11. FoundInv'
  <2>1. Found(t)'
    BY <1>4 DEF Found
  <2> QED  BY <1>6, <2>1, FoundStep, Zenon DEF IInv
<1>12. FileInv'
  <2>1. Held(t)' \subseteq Held(t) \ {call[t].file}
    <3>1. CASE call[t].op = "close"
      BY <1>2, <1>4, <3>1 DEF Held
    <3>2. CASE call[t].op = "open"
      <4>1. call[t].file \notin handles[t] /\ ret'[t] # "VFS_OK"
        BY <1>1, <1>2, <3>2 DEF Stage
      <4> QED  BY <1>2, <1>4, <3>2, <4>1 DEF Held
    <3> QED  BY <1>2, <3>1, <3>2, Zenon
  <2> QED  BY <1>3, <1>4, <1>6, <2>1, FileFreed, Zenon
<1> QED  BY <1>6, <1>7, <1>8, <1>9, <1>10, <1>11, <1>12, Zenon DEF IInv

LEMMA open_undo_Inv ==
    ASSUME VFSAssumption, IInv, NEW t \in Threads, open_undo(t)
    PROVE  IInv' /\ Tally
<1>1. /\ pc[t] = "open_undo" /\ Goto(t, "end")
      /\ files' = [files EXCEPT ![call[t].file] = NULL]
      /\ UNCHANGED <<filesystem, mountpoint, table_sem, openfile_sem, op_sem, unmount_sem,
                     vfs_ops, vfs_usable, handles, call, ret, alive>>
  BY Zenon DEF open_undo, mounts, sems
<1>2. "none" \in Results
  BY Zenon DEF Results
<1> QED  BY <1>1, <1>2, FreedStep, Zenon

LEMMA fs_returns_Inv ==
    ASSUME VFSAssumption, IInv, NEW t \in Threads, fs_returns(t)
    PROVE  IInv' /\ Tally
<1>1. /\ TypeOK /\ Stage(pc[t], call[t], ret[t], handles[t]) /\ pc[t] = "in_fs"
      /\ UNCHANGED <<filesystem, mountpoint, op_sem, unmount_sem, vfs_ops, vfs_usable,
                     handles, call, alive>>
  BY Zenon DEF IInv, StageInv, fs_returns, mounts
<1>2. call[t].op \in NameOps \cup {"open", "close", "read", "write"}
  BY <1>1, Zenon DEF Stage
<1>3. PICK p \in {"end", "open_undo", "advance"}, r \in {"VFS_OK", "fs_error"} :
        /\ Goto(t, p) /\ Return(t, r)
        /\ call[t].op = "open" => (p = "end" /\ r = "VFS_OK") \/ (p = "open_undo" /\ r = "fs_error")
        /\ call[t].op \in {"read", "write"} => p \in {"advance", "end"}
        /\ call[t].op \in NameOps \cup {"close"} => p = "end"
  <2>1. PICK ok \in BOOLEAN :
          /\ Return(t, IF ok THEN "VFS_OK" ELSE "fs_error")
          /\ Goto(t, CASE call[t].op = "open" -> IF ok THEN "end" ELSE "open_undo"
                       [] call[t].op \in {"read", "write"} -> IF ok THEN "advance" ELSE "end"
                       [] OTHER -> "end")
    BY Zenon DEF fs_returns
  <2>2. CASE call[t].op = "open"
    BY <2>1, <2>2 DEF NameOps
  <2>3. CASE call[t].op \in {"read", "write"}
    BY <2>1, <2>3 DEF NameOps
  <2>4. CASE call[t].op \in NameOps \cup {"close"}
    BY <2>1, <2>4 DEF NameOps
  <2> QED  BY <1>2, <2>2, <2>3, <2>4, Zenon
<1>4. CASE call[t].op = "close"
  <2>1. /\ openfile_sem' = NULL /\ files' = [files EXCEPT ![call[t].file] = NULL]
        /\ table_sem' = table_sem /\ p = "end" /\ r \in Results
    BY <1>3, <1>4 DEF fs_returns, Results
  <2> QED  BY <1>1, <1>3, <1>4, <2>1, FreedStep, Zenon
<1>5. CASE call[t].op # "close"
  <2>1. /\ openfile_sem' = openfile_sem /\ files' = files
        /\ (call[t].op \in NameOps /\ table_sem' = NULL) \/ table_sem' = table_sem
    BY <1>5, Zenon DEF fs_returns, NameOps
  <2>2. pc' \in [Threads -> Points] /\ pc'[t] = p /\ \A s \in Threads : s # t => pc'[s] = pc[s]
    BY <1>1, <1>3, GotoStep, Zenon DEF Points
  <2>3. /\ ret' \in [Threads -> Results] /\ ret'[t] = r
        /\ \A s \in Threads : s # t => ret'[s] = ret[s]
    BY <1>1, <1>3, ReturnStep, Zenon DEF Results
  <2>4. TypeOK' /\ Others(t)
    <3>1. table_sem' \in Threads \cup {NULL}
      BY <1>1, <2>1, Zenon DEF TypeOK
    <3> QED  BY <1>1, <2>1, <2>2, <2>3, <3>1, Zenon DEF TypeOK, Others
  <2>5. Stage(pc'[t], call'[t], ret'[t], handles'[t])
    BY <1>1, <1>2, <1>3, <2>2, <2>3 DEF Stage, Outside, FileOps, NameOps
  <2>6. Held(t)' \subseteq Held(t)
    BY <1>1, <1>5, <2>2 DEF Held
  <2>7. Found(t)' /\ ~HasTable(pc'[t], call'[t].op) /\ ~HasFiles(pc'[t], call'[t].op)
    BY <1>3, <2>2 DEF Found, HasTable, HasFiles
  <2>8. UsesFile(t)'
    <3>1. UsesFile(t)
      BY Zenon DEF IInv, FileInv, UsesFile
    <3> QED  BY <1>1, <1>3, <2>1, <2>2, <3>1 DEF UsesFile
  <2>9. pc[t] \notin Outside /\ pc'[t] \notin Outside \cup {"table"}
    BY <1>1, <1>3, <2>2 DEF Outside
  <2>10. table_sem' = table_sem \/ HasTable(pc[t], call[t].op)
    BY <1>1, <2>1, Zenon DEF HasTable
  <2> QED  BY <1>1, <2>1, <2>4, <2>5, <2>6, <2>7, <2>8, <2>9, <2>10, CalmStep, Zenon
<1> QED  BY <1>4, <1>5, Zenon

LEMMA CallOpen ==
    ASSUME call \in [Threads -> Requests], NEW t \in Threads,
           NEW fs \in Filesystems \cup {NULL}, NEW f \in OpenFiles,
           call' = [call EXCEPT ![t].fs = fs, ![t].file = f]
    PROVE  /\ call' \in [Threads -> Requests]
           /\ \A s \in Threads : s # t => call'[s] = call[s]
           /\ call'[t].fs = fs /\ call'[t].op = call[t].op /\ call'[t].file = f
  BY DEF Requests

\* A step with which t takes a free row of openfile_table.
LEMMA FileTaken ==
    ASSUME VFSAssumption, IInv, NEW t \in Threads, Others(t), openfile_sem = NULL,
           NEW f \in OpenFiles, files[f] = NULL, NEW fs, fs # NULL, Mounted(fs),
           files' = [files EXCEPT ![f] = fs],
           UNCHANGED <<filesystem, vfs_usable, vfs_ops>>,
           Held(t)' \subseteq Held(t) \cup {f}, pc'[t] = "in_fs",
           call'[t].file = f, call'[t].fs = fs
    PROVE  FileInv'
<1>1. files'[f] = fs /\ \A g \in OpenFiles : g # f => files'[g] = files[g]
  BY Zenon DEF IInv, TypeOK
<1>2. ASSUME vfs_usable' \/ vfs_ops' > 0, NEW g \in OpenFiles, files'[g] # NULL
      PROVE  Mounted(files[g])'
  <2>1. CASE g = f
    BY <1>1, <2>1, Zenon DEF Mounted
  <2>2. CASE g # f
    <3>1. files'[g] = files[g]
      BY <1>1, <2>2, Zenon
    <3>2. Mounted(files[g])
      BY <1>2, <3>1, Zenon DEF IInv, FileInv
    <3> QED  BY <3>1, <3>2, Zenon DEF Mounted
  <2> QED  BY <2>1, <2>2, Zenon
<1>3. \A s \in Threads : f \notin Held(s) /\ Held(s) \subseteq OpenFiles
  BY Zenon DEF IInv, FileInv, Held
<1>4. \A s \in Threads : s # t => Held(s)' = Held(s)
  BY HeldOthers, Zenon
<1>5. ASSUME NEW s \in Threads, NEW g \in Held(s)' PROVE files'[g] # NULL
  <2>1. CASE g = f
    BY <1>1, <2>1, Zenon
  <2>2. CASE g # f
    <3>1. g \in Held(s) /\ g \in OpenFiles
      BY <1>3, <1>4, <1>5, <2>2, Zenon
    <3>2. files[g] # NULL
      BY <3>1, Zenon DEF IInv, FileInv
    <3> QED  BY <1>1, <2>2, <3>1, <3>2, Zenon
  <2> QED  BY <2>1, <2>2, Zenon
<1>6. ASSUME NEW s \in Threads, NEW q \in Threads, s # q PROVE Held(s)' \cap Held(q)' = {}
  <2>0. \A u \in Threads : u # t => Held(t)' \cap Held(u)' = {}
    <3>1. ASSUME NEW u \in Threads, u # t PROVE Held(t)' \cap Held(u)' = {}
      <4>1. Held(u)' = Held(u) /\ f \notin Held(u) /\ Held(t) \cap Held(u) = {}
        BY <1>3, <1>4, <3>1, Zenon DEF IInv, FileInv
      <4> QED  BY <4>1, Zenon
    <3> QED  BY <3>1, Zenon
  <2>1. \A u, v \in Threads : u # v => Held(u) \cap Held(v) = {}
    BY Zenon DEF IInv, FileInv
  <2>2. CASE s = t
    BY <1>6, <2>0, <2>2, Zenon
  <2>3. CASE q = t
    BY <1>6, <2>0, <2>3, Zenon
  <2>4. CASE s # t /\ q # t
    <3>1. Held(q)' = Held(q) /\ Held(s)' = Held(s)
      BY <1>4, <2>4, Zenon
    <3> QED  BY <1>6, <2>1, <3>1, Zenon
  <2> QED  BY <2>2, <2>3, <2>4, Zenon
<1>7. ASSUME NEW s \in Threads PROVE UsesFile(s)'
  <2>1. CASE s # t
    <3>1. pc'[s] = pc[s] /\ call'[s] = call[s]
      BY <2>1, Zenon DEF Others
    <3>2. UsesFile(s)
      BY Zenon DEF IInv, FileInv, UsesFile
    <3>3. ASSUME pc[s] \in {"in_fs", "advance"}, call[s].op \in FileOps \cup {"open"}
          PROVE  files'[call[s].file] = call[s].fs
      <4>1. call[s].file \in Held(s) /\ call[s].file \in OpenFiles
        BY <3>3, HeldFile, Zenon
      <4>2. call[s].file # f
        BY <1>3, <4>1, Zenon
      <4> QED  BY <1>1, <3>2, <3>3, <4>1, <4>2, Zenon DEF UsesFile
    <3>4. pc[s] # "in_unmount"
      <4>1. HasFiles(pc[s], call[s].op) => openfile_sem = s
        BY Zenon DEF IInv, SemInv
      <4> QED  BY <4>1, Zenon DEF HasFiles, VFSAssumption
    <3> QED  BY <3>1, <3>3, <3>4, Zenon DEF UsesFile
  <2>2. CASE s = t
    BY <1>1, <2>2 DEF UsesFile
  <2> QED  BY <2>1, <2>2, Zenon
<1> QED  BY <1>2, <1>5, <1>6, <1>7, Zenon DEF FileInv, UsesFile

LEMMA open_files_Inv ==
    ASSUME VFSAssumption, Least, IInv, NEW t \in Threads, open_files(t)
    PROVE  IInv' /\ Tally
<1>0. PICK fs, free : /\ fs = vfs_get_filesystem(call[t].name)
                      /\ free = {f \in OpenFiles : files[f] = NULL}
  BY Zenon
<1>1. /\ TypeOK /\ Stage(pc[t], call[t], ret[t], handles[t])
      /\ pc[t] = "open" /\ openfile_sem = NULL /\ table_sem' = NULL
      /\ UNCHANGED <<filesystem, mountpoint, openfile_sem, op_sem, unmount_sem, vfs_ops,
                     vfs_usable, handles, alive>>
  BY Zenon DEF IInv, StageInv, open_files, mounts
<1>2. call[t].op = "open" /\ call[t].file = NULL /\ HasTable(pc[t], call[t].op)
      /\ pc[t] \notin Outside
  BY <1>1 DEF Stage, HasTable, Outside
<1>3. CASE free = {} \/ fs = NULL
  <2>1. PICK r \in {"VFS_LIMIT", "VFS_NO_SUCH_FS"} :
          Return(t, r) /\ Goto(t, "end") /\ UNCHANGED <<files, call>>
    BY <1>0, <1>3 DEF open_files
  <2>2. pc' \in [Threads -> Points] /\ pc'[t] = "end" /\ \A s \in Threads : s # t => pc'[s] = pc[s]
    BY <1>1, <2>1, GotoStep, Zenon DEF Points
  <2>3. /\ ret' \in [Threads -> Results] /\ ret'[t] = r
        /\ \A s \in Threads : s # t => ret'[s] = ret[s]
    BY <1>1, <2>1, ReturnStep, Zenon DEF Results
  <2>4. TypeOK' /\ Others(t)
    BY <1>1, <2>1, <2>2, <2>3, Zenon DEF TypeOK, Others
  <2>5. Stage(pc'[t], call'[t], ret'[t], handles'[t])
    BY <1>1, <1>2, <2>1, <2>2, <2>3 DEF Stage, Outside, FileOps
  <2>6. Held(t)' \subseteq Held(t)
    BY <1>1, <1>2, <2>1, <2>2, <2>3 DEF Held
  <2>7. /\ Found(t)' /\ UsesFile(t)'
        /\ ~HasTable(pc'[t], call'[t].op) /\ ~HasFiles(pc'[t], call'[t].op)
    BY <2>2 DEF HasTable, HasFiles, Found, UsesFile
  <2>8. pc'[t] \notin Outside \cup {"table"}
    BY <2>2 DEF Outside
  <2> QED  BY <1>1, <1>2, <2>1, <2>4, <2>5, <2>6, <2>7, <2>8, CalmStep, Zenon
<1>4. CASE free # {} /\ fs # NULL
  <2>0. PICK f \in OpenFiles : f = Smallest(free) /\ files[f] = NULL
    <3>1. free \subseteq Nat
      BY <1>0, Zenon DEF VFSAssumption
    <3>2. Smallest(free) \in free
      BY <1>4, <3>1, Zenon DEF Least
    <3> QED  BY <1>0, <3>2, Zenon
  <2>1. /\ files' = [files EXCEPT ![f] = fs] /\ call' = [call EXCEPT ![t].fs = fs, ![t].file = f]
        /\ Goto(t, "in_fs") /\ ret' = ret
    BY <1>0, <1>4, <2>0, Zenon DEF open_files
  <2>2. pc' \in [Threads -> Points] /\ pc'[t] = "in_fs" /\ \A s \in Threads : s # t => pc'[s] = pc[s]
    BY <1>1, <2>1, GotoStep, Zenon DEF Points
  <2>3. fs \in Filesystems \cup {NULL} /\ Mounted(fs)
    <3>1. /\ fs \in Filesystems \cup {NULL} /\ Smallest(RowsNamed(call[t].name)) \in Rows
          /\ filesystem[Smallest(RowsNamed(call[t].name))] = fs
      BY <1>0, <1>1, <1>4, GetFilesystem, Zenon
    <3> QED  BY <3>1, Zenon DEF Mounted
  <2>4. /\ call' \in [Threads -> Requests]
        /\ \A s \in Threads : s # t => call'[s] = call[s]
        /\ call'[t].fs = fs /\ call'[t].op = call[t].op /\ call'[t].file = f
    <3>1. f \in OpenFiles /\ call \in [Threads -> Requests]
      BY <1>1, Zenon DEF TypeOK
    <3>2. call' = [call EXCEPT ![t].fs = fs, ![t].file = f]
      BY <2>1, Zenon
    <3> QED  BY <2>3, <3>1, <3>2, CallOpen, ZenonT(60)
  <2>5. TypeOK' /\ Others(t)
    <3>1. files' \in [OpenFiles -> Filesystems \cup {NULL}]
      BY <1>1, <2>1, <2>3, Zenon DEF TypeOK
    <3> QED  BY <1>1, <2>1, <2>2, <2>4, <3>1, Zenon DEF TypeOK, Others
  <2>6. f \notin handles[t] /\ f # NULL
    <3>1. f \in handles[t] => f \in Held(t)
      BY <1>1, <2>0, Zenon DEF Held
    <3> QED  BY <2>0, <3>1, Zenon DEF IInv, FileInv, VFSAssumption
  <2>7. StageInv'
    <3>1. Stage(pc'[t], call'[t], ret'[t], handles'[t])
      BY <1>1, <1>2, <2>2, <2>4, <2>6 DEF Stage, Outside, FileOps
    <3> QED  BY <2>5, <3>1, StageStep, Zenon DEF IInv
  <2>8. SemInv'
    <3>1. ~HasTable(pc'[t], call'[t].op) /\ ~HasFiles(pc'[t], call'[t].op)
      BY <1>2, <2>2, <2>4 DEF HasTable, HasFiles, NameOps
    <3> QED  BY <1>1, <1>2, <2>5, <3>1, SemStep, Zenon DEF IInv
  <2>9. OpsInv' /\ Tally
    <3>1. pc'[t] \notin Outside
      BY <2>2 DEF Outside
    <3> QED  BY <1>1, <1>2, <2>5, <3>1, OpsStep, Zenon DEF IInv
  <2>10. MountInv'
    <3>1. ~Mounting(t)'
      BY <2>2 DEF Mounting
    <3> QED  BY <1>1, <2>5, <3>1, MountStep, Zenon DEF IInv
  <2>11. FoundInv'
    <3>1. Found(t)'
      BY <1>2, <2>2, <2>4 DEF Found, NameOps
    <3> QED  BY <1>1, <2>5, <3>1, FoundStep, Zenon DEF IInv
  <2>12. FileInv'
    <3>1. Held(t)' \subseteq Held(t) \cup {f}
      BY <1>1, <1>2, <2>2, <2>4 DEF Held
    <3> QED  BY <1>1, <1>4, <2>0, <2>1, <2>2, <2>3, <2>4, <2>5, <3>1, FileTaken, ZenonT(60)
  <2> QED  BY <2>5, <2>7, <2>8, <2>9, <2>10, <2>11, <2>12, Zenon DEF IInv
<1> QED  BY <1>3, <1>4, Zenon

-----------------------------------------------------------------------------
LEMMA vfs_mount_Inv ==
    ASSUME VFSAssumption, Least, IInv, NEW t \in Threads, vfs_mount(t)
    PROVE  IInv' /\ Tally
<1>0. PICK fs, n : fs = call[t].fs /\ n = call[t].name
  BY Zenon
<1>1. /\ TypeOK /\ Stage(pc[t], call[t], ret[t], handles[t])
      /\ pc[t] = "table" /\ call[t].op = "mount" /\ table_sem = NULL /\ Goto(t, "end")
      /\ UNCHANGED <<files, table_sem, openfile_sem, op_sem, unmount_sem, vfs_ops,
                     vfs_usable, handles, call>>
  BY Zenon DEF IInv, StageInv, vfs_mount, sems
<1>2. pc' \in [Threads -> Points] /\ pc'[t] = "end" /\ \A s \in Threads : s # t => pc'[s] = pc[s]
  BY <1>1, GotoStep, Zenon DEF Points
<1>3. \/ /\ UNCHANGED <<filesystem, mountpoint>> /\ alive' = alive \ {fs}
         /\ \E r \in {"VFS_LIMIT", "VFS_ERROR"} : Return(t, r)
      \/ \E r \in FreeRows : /\ filesystem' = [filesystem EXCEPT ![r] = fs]
                             /\ mountpoint' = [mountpoint EXCEPT ![r] = n]
                             /\ alive' = alive /\ Return(t, "VFS_OK")
  <2>1. CASE FreeRows = {} \/ RowsNamed(n) # {}
    BY <1>0, <2>1 DEF vfs_mount, mounts
  <2>2. CASE ~(FreeRows = {} \/ RowsNamed(n) # {})
    <3>1. FreeRows \subseteq Nat
      BY Zenon DEF FreeRows, VFSAssumption
    <3>2. Smallest(FreeRows) \in FreeRows
      BY <2>2, <3>1, Zenon DEF Least
    <3> QED  BY <1>0, <2>2, <3>2, Zenon DEF vfs_mount
  <2> QED  BY <2>1, <2>2, Zenon
<1>4. ret' \in [Threads -> Results] /\ \A s \in Threads : s # t => ret'[s] = ret[s]
  BY <1>1, <1>3, ReturnStep, Zenon DEF Results
<1>5. Others(t)
  BY <1>1, <1>2, <1>4, Zenon DEF Others
<1>6. /\ Mounting(t) /\ fs \in alive /\ ~Mounted(fs) /\ fs \in Filesystems /\ fs # NULL
      /\ n \in Names \cup {NULL} /\ alive \subseteq Filesystems
  <2>1. Mounting(t) /\ fs \in alive /\ ~Mounted(fs)
    BY <1>0, <1>1, Zenon DEF IInv, MountInv, Mounting
  <2>2. n \in Names \cup {NULL}
    BY <1>0, <1>1 DEF TypeOK, Requests
  <2> QED  BY <1>1, <2>1, <2>2, Zenon DEF TypeOK, VFSAssumption
<1>7. TypeOK'
  <2>1. CASE UNCHANGED <<filesystem, mountpoint>> /\ alive' = alive \ {fs}
    BY <1>1, <1>2, <1>4, <2>1, Zenon DEF TypeOK
  <2>2. ASSUME NEW r \in FreeRows, filesystem' = [filesystem EXCEPT ![r] = fs],
               mountpoint' = [mountpoint EXCEPT ![r] = n], alive' = alive
        PROVE  TypeOK'
    <3>1. /\ filesystem' \in [Rows -> Filesystems \cup {NULL}]
          /\ mountpoint' \in [Rows -> Names \cup {NULL}]
      BY <1>1, <1>6, <2>2, Zenon DEF TypeOK
    <3> QED  BY <1>1, <1>2, <1>4, <2>2, <3>1, Zenon DEF TypeOK
  <2> QED  BY <1>3, <2>1, <2>2, Zenon
<1>8. StageInv'
  <2>1. Stage(pc'[t], call'[t], ret'[t], handles'[t])
    BY <1>1, <1>2 DEF Stage, Outside, FileOps
  <2> QED  BY <1>5, <2>1, StageStep, Zenon DEF IInv
<1>9. SemInv'
  <2>1. ~HasTable(pc'[t], call'[t].op) /\ ~HasFiles(pc'[t], call'[t].op)
    BY <1>2 DEF HasTable, HasFiles
  <2> QED  BY <1>1, <1>5, <2>1, SemStep, Zenon DEF IInv
<1>10. OpsInv' /\ Tally
  <2>1. pc[t] \notin Outside /\ pc'[t] \notin Outside
    BY <1>1, <1>2 DEF Outside
  <2> QED  BY <1>1, <1>5, <2>1, OpsStep, Zenon DEF IInv
<1>11. \A s \in Threads : Mounting(s)' => Mounting(s) /\ s # t /\ call'[s].fs = call[s].fs
                                         /\ call[s].fs # fs
  <2>1. ASSUME NEW s \in Threads, Mounting(s)'
        PROVE  Mounting(s) /\ s # t /\ call'[s].fs = call[s].fs /\ call[s].fs # fs
    <3>1. s # t
      BY <1>2, <2>1 DEF Mounting
    <3>2. Mounting(s) /\ call'[s].fs = call[s].fs
      BY <1>1, <1>2, <2>1, <3>1, Zenon DEF Mounting
    <3>3. call[s].fs # fs
      BY <1>0, <1>6, <3>1, <3>2, Zenon DEF IInv, MountInv
    <3> QED  BY <3>1, <3>2, <3>3, Zenon
  <2> QED  BY <2>1, Zenon
<1>12. \A s \in Threads : pc'[s] \notin {"unmount", "in_unmount"} /\ ~(pc'[s] = "in_fs" /\ call'[s].op \in NameOps)
  <2>1. ASSUME NEW s \in Threads, s # t
        PROVE  pc'[s] \notin {"unmount", "in_unmount"} /\ ~(pc'[s] = "in_fs" /\ call'[s].op \in NameOps)
    <3>1. ~HasTable(pc[s], call[s].op)
      BY <1>1, Zenon DEF IInv, SemInv, VFSAssumption
    <3>2. pc'[s] = pc[s] /\ call'[s] = call[s]
      BY <1>5, <2>1, Zenon DEF Others
    <3> QED  BY <3>1, <3>2, Zenon DEF HasTable
  <2>2. pc'[t] \notin {"unmount", "in_unmount", "in_fs"}
    BY <1>2
  <2> QED  BY <2>1, <2>2, Zenon
<1>13. FoundInv'
  BY <1>12, Zenon DEF FoundInv
<1>14. UsesFile(t)' /\ Held(t)' \subseteq Held(t)
  BY <1>1, <1>2 DEF UsesFile, Held
<1>15. CASE UNCHANGED <<filesystem, mountpoint>> /\ alive' = alive \ {fs}
  <2>1. MountInv'
    <3>1. \A r \in Rows : filesystem'[r] # NULL => filesystem'[r] \in alive'
      BY <1>6, <1>15, Zenon DEF IInv, MountInv, Mounted
    <3>2. \A r, q \in Rows : filesystem'[r] # NULL /\ filesystem'[r] = filesystem'[q] => r = q
      BY <1>15, Zenon DEF IInv, MountInv
    <3>3. ASSUME NEW s \in Threads, Mounting(s)'
          PROVE  /\ call'[s].fs \in alive' /\ ~Mounted(call[s].fs)'
                 /\ \A q \in Threads : Mounting(q)' /\ call'[q].fs = call'[s].fs => q = s
      <4>1. Mounting(s) /\ call'[s].fs = call[s].fs /\ call[s].fs # fs
        BY <1>11, <3>3, Zenon
      <4>2. call[s].fs \in alive /\ ~Mounted(call[s].fs)
        BY <4>1, Zenon DEF IInv, MountInv
      <4>3. \A q \in Threads : Mounting(q) /\ call[q].fs = call[s].fs => q = s
        BY <4>1, Zenon DEF IInv, MountInv
      <4> QED  BY <1>11, <1>15, <4>1, <4>2, <4>3, Zenon DEF Mounted
    <3> QED  BY <3>1, <3>2, <3>3, Zenon DEF MountInv
  <2>2. FileInv'
    <3>1. vfs_usable' \/ vfs_ops' > 0 => vfs_usable \/ vfs_ops > 0
      BY <1>1, Zenon
    <3> QED  BY <1>1, <1>5, <1>14, <1>15, <3>1, FileStep, Zenon DEF IInv
  <2> QED  BY <1>7, <1>8, <1>9, <1>10, <1>13, <2>1, <2>2, Zenon DEF IInv
<1>16. ASSUME NEW r \in FreeRows, filesystem' = [filesystem EXCEPT ![r] = fs],
              mountpoint' = [mountpoint EXCEPT ![r] = n], alive' = alive
       PROVE  IInv' /\ Tally
  <2>1. r \in Rows /\ filesystem[r] = NULL
    BY <1>16, Zenon DEF FreeRows
  <2>2. filesystem'[r] = fs /\ \A q \in Rows : q # r => filesystem'[q] = filesystem[q]
    BY <1>1, <1>16, <2>1, Zenon DEF TypeOK
  <2>3. \A g : g # NULL /\ g # fs => ((\E q \in Rows : filesystem'[q] = g) <=> Mounted(g))
    BY <2>1, <2>2, Zenon DEF Mounted
  <2>4. MountInv'
    <3>0. \A q \in Rows : filesystem[q] # NULL => filesystem[q] \in alive
      BY Zenon DEF IInv, MountInv
    <3>1. ASSUME NEW q \in Rows, filesystem'[q] # NULL PROVE filesystem'[q] \in alive'
      <4>1. CASE q = r
        BY <1>6, <1>16, <2>2, <4>1
      <4>2. CASE q # r
        BY <1>16, <2>2, <3>0, <3>1, <4>2
      <4> QED  BY <4>1, <4>2, Zenon
    <3>2. ASSUME NEW p \in Rows, NEW q \in Rows, filesystem'[p] # NULL,
                 filesystem'[p] = filesystem'[q]
          PROVE  p = q
      <4>1. CASE p = r
        BY <1>6, <2>2, <3>2, <4>1, Zenon DEF Mounted
      <4>2. CASE q = r
        BY <1>6, <2>2, <3>2, <4>2, Zenon DEF Mounted
      <4>3. CASE p # r /\ q # r
        <5>1. filesystem[p] # NULL /\ filesystem[p] = filesystem[q]
          BY <2>2, <3>2, <4>3, Zenon
        <5> QED  BY <5>1, Zenon DEF IInv, MountInv
      <4> QED  BY <4>1, <4>2, <4>3, Zenon
    <3>3. ASSUME NEW s \in Threads, Mounting(s)'
          PROVE  /\ call'[s].fs \in alive' /\ ~Mounted(call[s].fs)'
                 /\ \A q \in Threads : Mounting(q)' /\ call'[q].fs = call'[s].fs => q = s
      <4>1. Mounting(s) /\ call'[s].fs = call[s].fs /\ call[s].fs # fs
        BY <1>11, <3>3, Zenon
      <4>2. call[s].fs \in alive /\ ~Mounted(call[s].fs)
        BY <4>1, Zenon DEF IInv, MountInv
      <4>3. \A q \in Threads : Mounting(q) /\ call[q].fs = call[s].fs => q = s
        BY <4>1, Zenon DEF IInv, MountInv
      <4>4. call[s].fs # NULL
        BY <1>6, <4>2, Zenon DEF VFSAssumption
      <4>5. ~Mounted(call[s].fs)'
        BY <2>3, <4>1, <4>2, <4>4, Zenon DEF Mounted
      <4> QED  BY <1>11, <1>16, <4>1, <4>2, <4>3, <4>5, Zenon
    <3> QED  BY <3>1, <3>2, <3>3, Zenon DEF MountInv
  <2>5. FileInv'
    <3>1. ASSUME vfs_usable' \/ vfs_ops' > 0, NEW f \in OpenFiles, files'[f] # NULL
          PROVE  Mounted(files[f])'
      <4>1. files'[f] = files[f] /\ Mounted(files[f]) /\ files[f] # NULL
        BY <1>1, <3>1, Zenon DEF IInv, FileInv
      <4>2. files[f] # fs
        BY <1>6, <4>1, Zenon
      <4> QED  BY <2>3, <4>1, <4>2, Zenon DEF Mounted
    <3>2. \A s \in Threads : Held(s)' \subseteq Held(s)
      BY <1>5, <1>14, HeldOthers, Zenon
    <3>3. \A s \in Threads : \A f \in Held(s)' : files'[f] # NULL
      BY <1>1, <3>2, Zenon DEF IInv, FileInv
    <3>4. \A s, q \in Threads : s # q => Held(s)' \cap Held(q)' = {}
      BY <3>2, Zenon DEF IInv, FileInv
    <3>5. \A s \in Threads : UsesFile(s)'
      BY <1>1, <1>5, <1>14, ZenonT(60) DEF IInv, FileInv, UsesFile, Others
    <3> QED  BY <3>1, <3>3, <3>4, <3>5, Zenon DEF FileInv, UsesFile
  <2> QED  BY <1>7, <1>8, <1>9, <1>10, <1>13, <2>4, <2>5, Zenon DEF IInv
<1> QED  BY <1>3, <1>15, <1>16, Zenon

LEMMA unmount_end_Inv ==
    ASSUME VFSAssumption, Least, IInv, NEW t \in Threads, unmount_end(t)
    PROVE  IInv' /\ Tally
<1>0. PICK fs, r : fs = call[t].fs /\ r = Smallest(RowsNamed(call[t].name))
  BY Zenon
<1>1. /\ TypeOK /\ Stage(pc[t], call[t], ret[t], handles[t])
      /\ pc[t] = "in_unmount" /\ alive' = alive \ {fs}
      /\ filesystem' = [filesystem EXCEPT ![r] = NULL]
      /\ openfile_sem' = NULL /\ table_sem' = NULL /\ Return(t, "VFS_OK") /\ Goto(t, "end")
      /\ UNCHANGED <<mountpoint, files, op_sem, unmount_sem, vfs_ops, vfs_usable, handles, call>>
  BY <1>0, Zenon DEF IInv, StageInv, unmount_end
<1>2. pc' \in [Threads -> Points] /\ pc'[t] = "end" /\ \A s \in Threads : s # t => pc'[s] = pc[s]
  BY <1>1, GotoStep, Zenon DEF Points
<1>3. ret' \in [Threads -> Results] /\ \A s \in Threads : s # t => ret'[s] = ret[s]
  BY <1>1, ReturnStep, Zenon DEF Results
<1>4. TypeOK' /\ Others(t)
  <2>1. filesystem' \in [Rows -> Filesystems \cup {NULL}] /\ alive' \subseteq Filesystems
    BY <1>1, Zenon DEF TypeOK
  <2> QED  BY <1>1, <1>2, <1>3, <2>1, Zenon DEF TypeOK, Others
<1>5. call[t].op = "unmount"
  BY <1>1, Zenon DEF Stage
<1>6. fs # NULL /\ r \in Rows /\ filesystem[r] = fs
  <2>1. RowsNamed(call[t].name) # {} /\ fs # NULL /\ filesystem[r] = fs
    BY <1>0, <1>1, Zenon DEF IInv, FoundInv
  <2>2. RowsNamed(call[t].name) \subseteq Rows /\ RowsNamed(call[t].name) \subseteq Nat
    BY Zenon DEF RowsNamed, VFSAssumption
  <2>3. r \in RowsNamed(call[t].name)
    BY <1>0, <2>1, <2>2, Zenon DEF Least
  <2> QED  BY <2>1, <2>2, <2>3, Zenon
<1>7. filesystem'[r] = NULL /\ \A q \in Rows : q # r => filesystem'[q] = filesystem[q]
  BY <1>1, <1>6, Zenon DEF TypeOK
<1>8. \A q \in Rows : filesystem[q] = fs => q = r
  BY <1>6, Zenon DEF IInv, MountInv
<1>9. \A g : g # NULL => ((\E q \in Rows : filesystem'[q] = g) <=> Mounted(g) /\ g # fs)
  BY <1>6, <1>7, <1>8, Zenon DEF Mounted
<1>10. StageInv'
  <2>1. Stage(pc'[t], call'[t], ret'[t], handles'[t])
    BY <1>1, <1>2, <1>5 DEF Stage, Outside, FileOps
  <2> QED  BY <1>4, <2>1, StageStep, Zenon DEF IInv
<1>11. SemInv'
  <2>1. ~HasTable(pc'[t], call'[t].op) /\ ~HasFiles(pc'[t], call'[t].op)
    BY <1>2 DEF HasTable, HasFiles
  <2>2. HasTable(pc[t], call[t].op) /\ HasFiles(pc[t], call[t].op)
    BY <1>1, Zenon DEF HasTable, HasFiles
  <2> QED  BY <1>1, <1>4, <2>1, <2>2, SemStep, Zenon DEF IInv
<1>12. OpsInv' /\ Tally
  <2>1. pc[t] \notin Outside /\ pc'[t] \notin Outside
    BY <1>1, <1>2 DEF Outside
  <2> QED  BY <1>1, <1>4, <2>1, OpsStep, Zenon DEF IInv
<1>13. FoundInv'
  <2>1. ASSUME NEW s \in Threads, s # t
        PROVE  pc'[s] \notin {"unmount", "in_unmount"} /\ ~(pc'[s] = "in_fs" /\ call'[s].op \in NameOps)
    <3>1. HasTable(pc[t], call[t].op)
      BY <1>1, Zenon DEF HasTable
    <3>2. ~HasTable(pc[s], call[s].op)
      BY <2>1, <3>1, Zenon DEF IInv, SemInv
    <3>3. pc'[s] = pc[s] /\ call'[s] = call[s]
      BY <1>4, <2>1, Zenon DEF Others
    <3> QED  BY <3>2, <3>3, Zenon DEF HasTable
  <2>2. pc'[t] \notin {"unmount", "in_unmount", "in_fs"}
    BY <1>2
  <2> QED  BY <2>1, <2>2, Zenon DEF FoundInv
<1>14. MountInv'
  <2>1. ASSUME NEW q \in Rows, filesystem'[q] # NULL PROVE filesystem'[q] \in alive'
    <3>1. q # r /\ filesystem'[q] = filesystem[q] /\ filesystem[q] # fs
      BY <1>7, <1>8, <2>1, Zenon
    <3>2. filesystem[q] \in alive
      BY <2>1, <3>1, Zenon DEF IInv, MountInv
    <3> QED  BY <1>1, <3>1, <3>2
  <2>2. ASSUME NEW p \in Rows, NEW q \in Rows, filesystem'[p] # NULL,
               filesystem'[p] = filesystem'[q]
        PROVE  p = q
    <3>1. filesystem[p] # NULL /\ filesystem[p] = filesystem[q]
      BY <1>7, <2>2, Zenon
    <3> QED  BY <3>1, Zenon DEF IInv, MountInv
  <2>3. ASSUME NEW s \in Threads, Mounting(s)' PROVE Mounting(s) /\ call'[s].fs = call[s].fs
    <3>1. s # t
      BY <1>2, <2>3 DEF Mounting
    <3> QED  BY <1>1, <1>2, <2>3, <3>1, Zenon DEF Mounting
  <2>4. ASSUME NEW s \in Threads, Mounting(s)'
        PROVE  /\ call'[s].fs \in alive' /\ ~Mounted(call[s].fs)'
               /\ \A q \in Threads : Mounting(q)' /\ call'[q].fs = call'[s].fs => q = s
    <3>1. Mounting(s) /\ call'[s].fs = call[s].fs
      BY <2>3, <2>4, Zenon
    <3>2. call[s].fs \in alive /\ ~Mounted(call[s].fs)
      BY <3>1, Zenon DEF IInv, MountInv
    <3>3. \A q \in Threads : Mounting(q) /\ call[q].fs = call[s].fs => q = s
      BY <3>1, Zenon DEF IInv, MountInv
    <3>4. call[s].fs # NULL /\ call[s].fs # fs
      BY <1>1, <1>6, <3>2, Zenon DEF TypeOK, VFSAssumption, Mounted
    <3>5. ~Mounted(call[s].fs)'
      BY <1>9, <3>1, <3>2, <3>4, Zenon DEF Mounted
    <3> QED  BY <1>1, <2>3, <3>1, <3>2, <3>3, <3>4, <3>5, Zenon
  <2> QED  BY <2>1, <2>2, <2>4, Zenon DEF MountInv
<1>15. FileInv'
  <2>1. ASSUME vfs_usable' \/ vfs_ops' > 0, NEW f \in OpenFiles, files'[f] # NULL
        PROVE  Mounted(files[f])'
    <3>1. files'[f] = files[f] /\ Mounted(files[f]) /\ files[f] # NULL
      BY <1>1, <2>1, Zenon DEF IInv, FileInv
    <3>2. files[f] # fs
      BY <1>0, <1>1, Zenon DEF IInv, FileInv
    <3> QED  BY <1>9, <3>1, <3>2, Zenon DEF Mounted
  <2>2. UsesFile(t)' /\ Held(t)' \subseteq Held(t)
    BY <1>1, <1>2, <1>5 DEF UsesFile, Held
  <2>3. \A s \in Threads : Held(s)' \subseteq Held(s)
    BY <1>4, <2>2, HeldOthers, Zenon
  <2>4. \A s \in Threads : \A f \in Held(s)' : files'[f] # NULL
    BY <1>1, <2>3, Zenon DEF IInv, FileInv
  <2>5. \A s, q \in Threads : s # q => Held(s)' \cap Held(q)' = {}
    BY <2>3, Zenon DEF IInv, FileInv
  <2>6. \A s \in Threads : UsesFile(s)'
    BY <1>1, <1>4, <2>2, ZenonT(60) DEF IInv, FileInv, UsesFile, Others
  <2> QED  BY <2>1, <2>4, <2>5, <2>6, Zenon DEF FileInv, UsesFile
<1> QED  BY <1>4, <1>10, <1>11, <1>12, <1>13, <1>14, <1>15, Zenon DEF IInv

-----------------------------------------------------------------------------
LEMMA StartRefused ==
    ASSUME VFSAssumption, IInv, NEW t \in Threads, pc[t] = "idle", Return(t, "VFS_UNUSABLE"),
           NEW c, CloseHandle(t, c),
           UNCHANGED <<filesystem, mountpoint, files, table_sem, openfile_sem, op_sem,
                       unmount_sem, vfs_ops, vfs_usable, pc, call, alive>>
    PROVE  IInv' /\ Tally
<1>1. TypeOK /\ Stage(pc[t], call[t], ret[t], handles[t])
  BY Zenon DEF IInv, StageInv
<1>2. ret' \in [Threads -> Results] /\ \A s \in Threads : s # t => ret'[s] = ret[s]
  BY <1>1, ReturnStep, Zenon DEF Results
<1>8. /\ handles' \in [Threads -> SUBSET OpenFiles] /\ handles'[t] \subseteq handles[t]
      /\ \A s \in Threads : s # t => handles'[s] = handles[s]
  BY <1>1, CloseStep, Zenon
<1>3. TypeOK' /\ Others(t)
  BY <1>1, <1>2, <1>8, ZenonT(40) DEF TypeOK, Others
<1>4. call[t].op = "none"
  BY <1>1, Zenon DEF Stage, Outside
<1>5. StageInv'
  <2>1. Stage(pc'[t], call'[t], ret'[t], handles'[t])
    BY <1>1, <1>4 DEF Stage, FileOps, Outside
  <2> QED  BY <1>3, <2>1, StageStep, Zenon DEF IInv
<1>6. SemInv' /\ MountInv' /\ FoundInv' /\ OpsInv' /\ Tally
  BY ZenonT(60) DEF IInv, SemInv, MountInv, FoundInv, OpsInv, Busy, Mounting, Mounted, RowsNamed, Tally
<1>7. FileInv'
  <2>1. Held(t)' \subseteq Held(t) /\ UsesFile(t)'
    BY <1>4, <1>8 DEF Held, UsesFile
  <2>2. vfs_usable' \/ vfs_ops' > 0 => vfs_usable \/ vfs_ops > 0
    BY Zenon
  <2> QED  BY <1>1, <1>3, <2>1, <2>2, FileStep, Zenon DEF IInv
<1> QED  BY <1>3, <1>5, <1>6, <1>7, Zenon DEF IInv

LEMMA InputTyped ==
    ASSUME NEW c \in Inputs
    PROVE  /\ c \in Requests /\ c.op # "none"
           /\ c.op \in {"open", "create", "remove", "getfree", "unmount", "mount"} \cup FileOps
           /\ c.op = "open" => c.file = NULL
  BY DEF Inputs, Requests, Ops, FileOps

LEMMA vfs_start_op_Inv ==
    ASSUME VFSAssumption, IInv, NEW t \in Threads, NEW c \in Inputs, vfs_start_op(t, c)
    PROVE  IInv' /\ Tally
<1>1. /\ TypeOK /\ Stage(pc[t], call[t], ret[t], handles[t]) /\ pc[t] = "idle" /\ MayCall(t, c)
      /\ UNCHANGED <<filesystem, mountpoint, files, table_sem, openfile_sem, op_sem,
                     unmount_sem, vfs_usable>>
  BY Zenon DEF IInv, StageInv, vfs_start_op, mounts, sems
<1>2. CASE ~vfs_usable
  BY <1>1, <1>2, StartRefused, Zenon DEF vfs_start_op
<1>3. CASE vfs_usable
  <2>1. /\ vfs_ops' = vfs_ops + 1 /\ call' = [call EXCEPT ![t] = c] /\ Goto(t, FirstStep(c.op))
        /\ Return(t, "none") /\ alive' = IF c.op = "mount" THEN alive \cup {c.fs} ELSE alive
        /\ UNCHANGED handles
    BY <1>3, Zenon DEF vfs_start_op, vfs_mount_fs
  <2>2. PICK p \in {"table", "close", "seek", "verify"} :
          /\ p = FirstStep(c.op)
          /\ p = "close" => c.op = "close"
          /\ p = "seek" => c.op = "seek"
          /\ p = "verify" => c.op \in {"read", "write"}
          /\ c.op \in {"open", "mount"} => p = "table"
    BY InputTyped DEF FirstStep, FileOps
  <2>3. pc' \in [Threads -> Points] /\ pc'[t] = p /\ \A s \in Threads : s # t => pc'[s] = pc[s]
    BY <1>1, <2>1, <2>2, GotoStep, Zenon DEF Points
  <2>4. ret' \in [Threads -> Results] /\ \A s \in Threads : s # t => ret'[s] = ret[s]
    BY <1>1, <2>1, ReturnStep, Zenon DEF Results
  <2>5. /\ call' \in [Threads -> Requests] /\ call'[t] = c
        /\ \A s \in Threads : s # t => call'[s] = call[s]
    BY <1>1, <2>1, InputTyped, Zenon DEF TypeOK
  <2>6. Others(t)
    BY <1>1, <2>1, <2>3, <2>4, <2>5, Zenon DEF Others
  <2>7. c.op = "mount" => c.fs \in Filesystems /\ c.fs \notin alive
    BY <1>1, Zenon DEF MayCall
  <2>8. TypeOK'
    <3>1. vfs_ops' \in Nat
      BY <1>1, <2>1 DEF TypeOK
    <3>2. alive' \subseteq Filesystems
      BY <1>1, <2>1, <2>7, Zenon DEF TypeOK
    <3> QED  BY <1>1, <2>1, <2>3, <2>4, <2>5, <3>1, <3>2, ZenonT(40) DEF TypeOK
  <2>9. StageInv'
    <3>1. c.op \in FileOps => c.file \in handles[t]
      BY <1>1, Zenon DEF MayCall, FileOps
    <3>2. c.op = "open" => c.file = NULL /\ c.file \notin handles[t]
      <4>1. handles[t] \subseteq OpenFiles /\ NULL \notin OpenFiles
        BY <1>1, Zenon DEF TypeOK, VFSAssumption
      <4>2. c.op = "open" => c.file = NULL
        BY InputTyped, Zenon
      <4> QED  BY <4>1, <4>2, Zenon
    <3>3. /\ c.op # "none"
          /\ c.op \in {"open", "create", "remove", "getfree", "unmount", "mount"} \cup FileOps
      BY InputTyped, Zenon
    <3>4. Stage(p, c, ret'[t], handles[t])
      BY <2>2, <3>1, <3>2, <3>3 DEF Stage, Outside, FileOps
    <3> QED  BY <1>1, <2>1, <2>3, <2>5, <2>6, <3>4, StageStep, Zenon DEF IInv
  <2>10. SemInv'
    <3>1. ~HasTable(p, c.op) /\ ~HasFiles(p, c.op)
      BY <2>2 DEF HasTable, HasFiles
    <3> QED  BY <1>1, <2>3, <2>5, <2>6, <3>1, SemStep, Zenon DEF IInv
  <2>11. OpsInv' /\ Tally
    <3>1. Busy' = Busy \cup {t}
      BY <1>1, <2>2, <2>3 DEF Busy
    <3>5. \A s \in Threads : pc'[s] \notin Halting
      <4>1. pc'[t] \notin Halting
        BY <2>2, <2>3 DEF Halting, Outside
      <4> QED  BY <1>3, <2>3, <4>1, Zenon DEF IInv, OpsInv
    <3>6. ~(unmount_sem' > 0)
      BY <1>1, <1>3, Zenon DEF IInv, OpsInv
    <3> QED  BY <2>1, <3>1, <3>5, <3>6, Zenon DEF OpsInv, Tally
  <2>12. MountInv'
    <3>1. \A r \in Rows : filesystem[r] # NULL => filesystem[r] \in alive
      BY Zenon DEF IInv, MountInv
    <3>2. \A x \in alive : x \in alive'
      BY <2>1, Zenon
    <3>3. \A r \in Rows : filesystem'[r] # NULL => filesystem'[r] \in alive'
      BY <1>1, <3>1, <3>2, Zenon
    <3>4. \A r, q \in Rows : filesystem'[r] # NULL /\ filesystem'[r] = filesystem'[q] => r = q
      BY <1>1, Zenon DEF IInv, MountInv
    <3>5. ASSUME NEW s \in Threads, s # t, Mounting(s)'
          PROVE  /\ Mounting(s) /\ call'[s].fs = call[s].fs /\ call[s].fs \in alive
                 /\ ~Mounted(call[s].fs)
      <4>1. Mounting(s) /\ call'[s].fs = call[s].fs
        BY <2>3, <2>5, <3>5, Zenon DEF Mounting
      <4> QED  BY <4>1, Zenon DEF IInv, MountInv
    <3>6. ASSUME Mounting(t)'
          PROVE  /\ call'[t].fs = c.fs /\ c.op = "mount" /\ c.fs \in alive' /\ c.fs \notin alive
                 /\ ~Mounted(c.fs) /\ ~Mounted(call[t].fs)'
      <4>1. call'[t].fs = c.fs /\ c.op = "mount"
        BY <2>5, <3>6, Zenon DEF Mounting
      <4>2. c.fs \in alive' /\ c.fs \notin alive /\ c.fs # NULL
        BY <2>1, <2>7, <4>1, Zenon DEF VFSAssumption
      <4>3. ~Mounted(c.fs)
        BY <3>1, <4>2, Zenon DEF Mounted
      <4>4. ~Mounted(call[t].fs)'
        BY <1>1, <4>1, <4>3, Zenon DEF Mounted
      <4> QED  BY <4>1, <4>2, <4>3, <4>4, Zenon
    <3>7. ASSUME NEW s \in Threads, Mounting(s)'
          PROVE  /\ call'[s].fs \in alive' /\ ~Mounted(call[s].fs)'
                 /\ \A q \in Threads : Mounting(q)' /\ call'[q].fs = call'[s].fs => q = s
      <4>1. CASE s = t
        <5>1. \A q \in Threads : Mounting(q)' /\ call'[q].fs = call'[t].fs => q = t
          BY <3>5, <3>6, <3>7, <4>1, Zenon
        <5> QED  BY <3>6, <3>7, <4>1, <5>1, Zenon
      <4>2. CASE s # t
        <5>1. call'[s].fs \in alive' /\ ~Mounted(call[s].fs)'
          BY <1>1, <3>2, <3>5, <3>7, <4>2, Zenon DEF Mounted
        <5>2. ASSUME NEW q \in Threads, Mounting(q)', call'[q].fs = call'[s].fs PROVE q = s
          <6>1. q # t
            BY <3>5, <3>6, <3>7, <4>2, <5>2, Zenon
          <6>2. Mounting(q) /\ Mounting(s) /\ call[q].fs = call[s].fs
            BY <3>5, <3>7, <4>2, <5>2, <6>1, Zenon
          <6> QED  BY <6>2, Zenon DEF IInv, MountInv
        <5> QED  BY <5>1, <5>2, Zenon
      <4> QED  BY <4>1, <4>2, Zenon
    <3> QED  BY <3>3, <3>4, <3>7, Zenon DEF MountInv
  <2>13. FoundInv'
    <3>1. Found(t)'
      BY <2>2, <2>3 DEF Found
    <3> QED  BY <1>1, <2>6, <3>1, FoundStep, Zenon DEF IInv
  <2>14. FileInv'
    <3>1. Held(t)' \subseteq Held(t)
      BY <1>1, <2>1, <2>2, <2>3, <2>5, Zenon DEF Held
    <3>2. UsesFile(t)'
      BY <2>2, <2>3 DEF UsesFile
    <3> QED  BY <1>1, <1>3, <2>6, <3>1, <3>2, FileStep, ZenonT(60) DEF IInv
  <2> QED  BY <2>8, <2>9, <2>10, <2>11, <2>12, <2>13, <2>14, Zenon DEF IInv
<1> QED  BY <1>2, <1>3, Zenon

LEMMA vfs_end_op_Inv ==
    ASSUME VFSAssumption, IInv, Counted, NEW t \in Threads, vfs_end_op(t)
    PROVE  IInv' /\ Tally
<1>1. /\ TypeOK /\ Stage(pc[t], call[t], ret[t], handles[t]) /\ pc[t] = "end"
      /\ vfs_ops' = vfs_ops - 1 /\ call' = [call EXCEPT ![t] = NoCall] /\ Goto(t, "idle")
      /\ UNCHANGED <<filesystem, mountpoint, files, table_sem, openfile_sem, op_sem,
                     vfs_usable, ret, alive>>
  BY Zenon DEF IInv, StageInv, vfs_end_op, mounts
<1>2. unmount_sem' = unmount_sem \/ (~vfs_usable /\ vfs_ops' = 0 /\ unmount_sem' = unmount_sem + 1)
  BY Zenon DEF vfs_end_op
<1>3. PICK h : /\ h \subseteq Held(t) /\ handles' = [handles EXCEPT ![t] = h]
  <2>1. CASE call[t].op = "open" /\ ret[t] = "VFS_OK"
    <3>1. handles' = [handles EXCEPT ![t] = handles[t] \cup {call[t].file}]
      BY <2>1, Zenon DEF vfs_end_op
    <3>2. call[t].file # NULL
      BY <1>1, <2>1 DEF Stage
    <3>3. call[t].file \in OpenFiles
      BY <1>1, <3>2 DEF TypeOK, Requests
    <3>4. handles[t] \cup {call[t].file} \subseteq Held(t)
      BY <1>1, <2>1, <3>3 DEF Held, TypeOK
    <3> QED  BY <3>1, <3>4, Zenon
  <2>2. CASE call[t].op = "close"
    <3>1. handles' = [handles EXCEPT ![t] = handles[t] \ {call[t].file}]
      BY <2>2, Zenon DEF vfs_end_op, CloseHandle
    <3>2. handles[t] \ {call[t].file} \subseteq Held(t)
      BY <1>1, Zenon DEF Held, TypeOK
    <3> QED  BY <3>1, <3>2, Zenon
  <2>3. CASE call[t].op # "close" /\ ~(call[t].op = "open" /\ ret[t] = "VFS_OK")
    <3>1. handles' = handles
      BY <2>3, Zenon DEF vfs_end_op, CloseHandle
    <3>2. handles' = [handles EXCEPT ![t] = handles[t]]
      BY <1>1, <3>1, Zenon DEF TypeOK
    <3>3. handles[t] \subseteq Held(t)
      BY <1>1, <2>3, Zenon DEF Held, TypeOK
    <3> QED  BY <3>2, <3>3, Zenon
  <2> QED  BY <2>1, <2>2, <2>3, Zenon
<1>4. /\ handles' \in [Threads -> SUBSET OpenFiles] /\ handles'[t] = h
      /\ \A s \in Threads : s # t => handles'[s] = handles[s]
  <2>1. h \in SUBSET OpenFiles
    BY <1>3, Zenon DEF Held
  <2> QED  BY <1>1, <1>3, <2>1, Zenon DEF TypeOK
<1>5. pc' \in [Threads -> Points] /\ pc'[t] = "idle" /\ \A s \in Threads : s # t => pc'[s] = pc[s]
  BY <1>1, GotoStep, Zenon DEF Points
<1>6. /\ call' \in [Threads -> Requests] /\ call'[t].op = "none"
      /\ \A s \in Threads : s # t => call'[s] = call[s]
  BY <1>1, CallOver, Zenon
<1>7. Others(t)
  BY <1>1, <1>4, <1>5, <1>6, Zenon DEF Others
<1>8. vfs_ops \in Nat /\ vfs_ops # 0
  <2>1. t \in Busy
    BY <1>1 DEF Busy
  <2> QED  BY <1>1, <2>1, Zenon DEF Counted, TypeOK
<1>9. vfs_ops' \in Nat /\ vfs_ops # 0 /\ vfs_ops > 0 /\ unmount_sem = 0
  <2>1. vfs_ops' \in Nat /\ vfs_ops # 0 /\ vfs_ops > 0
    BY <1>1, <1>8
  <2>2. unmount_sem \in Nat /\ ~(unmount_sem > 0)
    BY <1>1, <2>1, Zenon DEF IInv, OpsInv, TypeOK
  <2> QED  BY <2>1, <2>2
<1>10. TypeOK'
  <2>1. unmount_sem' \in Nat
    BY <1>2, <1>9
  <2> QED  BY <1>1, <1>4, <1>5, <1>6, <1>9, <2>1, Zenon DEF TypeOK
<1>11. StageInv'
  <2>1. Stage(pc'[t], call'[t], ret'[t], handles'[t])
    BY <1>5, <1>6 DEF Stage, Outside, FileOps
  <2> QED  BY <1>7, <2>1, StageStep, Zenon DEF IInv
<1>12. SemInv'
  <2>1. ~HasTable(pc'[t], call'[t].op) /\ ~HasFiles(pc'[t], call'[t].op)
    BY <1>5 DEF HasTable, HasFiles
  <2> QED  BY <1>1, <1>7, <2>1, SemStep, Zenon DEF IInv
<1>13. OpsInv' /\ Tally
  <2>1. Busy' = Busy \ {t} /\ t \in Busy
    BY <1>1, <1>5 DEF Busy
  <2>4. unmount_sem' > 0 => ~vfs_usable' /\ vfs_ops' = 0
    BY <1>1, <1>2, <1>9
  <2>5. \A s \in Threads : /\ pc'[s] \in Halting => ~vfs_usable'
                           /\ pc'[s] \notin Halting \ {"halt_wait"}
    <3>1. pc'[t] \notin Halting
      BY <1>5 DEF Halting
    <3>2. \A s \in Threads : pc[s] \notin Halting \ {"halt_wait"}
      BY <1>9, Zenon DEF IInv, OpsInv
    <3>3. \A s \in Threads : pc[s] \in Halting => ~vfs_usable
      BY Zenon DEF IInv, OpsInv
    <3> QED  BY <1>1, <1>5, <3>1, <3>2, <3>3, Zenon
  <2> QED  BY <1>1, <2>1, <2>4, <2>5, Zenon DEF OpsInv, Tally
<1>14. MountInv'
  <2>1. ~Mounting(t)'
    BY <1>5 DEF Mounting
  <2> QED  BY <1>1, <1>7, <2>1, MountStep, Zenon DEF IInv
<1>15. FoundInv'
  <2>1. Found(t)'
    BY <1>5 DEF Found
  <2> QED  BY <1>1, <1>7, <2>1, FoundStep, Zenon DEF IInv
<1>16. FileInv'
  <2>1. Held(t)' \subseteq Held(t)
    <3>1. Held(t)' \subseteq handles'[t]
      BY <1>5, <1>6 DEF Held
    <3> QED  BY <1>3, <1>4, <3>1, Zenon
  <2>2. UsesFile(t)'
    BY <1>5 DEF UsesFile
  <2> QED  BY <1>1, <1>7, <1>9, <2>1, <2>2, FileStep, Zenon DEF IInv
<1> QED  BY <1>10, <1>11, <1>12, <1>13, <1>14, <1>15, <1>16, Zenon DEF IInv

-----------------------------------------------------------------------------
\* A step of vfs_deinit.
LEMMA HaltStep ==
    ASSUME VFSAssumption, IInv, NEW t \in Threads, NEW p \in Halting, pc[t] \in Outside, Goto(t, p),
           UNCHANGED <<handles, call, ret>>
    PROVE  /\ pc' \in [Threads -> Points] /\ pc'[t] = p
           /\ \A s \in Threads : s # t => pc'[s] = pc[s]
           /\ Others(t) /\ StageInv' /\ Busy' = Busy /\ ~Mounting(t)'
           /\ Found(t)' /\ UsesFile(t)' /\ Held(t)' \subseteq Held(t)
<1>1. TypeOK /\ Stage(pc[t], call[t], ret[t], handles[t]) /\ p \in Points
  BY DEF IInv, StageInv, Halting, Outside, Points
<1>2. pc' \in [Threads -> Points] /\ pc'[t] = p /\ \A s \in Threads : s # t => pc'[s] = pc[s]
  BY <1>1, GotoStep, Zenon
<1>3. Others(t)
  BY <1>2, Zenon DEF Others
<1>4. call[t].op = "none"
  BY <1>1, Zenon DEF Stage
<1>5. StageInv'
  <2>1. Stage(pc'[t], call'[t], ret'[t], handles'[t])
    BY <1>2, <1>4 DEF Stage, Outside, Halting, FileOps
  <2> QED  BY <1>3, <2>1, StageStep, Zenon DEF IInv
<1>6. Busy' = Busy
  <2>1. p \in Outside
    BY Zenon DEF Halting
  <2> QED  BY <1>2, <2>1, Zenon DEF Busy, Outside
<1>7. ~Mounting(t)' /\ Found(t)' /\ UsesFile(t)'
  BY <1>2 DEF Mounting, Found, UsesFile, Halting, Outside
<1>8. Held(t)' \subseteq Held(t)
  BY <1>2, <1>4 DEF Held, Halting, Outside
<1> QED  BY <1>2, <1>3, <1>5, <1>6, <1>7, <1>8, Zenon

\* The steps of vfs_deinit that only wait, or take a semaphore.
LEMMA HaltOn ==
    ASSUME VFSAssumption, IInv, NEW t \in Threads, NEW p \in Halting, pc[t] \in Outside, Goto(t, p),
           UNCHANGED <<filesystem, mountpoint, files, openfile_sem, vfs_ops, handles, call, ret,
                       alive>>,
           vfs_usable' = FALSE, unmount_sem' \in Nat, unmount_sem' <= unmount_sem,
           op_sem' \in Threads \cup {NULL}, p = "halt_wait" \/ vfs_ops = 0,
           IF p = "halt_files" THEN table_sem = NULL /\ table_sem' = t ELSE table_sem' = table_sem
    PROVE  IInv' /\ Tally
<1>1. TypeOK
  BY Zenon DEF IInv
<1>2. /\ pc' \in [Threads -> Points] /\ pc'[t] = p
      /\ \A s \in Threads : s # t => pc'[s] = pc[s]
      /\ Others(t) /\ StageInv' /\ Busy' = Busy /\ ~Mounting(t)'
      /\ Found(t)' /\ UsesFile(t)' /\ Held(t)' \subseteq Held(t)
  BY HaltStep, Zenon
<1>3. TypeOK'
  <2>1. table_sem' \in Threads \cup {NULL} /\ vfs_usable' \in BOOLEAN
    BY <1>1, Zenon DEF TypeOK
  <2> QED  BY <1>1, <1>2, <2>1, Zenon DEF TypeOK
<1>4. SemInv'
  <2>1. HasTable(pc'[t], call'[t].op) => table_sem' = t
    BY <1>2 DEF HasTable, Halting, Outside
  <2>2. ~HasFiles(pc'[t], call'[t].op)
    BY <1>2 DEF HasFiles, Halting, Outside
  <2> QED  BY <1>2, <2>1, <2>2, SemStep, Zenon DEF IInv
<1>5. OpsInv' /\ Tally
  <2>1. unmount_sem' > 0 => vfs_ops' = 0
    <3>1. unmount_sem' > 0 => unmount_sem > 0
      BY <1>1 DEF TypeOK
    <3> QED  BY <3>1, Zenon DEF IInv, OpsInv
  <2>2. \A s \in Threads : pc'[s] \in Halting \ {"halt_wait"} => vfs_ops' = 0
    BY <1>2, Zenon DEF IInv, OpsInv
  <2> QED  BY <1>2, <2>1, <2>2, Zenon DEF OpsInv, Tally
<1>6. MountInv' /\ FoundInv'
  BY <1>2, MountStep, FoundStep, Zenon DEF IInv
<1>7. FileInv'
  BY <1>1, <1>2, FileStep, Zenon DEF IInv
<1> QED  BY <1>2, <1>3, <1>4, <1>5, <1>6, <1>7, Zenon DEF IInv

LEMMA vfs_deinit_Inv ==
    ASSUME VFSAssumption, IInv, NEW t \in Threads, vfs_deinit(t)
    PROVE  IInv' /\ Tally
<1>1. /\ pc[t] = "idle" /\ vfs_usable' = FALSE
      /\ UNCHANGED <<filesystem, mountpoint, files, table_sem, openfile_sem, unmount_sem,
                     vfs_ops, handles, call, ret, alive>>
  BY Zenon DEF vfs_deinit, mounts
<1>2. /\ unmount_sem \in Nat /\ vfs_ops \in Nat /\ op_sem \in Threads \cup {NULL}
      /\ pc[t] \in Outside /\ "halt_wait" \in Halting /\ "halt_table" \in Halting
  BY <1>1 DEF IInv, TypeOK, Outside, Halting
<1>3. unmount_sem' <= unmount_sem
  BY <1>1, <1>2
<1>4. CASE vfs_ops > 0
  <2>1. Goto(t, "halt_wait") /\ op_sem' = op_sem /\ "halt_wait" # "halt_files"
    BY <1>4 DEF vfs_deinit
  <2> QED  BY <1>1, <1>2, <1>3, <2>1, HaltOn, Zenon
<1>5. CASE ~(vfs_ops > 0)
  <2>1. Goto(t, "halt_table") /\ op_sem' = t /\ "halt_table" # "halt_files"
    BY <1>5 DEF vfs_deinit
  <2>2. vfs_ops = 0
    BY <1>2, <1>5
  <2> QED  BY <1>1, <1>2, <1>3, <2>1, <2>2, HaltOn, Zenon
<1> QED  BY <1>4, <1>5, Zenon

LEMMA deinit_wait_Inv ==
    ASSUME VFSAssumption, IInv, NEW t \in Threads, deinit_wait(t)
    PROVE  IInv' /\ Tally
<1>1. /\ pc[t] = "halt_wait" /\ unmount_sem > 0 /\ unmount_sem' = unmount_sem - 1
      /\ Goto(t, "halt_op")
      /\ UNCHANGED <<filesystem, mountpoint, files, table_sem, openfile_sem, op_sem,
                     vfs_ops, vfs_usable, handles, call, ret, alive>>
  BY Zenon DEF deinit_wait, mounts
<1>2. /\ unmount_sem \in Nat /\ op_sem \in Threads \cup {NULL}
      /\ pc[t] \in Outside /\ "halt_op" \in Halting /\ "halt_op" # "halt_files"
  BY <1>1 DEF IInv, TypeOK, Outside, Halting
<1>3. unmount_sem' \in Nat /\ unmount_sem' <= unmount_sem
  BY <1>1, <1>2
<1>4. vfs_usable' = FALSE /\ vfs_ops = 0
  BY <1>1, Zenon DEF IInv, OpsInv, TypeOK
<1> QED  BY <1>1, <1>2, <1>3, <1>4, HaltOn, Zenon

LEMMA deinit_op_Inv ==
    ASSUME VFSAssumption, IInv, NEW t \in Threads, deinit_op(t)
    PROVE  IInv' /\ Tally
<1>1. /\ pc[t] = "halt_op" /\ op_sem' = t /\ Goto(t, "halt_table")
      /\ UNCHANGED <<filesystem, mountpoint, files, table_sem, openfile_sem, unmount_sem,
                     vfs_ops, vfs_usable, handles, call, ret, alive>>
  BY Zenon DEF deinit_op, mounts
<1>2. /\ unmount_sem' \in Nat /\ "halt_table" \in Halting /\ "halt_table" # "halt_files"
      /\ pc[t] \in Outside /\ pc[t] \in Halting \ {"halt_wait"}
  BY <1>1 DEF IInv, TypeOK, Outside, Halting
<1>3. unmount_sem' <= unmount_sem
  BY <1>1, <1>2
<1>4. vfs_usable' = FALSE /\ vfs_ops = 0
  BY <1>1, <1>2, Zenon DEF IInv, OpsInv, TypeOK
<1> QED  BY <1>1, <1>2, <1>3, <1>4, HaltOn, Zenon

LEMMA deinit_table_Inv ==
    ASSUME VFSAssumption, IInv, NEW t \in Threads, deinit_table(t)
    PROVE  IInv' /\ Tally
<1>1. /\ pc[t] = "halt_table" /\ table_sem = NULL /\ table_sem' = t /\ Goto(t, "halt_files")
      /\ UNCHANGED <<filesystem, mountpoint, files, openfile_sem, op_sem, unmount_sem,
                     vfs_ops, vfs_usable, handles, call, ret, alive>>
  BY Zenon DEF deinit_table, mounts
<1>2. /\ unmount_sem' \in Nat /\ op_sem' \in Threads \cup {NULL} /\ "halt_files" \in Halting
      /\ pc[t] \in Outside /\ pc[t] \in Halting \ {"halt_wait"}
  BY <1>1 DEF IInv, TypeOK, Outside, Halting
<1>3. unmount_sem' <= unmount_sem
  BY <1>1, <1>2
<1>4. vfs_usable' = FALSE /\ vfs_ops = 0
  BY <1>1, <1>2, Zenon DEF IInv, OpsInv, TypeOK
<1> QED  BY <1>1, <1>2, <1>3, <1>4, HaltOn, Zenon

LEMMA deinit_unmount_Inv ==
    ASSUME VFSAssumption, IInv, Counted, NEW t \in Threads, deinit_unmount(t)
    PROVE  IInv' /\ Tally
<1>1. /\ TypeOK /\ pc[t] = "halt_files" /\ alive' = alive \ {filesystem[r] : r \in Rows}
      /\ filesystem' = [r \in Rows |-> NULL] /\ table_sem' = NULL /\ op_sem' = NULL
      /\ Goto(t, "halted")
      /\ UNCHANGED <<mountpoint, files, openfile_sem, unmount_sem, vfs_ops, vfs_usable,
                     handles, call, ret>>
  BY Zenon DEF IInv, deinit_unmount
<1>2. /\ "halted" \in Halting /\ pc[t] \in Outside /\ pc[t] \in Halting \ {"halt_wait"}
      /\ HasTable(pc[t], call[t].op)
  BY <1>1 DEF Outside, Halting, HasTable
<1>3. /\ pc' \in [Threads -> Points] /\ pc'[t] = "halted"
      /\ \A s \in Threads : s # t => pc'[s] = pc[s]
      /\ Others(t) /\ StageInv' /\ Busy' = Busy
      /\ UsesFile(t)' /\ Held(t)' \subseteq Held(t)
  BY <1>1, <1>2, HaltStep, Zenon
<1>4. vfs_usable' = FALSE /\ vfs_usable = FALSE /\ vfs_ops = 0 /\ vfs_ops' = 0
  BY <1>1, <1>2, Zenon DEF IInv, OpsInv, TypeOK
<1>5. \A s \in Threads : pc'[s] \in Outside
  BY <1>3, <1>4, Zenon DEF Counted, Busy, Outside
<1>6. TypeOK'
  <2>1. filesystem' \in [Rows -> Filesystems \cup {NULL}] /\ alive' \subseteq Filesystems
    BY <1>1, Zenon DEF TypeOK
  <2> QED  BY <1>1, <1>3, <2>1, Zenon DEF TypeOK
<1>7. SemInv'
  <2>1. ~HasTable(pc'[t], call'[t].op) /\ ~HasFiles(pc'[t], call'[t].op)
    BY <1>3 DEF HasTable, HasFiles
  <2> QED  BY <1>1, <1>2, <1>3, <2>1, SemStep, Zenon DEF IInv
<1>8. OpsInv' /\ Tally
  <2>1. Busy' \subseteq Busy
    BY <1>3, Zenon
  <2> QED  BY <1>4, <2>1, Zenon DEF OpsInv, Tally
<1>9. MountInv'
  <2>1. \A r \in Rows : filesystem'[r] = NULL
    BY <1>1, Zenon
  <2>2. \A s \in Threads : ~Mounting(s)'
    BY <1>5 DEF Mounting, Outside
  <2> QED  BY <2>1, <2>2, Zenon DEF MountInv
<1>10. FoundInv'
  BY <1>5 DEF FoundInv, Outside
<1>11. FileInv'
  <2>1. ~(vfs_ops' > 0)
    BY <1>4
  <2>2. \A s \in Threads : Held(s)' \subseteq Held(s)
    BY <1>3, HeldOthers, Zenon
  <2>3. \A s \in Threads : \A f \in Held(s)' : files'[f] # NULL
    BY <1>1, <2>2, Zenon DEF IInv, FileInv
  <2>4. \A s, q \in Threads : s # q => Held(s)' \cap Held(q)' = {}
    BY <2>2, Zenon DEF IInv, FileInv
  <2>5. \A s \in Threads : pc'[s] \notin {"in_fs", "advance", "in_unmount"}
    BY <1>5 DEF Outside
  <2> QED  BY <1>4, <2>1, <2>3, <2>4, <2>5, Zenon DEF FileInv
<1> QED  BY <1>3, <1>6, <1>7, <1>8, <1>9, <1>10, <1>11, Zenon DEF IInv

-----------------------------------------------------------------------------
LEMMA StepInv ==
    ASSUME VFSAssumption, Least, IInv, Counted, Next
    PROVE  IInv' /\ Tally
<1>1. ASSUME NEW t \in Threads, Proceed(t) PROVE IInv' /\ Tally
  BY <1>1, vfs_end_op_Inv, name_lookup_Inv, vfs_mount_Inv, vfs_unmount_Inv, unmount_files_Inv,
     unmount_end_Inv, vfs_open_Inv, open_files_Inv, vfs_close_Inv, vfs_seek_Inv,
     vfs_read_write_Inv, fs_returns_Inv, open_undo_Inv, advance_Inv, deinit_wait_Inv,
     deinit_op_Inv, deinit_table_Inv, deinit_unmount_Inv, Zenon DEF Proceed
<1>2. ASSUME NEW t \in Threads, vfs_deinit(t) PROVE IInv' /\ Tally
  BY <1>2, vfs_deinit_Inv, Zenon
<1>3. ASSUME NEW t \in Threads, NEW c \in Inputs, vfs_start_op(t, c) PROVE IInv' /\ Tally
  BY <1>3, vfs_start_op_Inv, Zenon
<1> QED  BY <1>1, <1>2, <1>3, Zenon DEF Next

LEMMA StutterInv ==
    ASSUME IInv, UNCHANGED vars
    PROVE  IInv'
<1> USE DEF vars, mounts, sems
<1>1. TypeOK' /\ StageInv'
  BY Zenon DEF IInv, TypeOK, StageInv
<1>2. SemInv' /\ OpsInv'
  BY Zenon DEF IInv, SemInv, OpsInv
<1>3. MountInv'
  BY Zenon DEF IInv, MountInv, Mounting, Mounted
<1>4. FoundInv'
  BY Zenon DEF IInv, FoundInv, RowsNamed, Mounted
<1>5. FileInv'
  <2>1. \A t \in Threads : Held(t)' = Held(t)
    BY DEF Held
  <2>2. \A f : Mounted(f)' <=> Mounted(f)
    BY Zenon DEF Mounted
  <2> QED  BY <2>1, <2>2, Zenon DEF IInv, FileInv
<1> QED  BY <1>1, <1>2, <1>3, <1>4, <1>5, Zenon DEF IInv

INSTANCE FiniteSetTheorems
INSTANCE WellFoundedInduction

LEMMA SmallestIn == Least
<1> SUFFICES ASSUME NEW S \in SUBSET Nat, S # {} PROVE Smallest(S) \in S
  BY Zenon DEF Least
<1> DEFINE R == OpToRel(<, Nat)
<1>1. IsWellFoundedOn(R, Nat)
  BY NatLessThanWellFounded, Zenon
<1>2. \A x, y \in Nat : y < x => <<y, x>> \in R
  BY Zenon DEF OpToRel
<1> HIDE DEF R
<1>3. PICK x \in S : \A y \in S : ~(<<y, x>> \in R)
  BY <1>1, WFMin, Zenon
<1>4. ASSUME NEW y \in S PROVE x <= y
  <2>1. x \in Nat /\ y \in Nat /\ ~(y < x)
    BY <1>2, <1>3, Zenon
  <2> QED  BY <2>1
<1> QED  BY <1>4, Zenon DEF Smallest

LEMMA CountGives ==
    ASSUME CountInv
    PROVE  Counted
<1> SUFFICES ASSUME vfs_ops = 0 PROVE Busy = {}
  BY Zenon DEF Counted
<1>1. IsFiniteSet(Busy) /\ Cardinality(Busy) <= 0
  BY Zenon DEF CountInv
<1>2. Cardinality(Busy) \in Nat
  BY <1>1, FS_CardinalityType, Zenon
<1>3. Cardinality(Busy) = 0
  BY <1>1, <1>2
<1> QED  BY <1>1, <1>3, FS_EmptySet, Zenon

LEMMA CountStep ==
    ASSUME CountInv, Tally, vfs_ops \in Nat
    PROVE  CountInv'
<1>1. /\ IsFiniteSet(Busy) /\ Cardinality(Busy) \in Nat /\ Cardinality(Busy) <= vfs_ops
  BY FS_CardinalityType, Zenon DEF CountInv
<1>2. CASE Busy' \subseteq Busy /\ vfs_ops' = vfs_ops
  <2>1. IsFiniteSet(Busy') /\ Cardinality(Busy') <= Cardinality(Busy)
    BY <1>1, <1>2, FS_Subset, Zenon
  <2>2. Cardinality(Busy') \in Nat
    BY <2>1, FS_CardinalityType, Zenon
  <2>3. Cardinality(Busy') <= vfs_ops'
    BY <1>1, <1>2, <2>1, <2>2
  <2> QED  BY <2>1, <2>3, Zenon DEF CountInv
<1>3. ASSUME NEW t \in Threads, Busy' = Busy \cup {t}, vfs_ops' = vfs_ops + 1 PROVE CountInv'
  <2>1. /\ IsFiniteSet(Busy')
        /\ Cardinality(Busy') = Cardinality(Busy) \/ Cardinality(Busy') = Cardinality(Busy) + 1
    BY <1>1, <1>3, FS_AddElement, Zenon
  <2>2. Cardinality(Busy') <= vfs_ops'
    BY <1>1, <1>3, <2>1
  <2> QED  BY <2>1, <2>2, Zenon DEF CountInv
<1>4. ASSUME NEW t \in Busy, Busy' = Busy \ {t}, vfs_ops' = vfs_ops - 1 PROVE CountInv'
  <2>1. IsFiniteSet(Busy') /\ Cardinality(Busy') = Cardinality(Busy) - 1
    BY <1>1, <1>4, FS_RemoveElement, Zenon
  <2>2. Cardinality(Busy') <= vfs_ops'
    BY <1>1, <1>4, <2>1
  <2> QED  BY <2>1, <2>2, Zenon DEF CountInv
<1> QED  BY <1>2, <1>3, <1>4, Zenon DEF Tally

LEMMA VfsInvariant == Spec => [](IInv /\ CountInv)
<1>1. Init => IInv /\ CountInv
  <2> SUFFICES ASSUME Init PROVE CountInv
    BY VFSAssumption, InitInv, Zenon
  <2>1. Busy = {} /\ vfs_ops = 0
    BY DEF Init, Busy
  <2>2. IsFiniteSet(Busy) /\ Cardinality(Busy) = 0
    BY <2>1, FS_EmptySet, Zenon
  <2>3. Cardinality(Busy) <= vfs_ops
    BY <2>1, <2>2
  <2> QED  BY <2>2, <2>3, Zenon DEF CountInv
<1>2. ASSUME IInv, CountInv, Next PROVE IInv' /\ CountInv'
  <2>1. IInv' /\ Tally
    BY <1>2, VFSAssumption, SmallestIn, CountGives, StepInv, Zenon
  <2> QED  BY <1>2, <2>1, CountStep, Zenon DEF IInv, TypeOK
<1>3. ASSUME IInv, CountInv, UNCHANGED vars PROVE IInv' /\ CountInv'
  BY <1>3, StutterInv, Zenon DEF CountInv, Busy, vars
<1>4. IInv /\ CountInv /\ [Next]_vars => (IInv /\ CountInv)'
  BY <1>2, <1>3, Zenon
<1> QED  BY <1>1, <1>4, PTL DEF Spec

\* A filesystem is called only between its mount and its unmount, whichever
\* semaphores the callers hold: vfs_unmount and vfs_deinit free no filesystem that a
\* call is inside of, the row of an open file keeps its filesystem while its owner
\* reads or writes through it, and vfs_deinit goes on only when no operation is left.
THEOREM CallsStaySafe == Spec => []CallsSafe
<1>1. IInv /\ CountInv => CallsSafe
  <2> SUFFICES ASSUME IInv, CountInv, NEW t \in Threads
               PROVE  /\ pc[t] \in {"in_fs", "in_unmount"} => call[t].fs \in alive
                      /\ (pc[t] \in {"in_fs", "advance"} /\ call[t].op \in {"read", "write"})
                            => files[call[t].file] = call[t].fs
                      /\ pc[t] \in {"halt_table", "halt_files", "halted"} => vfs_ops = 0 /\ Busy = {}
    BY Zenon DEF CallsSafe
  <2>1. TypeOK /\ Stage(pc[t], call[t], ret[t], handles[t])
    BY Zenon DEF IInv, StageInv
  <2>2. ASSUME Mounted(call[t].fs), call[t].fs # NULL PROVE call[t].fs \in alive
    BY <2>2, Zenon DEF IInv, MountInv, Mounted
  <2>3. ASSUME pc[t] = "in_unmount" PROVE call[t].fs \in alive
    <3>1. /\ call[t].fs # NULL /\ RowsNamed(call[t].name) # {}
          /\ filesystem[Smallest(RowsNamed(call[t].name))] = call[t].fs
      BY <2>3, Zenon DEF IInv, FoundInv
    <3>2. RowsNamed(call[t].name) \subseteq Rows /\ RowsNamed(call[t].name) \subseteq Nat
      BY VFSAssumption, Zenon DEF RowsNamed
    <3>3. Smallest(RowsNamed(call[t].name)) \in Rows
      BY <3>1, <3>2, SmallestIn, Zenon DEF Least
    <3> QED  BY <2>2, <3>1, <3>3, Zenon DEF Mounted
  <2>4. ASSUME pc[t] = "in_fs", call[t].op \in NameOps PROVE call[t].fs \in alive
    BY <2>2, <2>4, Zenon DEF IInv, FoundInv
  <2>5. ASSUME pc[t] \in {"in_fs", "advance"}, call[t].op \in FileOps \cup {"open"}
        PROVE  files[call[t].file] = call[t].fs
    BY <2>5, Zenon DEF IInv, FileInv
  <2>6. ASSUME pc[t] = "in_fs", call[t].op \in FileOps \cup {"open"} PROVE call[t].fs \in alive
    <3>1. call[t].file \in Held(t) /\ call[t].file \in OpenFiles
      BY <2>6, VFSAssumption, HeldFile, Zenon
    <3>2. call[t].fs # NULL /\ files[call[t].file] = call[t].fs
      BY <2>5, <2>6, <3>1, Zenon DEF IInv, FileInv
    <3>3. vfs_ops > 0
      <4>1. Busy # {}
        BY <2>6 DEF Busy
      <4>2. vfs_ops # 0 /\ vfs_ops \in Nat
        BY <2>1, <4>1, CountGives, Zenon DEF TypeOK, Counted
      <4> QED  BY <4>2
    <3>4. Mounted(call[t].fs)
      BY <3>1, <3>2, <3>3, Zenon DEF IInv, FileInv
    <3> QED  BY <2>2, <3>2, <3>4, Zenon
  <2>7. pc[t] = "in_fs" => call[t].op \in NameOps \/ call[t].op \in FileOps \cup {"open"}
    BY <2>1 DEF Stage, FileOps
  <2>8. ASSUME pc[t] \in {"halt_table", "halt_files", "halted"} PROVE vfs_ops = 0 /\ Busy = {}
    <3>1. pc[t] \in Halting \ {"halt_wait"}
      BY <2>8 DEF Halting, Outside
    <3>2. vfs_ops = 0
      BY <3>1, Zenon DEF IInv, OpsInv
    <3> QED  BY <3>2, CountGives, Zenon DEF Counted
  <2>9. call[t].op \in {"read", "write"} => call[t].op \in FileOps
    BY Zenon DEF FileOps
  <2> QED  BY <2>3, <2>4, <2>5, <2>6, <2>7, <2>8, <2>9, Zenon
<1> QED  BY <1>1, VfsInvariant, PTL

\* An open file has one owner: a row of openfile_table is among the handles of one
\* process, or being opened by one thread, and never both.
THEOREM HandlesStayExclusive == Spec => []HandlesExclusive
<1>1. IInv => HandlesExclusive
  <2> SUFFICES ASSUME IInv PROVE HandlesExclusive
    BY Zenon
  <2>1. ASSUME NEW t \in Threads PROVE Owned(t) \subseteq Held(t)
    <3>1. TypeOK /\ Stage(pc[t], call[t], ret[t], handles[t]) /\ NULL \notin OpenFiles
      BY VFSAssumption, Zenon DEF IInv, StageInv
    <3>2. ASSUME NEW f \in OpenFiles, call[t].op = "open", call[t].file = f, ret[t] # "fs_error"
          PROVE  pc[t] \in {"in_fs", "open_undo"} \/ (pc[t] = "end" /\ ret[t] = "VFS_OK")
      BY <3>1, <3>2 DEF Stage
    <3> QED  BY <3>2, Zenon DEF Owned, Held
  <2>2. \A s, t \in Threads : s # t => Held(s) \cap Held(t) = {}
    BY Zenon DEF IInv, FileInv
  <2> QED  BY <2>1, <2>2, Zenon DEF IInv, HandlesExclusive
<1> QED  BY <1>1, VfsInvariant, PTL
=============================================================================
