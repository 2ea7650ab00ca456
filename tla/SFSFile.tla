------------------------------- MODULE SFSFile --------------------------------
(***************************************************************************)
(* Reading and writing one open file of the student filesystem (fs/sfs.c,  *)
(* sfs_read and sfs_write): the readers-writers protocol on the entry of   *)
(* the file and the transfer block by block.                               *)
(*                                                                         *)
(* Every thread has the file open, so sfs_enter finds the entry and        *)
(* sfs_exit does not touch it (EntriesExact of SFS).  A section that holds *)
(* io_lock is one step up to where it waits for io_cond, which Monitor     *)
(* allows; the woken waiters take the lock again one by one.  Blocks are   *)
(* read and written one at a time and do not fail: the driver reports no   *)
(* errors (Disk).                                                          *)
(***************************************************************************)
EXTENDS Integers, Sequences, FiniteSets

CONSTANTS
    Users,
    NULL,
    SFS_VBLOCK_SIZE,
    FileSize,          \* inode.filesize
    Bytes,
    Calls              \* the calls that each thread makes: [op, offset, size, data]

LastBlock == (FileSize - 1) \div SFS_VBLOCK_SIZE

SFSFileAssumption ==
    /\ SFS_VBLOCK_SIZE \in Nat \ {0} /\ FileSize \in Nat \ {0}
    /\ IsFiniteSet(Users) /\ NULL \notin Users \cup Bytes /\ 0 \in Bytes
    /\ \A t \in Users : \A c \in Calls[t] :
        /\ c.op \in {"read", "write"} /\ c.offset \in Nat /\ c.size \in Nat
        /\ c.op = "write" => \A k \in 0..(c.size - 1) : c.data[k] \in Bytes

VARIABLES
    block,             \* the data blocks of the file
    readernum, writer_tid,
    file_pc,           \* where a thread is in its call
    call,              \* its arguments
    size,              \* its bufsize or datasize, cut to the end of the file
    b1,                \* the block it is at
    count,             \* bytes moved so far: read or written, -1 for VFS_ERROR
    out,               \* the bytes read so far
    bat                \* its block buffer, on its stack

file_vars == <<block, readernum, writer_tid, file_pc, call, size, b1, count, out, bat>>
locals == <<call, size, b1, count, out, bat>>

Min(m, n) == IF m < n THEN m ELSE n

Junk == [i \in 0..(SFS_VBLOCK_SIZE - 1) |-> NULL]

Move(t, p) == file_pc' = [file_pc EXCEPT ![t] = p]

\* condition_broadcast by t: every waiter goes back to test its condition.
Broadcast(t, p) ==
    file_pc' = [u \in Users |->
                   CASE u = t -> p
                     [] u # t /\ file_pc[u] = "wait_read" -> "read"
                     [] u # t /\ file_pc[u] = "wait_write" -> "write"
                     [] u # t /\ file_pc[u] = "wait_readers" -> "readers"
                     [] OTHER -> file_pc[u]]
-----------------------------------------------------------------------------
Call(t, c) ==
    /\ file_pc[t] = "idle"
    /\ Move(t, c.op)
    /\ call' = [call EXCEPT ![t] = c]
    /\ UNCHANGED <<block, readernum, writer_tid, size, b1, count, out, bat>>

read_enter(t) ==
    /\ file_pc[t] = "read"
    /\ IF writer_tid # NULL THEN Move(t, "wait_read") /\ UNCHANGED readernum
       ELSE Move(t, "inode") /\ readernum' = readernum + 1
    /\ UNCHANGED <<block, writer_tid, locals>>

\* Faulty: a writer does not wait for the readers inside.
write_enter_bug(t) ==
    /\ file_pc[t] = "write"
    /\ IF writer_tid # NULL THEN Move(t, "wait_write") /\ UNCHANGED writer_tid
       ELSE writer_tid' = t /\ Move(t, "inode")
    /\ UNCHANGED <<block, readernum, locals>>

write_enter(t) ==
    /\ file_pc[t] = "write"
    /\ IF writer_tid # NULL THEN Move(t, "wait_write") /\ UNCHANGED writer_tid
       ELSE /\ writer_tid' = t
            /\ Move(t, IF readernum > 0 THEN "wait_readers" ELSE "inode")
    /\ UNCHANGED <<block, readernum, locals>>

\* A writer that has announced itself waits until the readers have left.
write_readers(t) ==
    /\ file_pc[t] = "readers"
    /\ Move(t, IF readernum > 0 THEN "wait_readers" ELSE "inode")
    /\ UNCHANGED <<block, readernum, writer_tid, locals>>

\* Read the inode, check the offset and cut the size to the end of the file.
read_inode(t) ==
    LET c == call[t]
        n == IF c.offset > FileSize THEN -1 ELSE Min(c.size, FileSize - c.offset)
    IN
    /\ file_pc[t] = "inode"
    /\ size' = [size EXCEPT ![t] = n]
    /\ IF n <= 0
       THEN Move(t, "end") /\ count' = [count EXCEPT ![t] = n] /\ UNCHANGED b1
       ELSE /\ Move(t, "block") /\ UNCHANGED count
            /\ b1' = [b1 EXCEPT ![t] = c.offset \div SFS_VBLOCK_SIZE]
    /\ UNCHANGED <<block, readernum, writer_tid, call, out, bat>>
-----------------------------------------------------------------------------
(* The blocks from b1 to b2.  The first and the last may be partial.       *)

b2(t) == (call[t].offset + size[t] - 1) \div SFS_VBLOCK_SIZE

\* Where in the block the transfer starts, and its length.
Start(t) == IF count[t] = 0 THEN call[t].offset % SFS_VBLOCK_SIZE ELSE 0

Piece(t) ==
    IF count[t] = 0
    THEN Min(SFS_VBLOCK_SIZE - Start(t), size[t])
    ELSE IF b1[t] = b2(t) THEN size[t] - count[t] ELSE SFS_VBLOCK_SIZE

Advance(t) ==
    /\ count' = [count EXCEPT ![t] = @ + Piece(t)]
    /\ b1' = [b1 EXCEPT ![t] = @ + 1]
    /\ Move(t, IF b1[t] < b2(t) THEN "block" ELSE "end")

read_block(t) ==
    /\ file_pc[t] = "block" /\ call[t].op = "read"
    /\ out' = [out EXCEPT ![t] =
                 @ \o [k \in 1..Piece(t) |-> block[b1[t]][Start(t) + k - 1]]]
    /\ Advance(t)
    /\ UNCHANGED <<block, readernum, writer_tid, call, size, bat>>

\* Faulty: only the first block is read before it is partly written.
fill_block_bug(t) ==
    LET old == IF count[t] = 0 THEN block[b1[t]] ELSE bat[t] IN
    /\ file_pc[t] = "block" /\ call[t].op = "write"
    /\ bat' = [bat EXCEPT ![t] =
                 [i \in 0..(SFS_VBLOCK_SIZE - 1) |->
                     IF Start(t) <= i /\ i < Start(t) + Piece(t)
                     THEN call[t].data[count[t] + i - Start(t)] ELSE old[i]]]
    /\ Move(t, "store")
    /\ UNCHANGED <<block, readernum, writer_tid, call, size, b1, count, out>>

\* Read a block that is only partly written, and copy the data over it.
fill_block(t) ==
    LET old == IF Piece(t) < SFS_VBLOCK_SIZE THEN block[b1[t]] ELSE bat[t] IN
    /\ file_pc[t] = "block" /\ call[t].op = "write"
    /\ bat' = [bat EXCEPT ![t] =
                 [i \in 0..(SFS_VBLOCK_SIZE - 1) |->
                     IF Start(t) <= i /\ i < Start(t) + Piece(t)
                     THEN call[t].data[count[t] + i - Start(t)] ELSE old[i]]]
    /\ Move(t, "store")
    /\ UNCHANGED <<block, readernum, writer_tid, call, size, b1, count, out>>

write_block(t) ==
    /\ file_pc[t] = "store"
    /\ block' = [block EXCEPT ![b1[t]] = bat[t]]
    /\ Advance(t)
    /\ UNCHANGED <<readernum, writer_tid, call, size, out, bat>>
-----------------------------------------------------------------------------
\* The call returns; its locals are forgotten.
Forget(t) ==
    /\ call' = [call EXCEPT ![t] = NULL]
    /\ size' = [size EXCEPT ![t] = 0]
    /\ b1' = [b1 EXCEPT ![t] = 0]
    /\ count' = [count EXCEPT ![t] = 0]
    /\ out' = [out EXCEPT ![t] = <<>>]
    /\ bat' = [bat EXCEPT ![t] = Junk]

sfs_end_read(t) ==
    /\ file_pc[t] = "end" /\ call[t].op = "read"
    /\ readernum' = readernum - 1
    /\ IF readernum' = 0 THEN Broadcast(t, "idle") ELSE Move(t, "idle")
    /\ Forget(t) /\ UNCHANGED <<block, writer_tid>>

\* Faulty: the writer does not tell those who wait.
sfs_end_write_bug(t) ==
    /\ file_pc[t] = "end" /\ call[t].op = "write"
    /\ writer_tid' = NULL
    /\ Move(t, "idle")
    /\ Forget(t) /\ UNCHANGED <<block, readernum>>

sfs_end_write(t) ==
    /\ file_pc[t] = "end" /\ call[t].op = "write"
    /\ writer_tid' = NULL
    /\ Broadcast(t, "idle")
    /\ Forget(t) /\ UNCHANGED <<block, readernum>>
-----------------------------------------------------------------------------
\* sfs_create has zeroed the blocks.
FileInit ==
    /\ block = [b \in 0..LastBlock |-> [i \in 0..(SFS_VBLOCK_SIZE - 1) |-> 0]]
    /\ readernum = 0 /\ writer_tid = NULL
    /\ file_pc = [t \in Users |-> "idle"]
    /\ call = [t \in Users |-> NULL]
    /\ size = [t \in Users |-> 0]
    /\ b1 = [t \in Users |-> 0]
    /\ count = [t \in Users |-> 0]
    /\ out = [t \in Users |-> <<>>]
    /\ bat = [t \in Users |-> Junk]

GoOn(t) ==
    \/ read_enter(t) \/ write_enter(t) \/ write_readers(t) \/ read_inode(t)
    \/ read_block(t) \/ fill_block(t) \/ write_block(t)
    \/ sfs_end_read(t) \/ sfs_end_write(t)

NewCall == \E t \in Users : \E c \in Calls[t] : Call(t, c)

FileNext == NewCall \/ \E t \in Users : GoOn(t)

FileSpec == FileInit /\ [][FileNext]_file_vars

\* A thread in a call is run until it returns.
FairFileSpec == FileSpec /\ \A t \in Users : WF_file_vars(GoOn(t))
-----------------------------------------------------------------------------
FileTypeOK ==
    /\ block \in [0..LastBlock -> [0..(SFS_VBLOCK_SIZE - 1) -> Bytes]]
    /\ readernum \in Nat /\ writer_tid \in Users \cup {NULL}
    /\ \A t \in Users : b1[t] \in 0..(LastBlock + 1) /\ count[t] \in -1..FileSize

Inside(op) == {t \in Users : file_pc[t] \in {"inode", "block", "store", "end"} /\ call[t].op = op}

\* The entry counts the threads inside: readernum is the number of readers that
\* have entered and not left, writer_tid the one writer that has announced
\* itself, and readers are inside only while that writer still waits for them.
\* (And every variable has its type.)
ReadersCounted ==
    /\ FileTypeOK
    /\ readernum = Cardinality(Inside("read"))
    /\ \A t \in Users :
        (t = writer_tid) <=> (t \in Inside("write") \/ file_pc[t] \in {"wait_readers", "readers"})
    /\ Inside("write") # {} => Inside("read") = {}

\* A write takes effect when its transfer begins, a read when it ends.
Written == {t \in Inside("write") : file_pc[t] # "inode"}

BytesOnDisk ==
    [k \in 0..(FileSize - 1) |-> block[k \div SFS_VBLOCK_SIZE][k % SFS_VBLOCK_SIZE]]

\* The bytes of the file once the writers inside have finished.
BytesInEffect ==
    [k \in 0..(FileSize - 1) |->
        IF \E t \in Written : call[t].offset <= k /\ k < call[t].offset + size[t]
        THEN LET t == CHOOSE u \in Written : TRUE IN call[t].data[k - call[t].offset]
        ELSE BytesOnDisk[k]]

Outcome(t) ==
    CASE t \in Written ->
            [count |-> IF file_pc[t] = "end" THEN count[t] ELSE size[t], bytes |-> <<>>]
      [] t \in Inside("read") /\ file_pc[t] = "end" ->
            [count |-> count[t], bytes |-> out[t]]
      [] OTHER -> NULL

BF == INSTANCE ByteFile WITH
    content <- BytesInEffect, result <- [t \in Users |-> Outcome(t)]

\* A file behaves as a sequence of bytes on which every sfs_read and sfs_write
\* acts in one step: although both move one block at a time, no read sees part
\* of a write, no write loses part of another or changes a byte outside its
\* range, and each moves as many bytes as lie between its offset and the end.
ImplementsByteFile == BF!Spec

\* Once no new calls are made, every call returns: no reader or writer waits
\* for a broadcast on io_cond that does not come.
EveryCallReturns ==
    <>[][~NewCall]_file_vars => <>[](\A t \in Users : file_pc[t] = "idle")

=============================================================================
