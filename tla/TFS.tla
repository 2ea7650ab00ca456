--------------------------------- MODULE TFS ---------------------------------
(***************************************************************************)
(* The Trivial Filesystem: the kernel's implementation (fs/tfs.c) and the  *)
(* host's tool for its disk images (util/tfstool.c), which work on the     *)
(* same volume by turns.                                                   *)
(*                                                                         *)
(* Every operation of tfs.c holds tfs->lock and first reads all it needs,  *)
(* so the reads and the computation are one step, which leaves the blocks  *)
(* that are still to be written, in order, in `writes'.  Each of these     *)
(* writes may fail, or the machine may stop before it.  The tool runs      *)
(* alone and to its end.  An operation that returns an error before it has *)
(* written anything changes nothing and is not a step.                     *)
(*                                                                         *)
(* File names are not empty.  A file that is removed while it is open is   *)
(* not used afterwards: its id would name a block that is now free.        *)
(***************************************************************************)
EXTENDS Integers, Sequences, FiniteSets, FiniteSetsExt, SequencesExt

CONSTANTS
    Names, NoName,
    TFS_BLOCK_SIZE,
    TFS_BLOCKS_MAX,          \* block numbers that fit in an inode
    TFS_MAX_FILES,
    totalblocks,
    Sizes,                   \* bound: sizes asked of tfs_create
    Texts,                   \* bound: what is written
    Faults                   \* bound: failed writes and crashes

Slots == 0..(TFS_MAX_FILES - 1)
SystemBlocks == {0, 1, 2}    \* header, allocation table, directory
DataBlocks == 3..(totalblocks - 1)
TFS_MAX_FILESIZE == TFS_BLOCK_SIZE * TFS_BLOCKS_MAX
None == <<-1>>               \* the content of a file that does not exist

VARIABLES
    bat, md, blk,            \* on the disk: allocated blocks, directory, the rest
    mounted,                 \* the kernel runs with the volume mounted
    writes,                  \* blocks the operation at work has still to write
    op,                      \* the operation at work: its name, its file, its effect
    promised,                \* history: what each file holds
    torn, leaked, faults     \* history: where a failure left the volume

disk == <<bat, md, blk>>
vars == <<disk, mounted, writes, op, promised, torn, leaked, faults>>

Inode(size, blocks) == [filesize |-> size, words |-> blocks]
Data(bytes) == [filesize |-> -1, words |-> bytes]
\* A block as bytes; those of an inode that was there before count as ones.
Bytes(b) == [x \in 1..TFS_BLOCK_SIZE |-> IF blk[b].filesize = -1 THEN blk[b].words[x] ELSE 1]
Zeros(n) == [k \in 1..n |-> 0]
NoOp == [kind |-> "none", name |-> NoName, effect |-> None]

Entries(n) == {s \in Slots : md[s].name = n}
FreeSlots == {s \in Slots : md[s].inode = 0}
inode(n) == md[CHOOSE s \in Entries(n) : TRUE].inode
-----------------------------------------------------------------------------
Free == totalblocks - Cardinality(bat)

\* bitmap_findnset, called n times: the first n free blocks, if there are n.
findnset(n) ==
    SubSeq(SetToSortSeq((0..(totalblocks - 1)) \ bat, <), 1, Min({n, Free}))

tfs_getfree == Free * TFS_BLOCK_SIZE

\* The parts of the blocks of a file that hold len bytes from offset on: the
\* index of the block, where its part begins, and how long it is.  The first
\* and the last block need not be whole.
Parts(offset, len) ==
    LET b1 == offset \div TFS_BLOCK_SIZE
        b2 == (offset + len - 1) \div TFS_BLOCK_SIZE
        first == Min({TFS_BLOCK_SIZE - (offset % TFS_BLOCK_SIZE), len})
    IN  [k \in 1..(b2 - b1 + 1) |->
            [block |-> b1 + k,
             from |-> IF k = 1 THEN offset % TFS_BLOCK_SIZE ELSE 0,
             len |-> IF k = 1 THEN first
                     ELSE IF b1 + k - 1 = b2
                     THEN len - first - (k - 2) * TFS_BLOCK_SIZE
                     ELSE TFS_BLOCK_SIZE]]

\* tfs_read: bytes of the file with this id.
tfs_read(fileid, bufsize, offset) ==
    LET ino == blk[fileid]
        len == Min({bufsize, ino.filesize - offset})
        piece(p) == SubSeq(Bytes(ino.words[p.block]), p.from + 1, p.from + p.len)
    IN  IF len = 0 THEN <<>>
        ELSE FoldLeft(LAMBDA acc, p : acc \o piece(p), <<>>, Parts(offset, len))

\* tfstool_read: copy block after block, each as far as the file goes.
tfstool_read(n) ==
    LET ino == blk[inode(n)]
    IN  FoldLeft(LAMBDA acc, b :
                    acc \o SubSeq(Bytes(b), 1,
                                  Min({TFS_BLOCK_SIZE, ino.filesize - Len(acc)})),
                <<>>, ino.words)
-----------------------------------------------------------------------------
Idle == mounted /\ op = NoOp /\ ~torn

Begin(kind, n, effect, plan) ==
    /\ op' = [kind |-> kind, name |-> n, effect |-> effect]
    /\ writes' = plan
    /\ UNCHANGED <<disk, mounted, promised, torn, leaked, faults>>

WriteBat(b) == [to |-> "bat", block |-> 1, what |-> b]
WriteMd(d) == [to |-> "md", block |-> 2, what |-> d]
WriteBlk(to, b, c) == [to |-> to, block |-> b, what |-> c]

\* tfs_create takes the last free entry of the directory.  The order of its
\* writes: allocation table, directory, inode, and the zeros.
tfs_create(n, size) ==
    LET numblocks == (size + TFS_BLOCK_SIZE - 1) \div TFS_BLOCK_SIZE
        bs == findnset(numblocks + 1)
        data == SubSeq(bs, 2, numblocks + 1)
    IN  /\ Idle /\ numblocks <= TFS_BLOCKS_MAX
        /\ Entries(n) = {} /\ FreeSlots # {} /\ numblocks + 1 <= Free
        /\ Begin("create", n, Zeros(size),
                 <<WriteBat(bat \cup ToSet(bs)),
                   WriteMd([md EXCEPT ![Max(FreeSlots)] = [inode |-> bs[1], name |-> n]]),
                   WriteBlk("inode", bs[1], Inode(size, data))>>
                 \o [k \in 1..numblocks |->
                        WriteBlk("data", data[k], Data(Zeros(TFS_BLOCK_SIZE)))])

\* Faulty: the data blocks of the file stay allocated.
Freed_bug(n) == bat \ {inode(n)}

\* The allocation table without the blocks of the file.
Freed(n) == bat \ ({inode(n)} \cup ToSet(blk[inode(n)].words))

Erased(n) == [md EXCEPT ![CHOOSE s \in Entries(n) : TRUE] = [inode |-> 0, name |-> NoName]]

\* tfs_remove: allocation table, then directory.
tfs_remove(n) ==
    /\ Idle /\ Entries(n) # {}
    /\ Begin("remove", n, None, <<WriteBat(Freed(n)), WriteMd(Erased(n))>>)

\* old with the bytes of new from position from on.
Overwrite(old, from, new) ==
    [k \in 1..Len(old) |-> IF k \in (from + 1)..(from + Len(new)) THEN new[k - from] ELSE old[k]]

\* Faulty: a block that is written in part is not read first.
Merge_bug(b, from, new) == Overwrite(Zeros(TFS_BLOCK_SIZE), from, new)

\* What is written to block b: only a part of it need be new.
Merge(b, from, new) == Overwrite(Bytes(b), from, new)

\* tfs_write never makes a file longer.
tfs_write(n, text, offset) ==
    LET ino == blk[inode(n)]
        len == Min({Len(text), ino.filesize - offset})
        parts == Parts(offset, len)
        start(k) == FoldLeft(LAMBDA acc, p : acc + p.len, 0, SubSeq(parts, 1, k - 1))
    IN  /\ Idle /\ Entries(n) # {} /\ offset <= ino.filesize /\ len > 0
        /\ Begin("write", n, Overwrite(promised[n], offset, SubSeq(text, 1, len)),
                 [k \in 1..Len(parts) |->
                    LET b == ino.words[parts[k].block] IN
                    WriteBlk("data", b,
                             Data(Merge(b, parts[k].from,
                                        SubSeq(text, start(k) + 1, start(k) + parts[k].len))))])

\* The next block is written; with the last one the operation is done.
disk_write_block ==
    /\ writes # <<>>
    /\ LET w == Head(writes) IN
       /\ bat' = IF w.to = "bat" THEN w.what ELSE bat
       /\ md' = IF w.to = "md" THEN w.what ELSE md
       /\ blk' = IF w.to \in {"inode", "data"} THEN [blk EXCEPT ![w.block] = w.what] ELSE blk
    /\ writes' = Tail(writes)
    /\ IF Len(writes) = 1
       THEN promised' = [promised EXCEPT ![op.name] = op.effect] /\ op' = NoOp
       ELSE UNCHANGED <<promised, op>>
    /\ UNCHANGED <<mounted, torn, leaked, faults>>
-----------------------------------------------------------------------------
\* The kernel's view of a file: all of it, or None.
Contents(n) ==
    IF Entries(n) = {} THEN None
    ELSE tfs_read(inode(n), TFS_MAX_FILESIZE, 0)

\* The next write is not done, and neither are the rest: the disk returns an
\* error, or the machine stops.  The file at hand is left half written.  Two
\* places tear the volume: a new directory entry without its inode, and freed
\* blocks still in the directory.
WriteFails(crash) ==
    /\ writes # <<>> /\ faults < Faults
    /\ LET w == Head(writes)
           cut == w.to = "inode" \/ (w.to = "md" /\ op.kind = "remove")
       IN  /\ torn' = cut
           /\ leaked' = (leaked \/ (w.to = "md" /\ op.kind = "create"))
           /\ promised' = [promised EXCEPT ![op.name] = IF cut THEN @ ELSE Contents(op.name)]
    /\ writes' = <<>> /\ op' = NoOp
    /\ mounted' = ~crash
    /\ faults' = faults + 1
    /\ UNCHANGED disk

\* tfs_init finds the volume by its magic number; tfs_unmount waits for the lock.
tfs_init ==
    /\ ~mounted /\ ~torn
    /\ mounted' = TRUE
    /\ UNCHANGED <<disk, writes, op, promised, torn, leaked, faults>>

tfs_unmount ==
    /\ Idle
    /\ mounted' = FALSE
    /\ UNCHANGED <<disk, writes, op, promised, torn, leaked, faults>>
-----------------------------------------------------------------------------
\* tfstool_createvol, on a new image.
EmptyVolume ==
    /\ bat = SystemBlocks
    /\ md = [s \in Slots |-> [inode |-> 0, name |-> NoName]]
    /\ blk = [b \in DataBlocks |-> Data(Zeros(TFS_BLOCK_SIZE))]

tfstool_createvol ==
    /\ torn
    /\ bat' = SystemBlocks
    /\ md' = [s \in Slots |-> [inode |-> 0, name |-> NoName]]
    /\ blk' = [b \in DataBlocks |-> Data(Zeros(TFS_BLOCK_SIZE))]
    /\ mounted' = FALSE /\ torn' = FALSE /\ leaked' = FALSE
    /\ promised' = [n \in Names |-> None]
    /\ UNCHANGED <<writes, op, faults>>

\* How many blocks the tool takes for a file: it sees the end of the file only
\* when it reads beyond it, so a file of whole blocks gets one more.
ToolBlocks(size) ==
    IF size = TFS_MAX_FILESIZE THEN TFS_BLOCKS_MAX ELSE size \div TFS_BLOCK_SIZE + 1

\* The k-th block of the text, filled up with what the buffer held before (ones).
ToolBlock(text, k) ==
    [x \in 1..TFS_BLOCK_SIZE |->
        LET y == (k - 1) * TFS_BLOCK_SIZE + x IN IF y <= Len(text) THEN text[y] ELSE 1]

\* tfstool_write takes the first free entry of the directory.  When the blocks
\* do not suffice it has already written to free blocks.
tfstool_write(n, text) ==
    LET want == ToolBlocks(Len(text))
        bs == findnset(want + 1)
        data == SubSeq(bs, 2, Len(bs))
        fits == Len(bs) = want + 1
    IN  /\ ~mounted /\ ~torn /\ Entries(n) = {} /\ FreeSlots # {} /\ bs # <<>>
        /\ Len(text) <= TFS_MAX_FILESIZE
        /\ blk' = [b \in DataBlocks |->
                      IF b = bs[1] /\ fits THEN Inode(Len(text), data)
                      ELSE IF b \in ToSet(data)
                      THEN Data(ToolBlock(text, CHOOSE k \in DOMAIN data : data[k] = b))
                      ELSE blk[b]]
        /\ IF fits
           THEN /\ md' = [md EXCEPT ![Min(FreeSlots)] = [inode |-> bs[1], name |-> n]]
                /\ bat' = bat \cup ToSet(bs)
                /\ promised' = [promised EXCEPT ![n] = text]
           ELSE UNCHANGED <<md, bat, promised>>
        /\ UNCHANGED <<mounted, writes, op, torn, leaked, faults>>

tfstool_delete(n) ==
    /\ ~mounted /\ ~torn /\ Entries(n) # {}
    /\ bat' = Freed(n) /\ md' = Erased(n)
    /\ promised' = [promised EXCEPT ![n] = None]
    /\ UNCHANGED <<blk, mounted, writes, op, torn, leaked, faults>>
-----------------------------------------------------------------------------
Init ==
    /\ EmptyVolume
    /\ mounted = FALSE /\ writes = <<>> /\ op = NoOp
    /\ promised = [n \in Names |-> None]
    /\ torn = FALSE /\ leaked = FALSE /\ faults = 0

Next ==
    \/ \E n \in Names :
        \/ \E size \in Sizes : tfs_create(n, size)
        \/ tfs_remove(n) \/ tfstool_delete(n)
        \/ \E text \in Texts :
            \/ \E offset \in 0..TFS_MAX_FILESIZE : tfs_write(n, text, offset)
            \/ tfstool_write(n, text)
    \/ disk_write_block
    \/ \E crash \in BOOLEAN : WriteFails(crash)
    \/ tfs_init \/ tfs_unmount \/ tfstool_createvol

Spec == Init /\ [][Next]_vars
-----------------------------------------------------------------------------
TypeOK ==
    /\ bat \subseteq 0..(totalblocks - 1)
    /\ md \in [Slots -> [inode : DataBlocks \cup {0}, name : Names \cup {NoName}]]
    /\ DOMAIN blk = DataBlocks /\ DOMAIN promised = Names
    /\ mounted \in BOOLEAN /\ torn \in BOOLEAN /\ leaked \in BOOLEAN
    /\ faults \in 0..Faults

Used == Slots \ FreeSlots
BlocksOf(s) == {md[s].inode} \cup ToSet(blk[md[s].inode].words)

\* Between operations the volume is consistent, after any number of failed
\* writes and crashes outside the two places that tear it: no two files share a
\* block or a name, every block of a file is allocated, a file has the blocks its
\* size needs, and nothing else is allocated but what a create lost that failed
\* between its first two writes.
VolumeConsistent ==
    /\ TypeOK
    /\ ~torn /\ op = NoOp =>
        /\ \A s, u \in Used : s # u => /\ BlocksOf(s) \cap BlocksOf(u) = {}
                                       /\ md[s].name # md[u].name
        /\ \A s \in Slots : md[s].inode = 0 <=> md[s].name = NoName
        /\ \A s \in Used :
            LET ino == blk[md[s].inode] IN
            /\ ino.filesize >= 0 /\ ino.filesize <= TFS_BLOCK_SIZE * Len(ino.words)
            /\ Len(ino.words) <= TFS_BLOCKS_MAX
        /\ LET known == SystemBlocks \cup UNION {BlocksOf(s) : s \in Used} IN
           /\ known \subseteq bat
           /\ leaked \/ tfs_getfree = (totalblocks - Cardinality(known)) * TFS_BLOCK_SIZE

\* What was written is what is read, by the kernel and by the tool, whichever
\* of them wrote it, from every offset; and an operation on one file, even one
\* that fails half-way, changes no other file.
ContentsKept ==
    ~torn /\ op = NoOp =>
        \A n \in Names :
            /\ promised[n] = None <=> Entries(n) = {}
            /\ Entries(n) # {} =>
                /\ tfstool_read(n) = promised[n]
                /\ \A offset \in 0..Len(promised[n]), len \in 1..TFS_MAX_FILESIZE :
                    tfs_read(inode(n), len, offset)
                        = SubSeq(promised[n], offset + 1,
                                 Min({offset + len, Len(promised[n])}))
=============================================================================
