# A TLA+ model of BUENOS

BUENOS is a small multiprocessor teaching kernel that runs on the YAMS machine
simulator.  This directory specifies its concurrent parts in TLA+, checks them
with TLC on small instances, and proves with TLAPS, for instances of every size,
the safety of its scheduler, semaphores, locks, disk and network drivers, memory
and process table.  The reference is the C code in `src/`, built with the flags
of `src/Makefile` (`CHANGED_1` to `CHANGED_5` and `CHANGED_ADDITIONAL_1` are
defined); definitions keep the names of the functions they model, and
`PROJECT.json` gives the lines of each.

## The system

| Part | Source | State | Operations |
|---|---|---|---|
| threads, scheduler | `kernel/thread.c`, `kernel/scheduler.c`, `kernel/interrupt.c` | thread table, ready list, list of timed sleepers, current thread of each CPU | create, run, sleep, switch, finish; the timer interrupt |
| sleep queue | `kernel/sleepq.c` | a hash table of chains through `thread_table[].next` | add, wake, wake all |
| semaphores | `kernel/semaphore.c` | table of values and spinlocks | create, destroy, P, V |
| locks, conditions | `kernel/lock_cond.c` | tables of owners, nesting and counts of waiters | create, destroy, acquire, release; wait, signal, broadcast |
| disk | `drivers/disk.c`, `drivers/disksched.c` | request queue, request being served | submit, interrupt |
| processes | `proc/process.c`, `proc/syscall_handler_proc.c` | process table with lists of children | execp, start, exit, join, memlimit |
| VFS | `fs/vfs.c`, `proc/syscall_handler_fs.c` | mount table, open file table, count of operations | open, close, seek, read, write, create, remove, getfree, mount, unmount, halt |
| TFS | `fs/tfs.c`, `util/tfstool.c` | allocation block, directory, inodes on disk | the filesystem calls; compiled, but `fs/filesystems.c:45-50` mounts only SFS in this build |
| SFS | `fs/sfs.c` | tree of directories and files on disk, table of open entries | the filesystem calls |
| terminal | `drivers/tty.c`, `drivers/polltty.c` | two ring buffers | read, write, interrupt; kernel messages |
| network | `drivers/nic.c`, `net/network.c`, `net/socket.c`, `net/pop.c` | the card's buffer and transfers, socket table, queue of received frames | open, close, send, receive; interrupt, receive thread, service thread |
| memory | `vm/vm.c`, `vm/tlb.c`, `vm/pagepool.c` | bitmap of pages, page tables, TLB | map, unmap, allocate, TLB exceptions |

They rest on each other: the sleep queue and the scheduler share the thread
table and its one `next` link; semaphores, locks and conditions block on the
sleep queue; the disk driver, VFS, the filesystems and the sockets use
semaphores; processes, the network card and the open files of SFS use locks and
conditions; starting a process takes pages from the pool.

What is hard about them: a thread is on a sleep queue before it is asleep, so a
wake-up may come first; a waiter is woken long before it runs; interrupt
handlers run between any two steps of a thread that has interrupts enabled;
requests, create data and frames belong to a thread that may return while a
device still works on them; tables of fixed size are recycled without being
initialised; an unmount or a halt meets calls that are in a filesystem.
`PROJECT.json` lists these hazards with the line at which each bites.

## Modules

Each module that promises something to others has an *abstract* specification,
and the modules above use that one instead of the detailed one.

| Module | Models | Shown to implement |
|---|---|---|
| `ReadyList` | where `scheduler_add_to_ready_list` puts a thread, on sequences | |
| `Scheduler` | `thread.c`, `scheduler.c`, `sleepq.c` on any number of CPUs | `SleepQueue` |
| `ThreadLinks` | the same lists as the links `next`, heads, tails and hash chains | `ThreadLists` |
| `Semaphore` | `semaphore.c`, over `SleepQueue` | `CountingSemaphore` |
| `LockCond` | `lock_cond.c`, over `SleepQueue` | `Monitor` |
| `Disk` | `disk.c`, `disksched.c`, `read_vblock` and `write_vblock` of `sfs.c`, over `CountingSemaphore` | `BlockDevice` |
| `NIC` | `nic.c` and the card, over `Monitor` | |
| `Terminal` | `tty.c`, `polltty.c` and the terminal device, over `SleepQueue` | |
| `Network` | `socket.c`, `pop.c`, `network.c`, `protocols.c` and the page pool, over `CountingSemaphore` | |
| `ProcessTable` | `process_start`, execp, exit and join | |
| `Memory` | `pagepool.c`, `vm.c`, `tlb.c`, how `process.c` builds and takes down an address space, memlimit and exit | |
| `VFS` | `vfs.c` and the file handles of a process | |
| `SFSFile` | `sfs_read` and `sfs_write` on one file, with their readers and writers | `ByteFile` |
| `SFS` | `sfs_open`, `sfs_close`, `sfs_create`, `sfs_remove`, `sfs_unmount`: the directory tree, the allocation block and the table of open files | |
| `TFS` | `tfs.c` and `tfstool.c` on one volume, block write by block write | |
| `QueueLemmas`, `*_proofs` | lemmas on sequences; the theorems, see "What is proved" | |

`MC*` modules and `.cfg` files are the finite instances.  A definition whose
name ends in `_bug` is a mistake the code could contain; replacing the
definition after it by the mistake must make some property fail.

**Scheduler.**  `state`, `sleeps_on`, `wakeup_time`, `priority` are the columns
of the thread table; `ready`, `sleepq`, `sleepers` are the lists, as sequences.
A section under `thread_table_slock` or `sleepq_slock` with interrupts disabled
is one step, except the two loops that hold a spinlock while they move threads
one at a time: there the spinlock is a variable and every iteration a step.  The
window between `sleepq_add` (or the insertion of `thread_sleep`) and
`thread_switch` is a program point, in which other CPUs wake the thread and the
timer may take it off its CPU.  `scheduler_add_to_ready_list` of a thread that
is already linked loses the threads in between, as the code does.  Time is a
number that grows; the clock a thread reads and the wake-up time it stores are that
number modulo `TimeModulus`, 2^32 in the code.  `asked` records when a thread called
`thread_sleep` and for how long.

**ThreadLinks** gives the lists as they are in memory: one `next` field for the
ready list and for every hash chain, waiters of different resources in one
chain, and `sleepq_wake_all` walking a chain whose links the ready list takes
over.  Two resources share a chain in the instance.

**Semaphore.**  Creation marks the entry under the table's spinlock and
initialises it afterwards under none; P and V take the spinlock of the entry,
change the value, and release it in separate steps, since `semaphore_create`
resets the spinlock whoever holds it.  Interrupt handlers call V only.
`semaphore_destroy` is called the way `disk_submit_request` and the filesystems
do: after the P that took what the last V gave.

**LockCond.**  `locked_id` may be `LOCK_RESERVED_THREAD`: the lock was released
and is kept for a waiter that was woken and has not run.  `condition_wait` holds
the spinlocks of the condition and of the lock and is one step up to
`thread_switch`.  Creation does not initialise the entry.

**Disk.**  A thread's request is on its stack and gone when it returns.  The
interrupt handler is two steps, because its V lets the caller run (and return)
before the handler looks at the queue.  Transfers of SFS use one request and one
semaphore for several blocks.

**NIC.**  The card has one receive buffer, three interrupt bits and one transfer
in each direction; `dma` records whose page it works on.  Senders and receivers
test, give a command and wait in separate steps with the driver's lock held; the
handler signals their conditions holding only the spinlock.

**Terminal.**  The device sends a character and receives keys on its own; the
handler's loops go round one character at a time, and kernel messages poll the
same device.  The device has two bits for writing: WIRQ, which it sets when a
character has been sent, and WIRQE, with which the handler inhibits and enables the
interrupt around its loop (`TTY_COMMAND_WIRQD`, `TTY_COMMAND_WIRQE`).  Assumed of the
device, which is not part of the sources: WIRQ is set whether the interrupt is
enabled or not, stays set until it is acknowledged, and interrupts once it is enabled
again; and write interrupts are enabled when the machine starts, since `tty_init`
gives no command.  That is how `drivers/tty.h:61-65` lists the bits and how the
handler relies on them, which acknowledges in the loop and enables after it.
`output`, `accepted`, `got` and `typed` record what went through.

**Network.**  What `open_sockets_sem` and `pop_queue_sem` protect is one step.
The service thread frees, copies and clears a slot of the queue without holding
either, so each of these is a step, as are the waits of senders and receivers.
`clash` and `stale` record the two cases described below.

**ProcessTable.**  The lock of each entry and of the table are held over steps;
sleeping on `die_cond` is a set of threads.  `inc`, `joined`, `family`, `listed`
and `intact` only record history: which incarnation of an entry a join is about,
which children a process has, and whether a list of children has been damaged
(see below).

**Memory.**  Addresses are page numbers; an entry of a page table maps a pair of
them, and its halves are valid or not.  The start of a process is one step for
each page it allocates and touches, so that it can fail anywhere; the TLB is
filled by exceptions and replaced anyhow.  Entries that the kernel does not flush
stay in it and serve later accesses, and there can be two for one pair, of which the
processor and `tlb_replace_entry_if_exists` find either.  `lost`, `stale` and `wild`
record pages nobody can free any more, the processes whose page table changed while a
valid TLB entry for it was left as it was, and a page that was freed out of an
invalid half.

**VFS.**  The three binary semaphores are held from P to V, a call into a
filesystem is a step in and a step out with any result, and `vfs_deinit` waits
on `vfs_unmount_sem` for the operations to end.  A seek to a negative position and
a read of a negative size (`process_start` passes the size the program's file gives)
return without `vfs_end_op` and leave their operation counted.  The system call drops
the handle of a file it closes whatever `vfs_close` returns, also when it was refused
because the system halts (`CloseHandle`).

**SFSFile.**  Threads that have the same file open read and write any piece of
it.  A section that holds `io_lock` is one step up to where it waits for
`io_cond`; the inode and every block are read and written in steps of their own,
through the block buffer on the caller's stack.  `ByteFile` is an array of bytes
on which a call takes effect in one step between its start and its return.

**SFS.**  The disk is the set of blocks marked in the allocation block and the
contents of the others: directories, inodes, data.  A section that holds
`openfile_lock` is one step; the look-up of a path is one; `sfs_create` is one
for its look-up and one for each of the blocks it writes with `sfs->lock` held,
so that others see every stage.  `create` and `remove` exclude each other, as
`vfs_table.sem` is held around them; `open` and `close` come at any time.
`orphaned`, `missed` and `stale` only record history.

**TFS.**  Every operation holds `tfs->lock` and reads what it needs before it
writes, so what remains of it are the blocks still to be written; each of these
writes can fail, or the machine can stop before it.  The host's tool works on
the same volume in between and places blocks by its own rules.

## What is checked

Several runs hold two or three components side by side.  The components share no
variable: the initial state says which of them moves, and the others stay as they
began.  Such a run is the union of the components' behaviours, not their product.

| Run | Instance | Shows |
|---|---|---|
| `scheduling` | 2 CPUs, 3 threads, 2 priorities, 2 resources; links: 4 threads, 3 resources on 2 chains | the ready list holds exactly the READY threads in priority and arrival order; no thread is on two lists or on two CPUs; a sleeping thread can always be found by a wake-up; the sleep queue keeps its contract; the links implement the sequences, and `sleepq_wake_all` leaves nobody behind |
| `scheduler_sleep` | 1 CPU, 3 threads, sleeps of 2, a clock of 3 bits from 7 up to 11, fair | no timed sleep ends early, but for those during which the clock wraps, and these do not disturb others; sleepers wake if the idle thread keeps coming round, and a woken HIGH thread returns |
| `blocking` | semaphores: 3 threads, 1 handler, 1 CPU, 2 semaphores; file: 3 threads, 5 bytes in blocks of 2; fair | values count waiters, entries are handed out once; P and V are a first-come counting semaphore; every P returns if V goes on; reads and writes are atomic, as on an array of bytes; readers exclude writers; everybody gets in once no new calls come |
| `processes` | locks: 3 threads, 2 locks, 1 condition, nesting 2; processes: 3 threads, 3 entries, 4 starts; fair | recorded owners (hence mutual exclusion), exact counts, clean recycled entries; a monitor with direct hand-over; nobody starves; process entries have one owner; create data is used only during execp; joins concern the right child; execp and join return |
| `devices` | disk: 3 threads, a vblock read, a block read and a block write at once, 2 blocks, 2 values; terminal: rings of 2, two writers, two readers or one of each, texts of 1 and 3, up to 4 keys, a kernel message; card: 2 senders, 1 receiver, 2 arriving frames; fair | the disk driver's assertions; no request outlives its caller; no semaphore leaks; each transfer once, in order, before the caller returns; every request is served; the terminal loses, repeats and reorders nothing until its input overflows, and its callers go on; the card transfers only pages whose owner waits |
| `network` | 2 users, 2 sockets, a queue of 2, pools of 3 and 4 pages in four workloads, fair | every page has one owner; a receiver gets a packet for its port; a packet and a receiver that wait for each other meet |
| `vfs` | 2 threads (one mounts), 2 volumes, 2 names, fair | no filesystem is called outside its lifetime; no open file has two owners; a halt waits for every operation, and ends unless an operation was left counted |
| `storage` | SFS: 2 threads, two files, a directory and a file in it, 3 free blocks, 2 names to a directory, 2 entries for open files; TFS: 4 data blocks, 1 fault; memory: 2 processes, 5 pages, 3 starts, a TLB of 2 | handles are counted exactly; names and inodes lead to blocks of their own at every write; no block is lost; an open file keeps its blocks; a TFS volume is consistent and its files hold what was written, whichever of the two programs wrote it; a page has one use; the TLB says what the page tables say |
| `scheduler_wrap` | 1 CPU, 2 threads, sleeps of 2, the same clock | violated: a sleep ends before its time |
| `processes_exit` | 2 threads, 2 entries, fair | violated: exit does not end |
| `sfs_open` | 2 threads, 4 free blocks | violated: a file is opened after it was deleted |
| `memory_heap` | 2 processes, 6 pages | violated: memlimit returns a heap end that is another process's |

The bounds: a third thread is needed wherever somebody can overtake or be
forgotten (a waiter behind a woken one, a request behind the one served), a
second resource, lock or volume wherever entries share a table or chain, and
four starts to use an entry of the process table again after both ways of
freeing it.  A file of three blocks, the last one partial, has a first, a middle
and a last block for every kind of transfer: one thread writes and reads in every
position, at the end and behind it, against one that reads or writes nearly all
and one that reads all.  Three free blocks hold a directory and a file in it, or
a file and a directory in the root, so that the disk is full in some behaviours,
and so are the root and the table of open files.  Rings and queues of two wrap
round and overflow; texts of three do not fit in them.  The four workloads of
`network` are frames that arrive faster than they are read, a pool with no page
to spare, sockets that are closed and reopened, and two senders.  Five pages are
two processes with their tables, or one with a grown heap, and no page to spare
for the next.

`MaxValue`, `MaxNesting`, `MaxRtc`, `MaxStarts`, `MaxLost`, `Arrivals`, `Sends`,
`Faults`, `Lengths`, `Loads` and `Calls` are the bounds the code does not have;
they are in guards, and the guards they are in are those of calls and of the
outside world, never of steps that finish a call, so that they cannot hide a
thread that is stuck.  (`MaxLost` bounds the seeks and reads that fail, and those may
succeed instead.)  The clock of `scheduler_sleep` wraps once, at 8: one sleep
runs over it (asked for at 7) while others begin after it (at 8).  A sleep asked for
at 6 would have the wake-up time 0, which the code takes for none
(`kernel/scheduler.c:278`) while the thread stays on the list of sleepers, so that the
lists break; the clock therefore begins at 7, and this case is not checked.  In `SFS` a thread has one file open at a time, and nothing is
modelled after a handle on a deleted file was given out; likewise `TFS` stops at
a torn volume until it is formatted, `Network` at a clash, and `Memory` once a
page was freed out of an invalid half.

Symmetry is used for threads and CPUs in `scheduling` and for threads and processes
in `storage`, which check no liveness (`ReadyOrder` and the refinements there are properties of
single steps, and treat the permuted values alike).

Fairness.  `Scheduler`: every CPU takes its timer interrupts, the clock goes on,
and a thread that gets a CPU again and again makes progress.  `Semaphore`: the
scheduler comes round to a runnable thread although others are given the CPU in
between, so its steps are strongly fair.  `LockCond`: threads that were woken go
on; that users of a lock leave it is an assumption of the property, not of the
specification.  `Disk`: the device ends each transfer and its interrupt is
taken; on one CPU a thread finds the device spinlock free whenever it runs, so
submitting is strongly fair.  `Terminal`: threads are run, the device sends what
it was given, its interrupts are taken, and whoever spins on the spinlock gets it
in the end, since its holders run with interrupts disabled.  `Network`: the
service and receive threads and the users inside a call are run, and the
interface's send returns.  `ProcessTable`: locks are strongly fair, which
`LockCond` shows (`LockReturns`).  `VFS`: semaphores are strongly fair, which
`Semaphore` shows (`EveryPReturns`), and filesystems return.  `SFSFile`: a thread
inside a call is run until it returns or waits; nothing is assumed of the order
in which waiters get in, and readers and writers that keep coming can starve a
reader, so the property is about what happens when they stop.  NORMAL threads may
starve behind HIGH ones, and timed sleepers when the CPU is never idle
(`doc/README.1` accepts this): no property says otherwise.

Deadlock is not checked where a state without successor is legal: all users of
locks waiting for each other or all processes gone (`processes`), the system
halted (`vfs`), the volume unmounted or no page left for another process
(`storage`), readers waiting for keys or frames that do not come (`devices`,
`network`).

## Where the code differs from its documents

* `scheduler_wrap`: the wake-up time is a sum in 32 bits.  When it wraps it is less
  than the clock, and the idle thread ends the sleep at once; `kernel/thread.c:450`
  says that a thread cannot wake up before the time has elapsed.
* `processes_exit`: an entry that was joined or whose start failed stays on its
  parent's list of children.  Handed to the same parent again it is its own
  successor, and exit goes round for ever.
* `sfs_open`: `sfs_open` looks the file up and enters it in the table of open
  files in two steps, and `vfs_open` holds no semaphore around them.  A file that
  is removed in between is deleted at once, and the open returns a handle on
  blocks that are free.
* `memory_heap`: the offset of the heap's end is a static variable of memlimit
  (`proc/syscall_handler_proc.c:248`), one for all processes and kept when one
  exits.

Seen while modelling, without a run of their own:

* Scheduler: on two CPUs `thread_sleep` releases the thread table before it
  switches away, and the expiry loop does not test the state of the thread as
  `sleepq_wake` does: a running thread can be dispatched again.  `Scheduler` has
  this behaviour; its run with timed sleep has one CPU, and its theorems assume
  that nobody sleeps for a time.  A wake-up time that wraps to exactly 0 is taken
  for none.
* Semaphores: on two CPUs `semaphore_destroy` does not wait for the spinlock and
  `semaphore_create` resets it: the late release of a V frees the spinlock of the
  semaphore's next user.  This is the hypothesis of `SectionsExclude`.
* VFS: error returns of `vfs_seek`, `vfs_close`, `vfs_read` and `vfs_write` skip
  `vfs_end_op` (a negative seek position is enough), after which a halt waits for
  ever; `HaltEnds` makes the exception.  An unmounted volume cannot be mounted
  again under its name, which stays in the row.
* SFS: removing a directory that is not empty loses the blocks of everything in
  it (`orphaned`).  `sfs_create` tests a name and inserts it under two holdings of
  `sfs->lock`; only the semaphore VFS holds keeps a name unique.  `sfs_unmount`
  does not destroy the locks and conditions of the entries.
* TFS: the tool gives a file of whole blocks one block more than the kernel does;
  a failure can tear the volume at two places (`torn`), and a create that fails at
  the directory leaks its blocks (`leaked`); an empty file name matches a free
  entry; the test of a file id is off by one.
* Processes: `exit` keeps the smallest int negative; a failed start cuts the list
  of its parent's children (`intact`).
* Memory: `vm_unmap` does not look at the valid bit, so that a heap page beside
  another page makes it free whatever the invalid half holds (`wild`), and it does
  not flush the TLB; a failed start leaves TLB entries behind; where an invalid entry
  is in the TLB, as exit leaves them, an exception writes a second one for the pair
  (these are the cases of `stale`, which `TlbAgrees` excepts); memlimit ignores the result of
  `vm_map`, and the page is lost (`lost`); `heap_vaddr` outlives its process.
* Terminal: the test for a full input ring lets one key too many in
  (`tty.c:172`), which replaces the oldest.
* Network card: a wake-up of a sender can be lost and a frame can stay in the
  card's buffer while the receiver sleeps; a RECEIVE that meets a sender's
  transfer stops the kernel.
* Network: `pop_push_frame` can reclaim a slot while the service thread discards
  it, which is not marked busy: a frame is freed twice or lost (`clash`).  A
  reopened socket number receives the packets bound to the closed one (`stale`);
  threads that share a socket can take each other's `receive_complete`
  (`pop.c:204`); time stamps wrap; the receive thread's assertion that there is a
  page needs a pool of two pages more than the queue has slots.

## What is proved

Every theorem holds for all values of the constants, under the assumption named
in the module that declares them (`SchedulerAssumption`, `SemaphoreAssumption`,
...): null values differ from real ones, sizes and counts are naturals, an image
lies below the stack.  The runs evaluate these assumptions on their instances.
`MemoryAssumption`, `NICAssumption`, `ProcessAssumption` and `SFSFileAssumption`
are definitions that the theorems name as hypotheses and the MC modules assume.
`SFSFile`, `ProcessTable` and `NIC` have names of their own for what other modules
call `Threads`, `pc`, `Init`, `Next` and so on (`Users`, `Tids`, `file_pc`,
`nic_pc`, ...), so that one module can extend them beside `Semaphore`, `LockCond`
and `Disk`.

| Module | Theorem | States |
|---|---|---|
| `Scheduler_proofs` | `ListsStayExact` | `ListsExact`: every thread is on exactly the list its state says |
| | `ReadyListInOrder` | `ReadyOrder`, an action property: priorities and arrival |
| | `SchedulerIsSleepQueue` | `ImplementsSleepQueue` |
| `Blocking_proofs` | `WaitersAreCounted` | `WaitersCounted` of `Semaphore` |
| | `SectionsExclude` | `Exclusive`: one P or V at a time under a spinlock |
| | `SemaphoresCount` | `ImplementsCountingSemaphore` |
| | `ReadersAreCounted` | `ReadersCounted` of `SFSFile` |
| `LockCond_proofs` | `TypeCorrect`, `OwnersRecorded`, `WaitersKnown` | `TypeOK`, `LocksOwned`, `CountsExact` |
| | `LocksExclude`, `RecycledClean` | mutual exclusion; a lock handed out again is clean |
| | `LocksAreMonitors` | `ImplementsMonitor` |
| `Devices_proofs` | `RequestsStayAlive` | `RequestsAlive` of `Disk` |
| | `DiskIsBlockDevice` | `ImplementsBlockDevice` of `Disk` |
| | `FramesStay` | `FramesInUse` of `NIC` |
| `Memory_proofs` | `TlbInStep` | `TlbAgrees` |
| | `PagesStayOwned` | `PagesOwned` |
| `ProcessTable_proofs` | `EntriesStayOwned` | `EntriesOwned` |
| | `PidsStayChildren` | `PidsNameChildren` |
| `VFS_proofs` | `CallsStaySafe` | `CallsSafe` |
| | `HandlesStayExclusive` | `HandlesExclusive` |

The refinements form a chain: `Scheduler` implements `SleepQueue`, which
`Semaphore` and `LockCond` use; they implement `CountingSemaphore` and `Monitor`,
which `Disk` and `NIC` use; `Disk` implements `BlockDevice`.  Each link is proved
step by step: initial states map to initial states, and under the invariant every
step maps to a step of the abstract specification or to none.

The theorems on `Scheduler` have the hypothesis `SleepTimes = {}`: nobody calls
`thread_sleep`, which on several CPUs does break the lists (see above).
`SectionsExclude` assumes one CPU or semaphores that are not destroyed, for the
same kind of reason.

None of the invariants is inductive as it stands.  What they need:

* **LockCond.**  That a lock is not given to two threads depends on
  `lock_release` reserving it for somebody who is really on the way, which depends
  on the count of waiters, which depends on where each waiter is.  `IInv` says for
  every lock that the count is the length of its queue plus one if it is reserved,
  that it is reserved exactly when one thread has been taken off its queue and has
  not run, that an open lock has an empty queue, and that its owner is the only
  thread that holds it, as deep as the lock says; and for every thread which queue
  it is on, once, and whether it is blocked.  In the refinement a reserved lock
  belongs to the thread on its way to it.
* **Semaphore.**  A free entry, and one that is marked and not yet initialised,
  has the value 0 and no user but perhaps a V that has still to release its
  spinlock (`FreshInv`); the queue of every entry is as long as its value is
  negative (`CountInv`).  The abstract count is the value where that is not negative.
  Exclusion adds who is between taking and releasing a spinlock (`HeldInv`) and,
  on one CPU, that only one actor can be.
* **SFSFile.**  The threads inside are the ones `readernum` and `writer_tid`
  count (cardinality of a finite set that a step changes by one), and the
  transfer's position, size and count stay within the file and the buffer, whose
  arithmetic with `SFS_VBLOCK_SIZE` is a group of lemmas of its own.
* **Disk.**  `Told` relates each caller's program point to its semaphore: nothing
  to take while its request is in flight, exactly one V afterwards.  Requests in
  flight are there once and their callers wait; the device works for the request
  being served; the rest of a vblock lies on the disk.  The refinement adds what
  the device's registers say (`DmaInv`).
* **NIC.**  The owner of the lock and its waiters are the threads inside, each
  once; a frame in the receive buffer is announced, called for, in transfer or
  transferred, and at most one receiver is called; a completion still to be
  signalled has somebody ahead of the sender whose frame is in transfer.
* **Scheduler.**  The ready list, the queues and the CPUs are each exact, and
  `Placed` ties a thread's state, resource and program point together, the window
  between `sleepq_add` and `thread_switch` included.  That `HighRun` finds the end
  of the leading HIGH threads is shown with a least element of the natural
  numbers, in place of an induction.
* **Memory.**  The TLB needs that every valid page has an entry for its pair, and
  that a process is in `stale` once a change of its page table has missed an entry.
  Ownership is a bijection between the uses of pages (places) and the reserved
  pages that were not lost; mapping adds places and pages together, exit and a
  failed start take them away together, and the counts follow from it.  That the
  pool's i-th free page exists is again a least-element argument.
* **ProcessTable.**  Threads and entries agree on each other, and a parent in
  execp has one child that has not finished starting.  For joins: entries are
  numbered in the order they were handed out, along a list of children these
  numbers fall without a gap, so that the loop of exit reaches each child once;
  and while the lists are intact a `parent_pid` names the parent exactly for the
  children exit has not reached yet.
* **VFS.**  A read or a write is inside its filesystem without a semaphore, so
  that `CallsSafe` rests on the tables: a mounted filesystem is alive and has one
  row (`MountInv`); the filesystem of every row of `openfile_table` in use is
  mounted, and a row that a thread holds is in use and nobody else's (`FileInv`);
  what a thread has found stays while it holds `table_sem` (`SemInv`,
  `FoundInv`).  For halt it rests on the count: at most `vfs_ops` operations are
  under way (`CountInv`), and vfs_deinit passes when there are none (`OpsInv`).
  `StageInv` says which calls can be at which program point.  An operation lost by
  an error return only makes the count larger, which the invariant allows.  Names
  are looked up with a least row again.

A proof that steps preserve an invariant has a lemma for each kind of step.
`QueueLemmas` has the facts on `Append`, `Tail`, `Head` and membership that the
queues need.  `Zenon` is cited wherever first-order reasoning is enough, and
arithmetic is left to small steps of its own.

Only model-checked:

* all liveness (`SleepersReturn`, `EveryPReturns`, `EveryCallReturns`,
  `LockReturns`, `ParentsGoOn`, `EveryRequestReturns`, `TerminalGoesOn`,
  `RecvReturns`, `HaltEnds`): fairness and `ENABLED` are out of the provers'
  reach;
* `ImplementsThreadLists`, `WakeAllComplete`: chains are followed by recursion,
  and the provers have no induction over data; `InputExact`, `OutputExact`,
  `ContentsKept` and `BlocksExact` are about rings, texts and trees of any length
  and need it too;
* `ImplementsByteFile`: the bytes a call has moved so far are a function of the
  history of its steps, and the proof would repeat the arithmetic of `SFSFile` for
  every byte; its bounds and exclusion are what `ReadersAreCounted` proves;
* `SleepElapsed` (timed sleep, one CPU), `FramesOwned`, `ReceiverServed`,
  `EntriesExact`, `OpenFilesKept` and `VolumeConsistent`: not proved yet.

## What is not modelled

Boot code and `kmalloc`, register saving and the exception entry, the library,
ELF parsing, the dispatch of system calls and their copying to and from user
memory, user programs with their `malloc`, the kernel's own tests, and host tools
other than `tfstool`: they run once, change no shared state, or are sequential
functions on data.  `PROJECT.json` names each with its reason.
