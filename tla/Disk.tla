-------------------------------- MODULE Disk ---------------------------------
(***************************************************************************)
(* The disk driver (drivers/disk.c, drivers/disksched.c) with its two      *)
(* kinds of callers: synchronous ones, which leave request->sem NULL (all  *)
(* of fs/tfs.c), and read_vblock and write_vblock of fs/sfs.c, which wait  *)
(* on a semaphore of their own for each block of a larger one.             *)
(*                                                                         *)
(* Each thread has one request, on its stack.  A section that holds the    *)
(* device spinlock is one step, except the interrupt handler, which lets   *)
(* the waiting thread go before it is done.  Semaphores are used through   *)
(* their contract, CountingSemaphore.  A device error or an unknown        *)
(* operation stops the kernel and is not modelled.                         *)
(***************************************************************************)
EXTENDS Integers, Sequences, FiniteSets, Functions

CONSTANTS
    Threads,
    NULL,
    SemCount,                \* CONFIG_MAX_SEMAPHORES
    LastBlock,
    Values,                  \* contents of a block
    Calls,                   \* bound: who asks for what, and where
    SFS_BLOCKS_PER_VBLOCK

Blocks == 0..LastBlock
Semaphores == 1..SemCount

ASSUME DiskAssumption ==
    /\ NULL \notin Threads /\ NULL \notin Semaphores
    /\ NULL \notin [op : {"READ", "WRITE"}, block : Blocks]
    /\ LastBlock \in Nat /\ SemCount \in Nat
    /\ Calls \subseteq Threads \X {"READ", "WRITE"} \X {"block", "vblock"} \X Blocks
    /\ SFS_BLOCKS_PER_VBLOCK \in 1..(LastBlock + 1)

VARIABLES
    request_queue,           \* from the head on
    request_served,
    slock,                   \* "handler" while the interrupt handler runs
    operation, block, sem, return_value,    \* fields of each thread's request
    buf,                     \* what request->buf points to
    created,                 \* semaphores that exist
    count, waiting,          \* their state
    hw,                      \* the device: status, and its registers
    store,                   \* contents of the disk
    pc, left                 \* where a thread is; blocks left of its vblock

request == <<operation, block, sem, return_value>>
sems == <<created, count, waiting>>
vars == <<request_queue, request_served, slock, request, buf, sems, hw, store,
          pc, left>>

Sem == INSTANCE CountingSemaphore

Goto(t, p) == pc' = [pc EXCEPT ![t] = p]
-----------------------------------------------------------------------------
\* The first free entry becomes the semaphore of t's request.
semaphore_create(t) ==
    \E s \in Semaphores \ created :
        /\ 1..(s - 1) \subseteq created
        /\ Sem!Create(s, 0)
        /\ created' = created \cup {s}
        /\ sem' = [sem EXCEPT ![t] = s]

\* The fields of the request, as the caller fills them, and what it writes.
Fill(t, op, b, v) ==
    /\ operation' = [operation EXCEPT ![t] = op]
    /\ block' = [block EXCEPT ![t] = b]
    /\ IF op = "READ" THEN UNCHANGED buf ELSE buf' = [buf EXCEPT ![t] = v]

\* disk_read_block and disk_write_block with sem = NULL, until the spinlock.
\* With the semaphore table full they fail and nothing has changed.
disk_block(t, op, b, v) ==
    /\ pc[t] = "out" /\ <<t, op, "block", b>> \in Calls
    /\ semaphore_create(t)
    /\ Fill(t, op, b, v)
    /\ left' = [left EXCEPT ![t] = 0]
    /\ Goto(t, "submit")
    /\ UNCHANGED <<request_queue, request_served, slock, return_value, hw, store>>

\* read_vblock and write_vblock up to the first block.  They rely on the
\* table not being full.
vblock(t, op, b, v) ==
    /\ pc[t] = "out" /\ <<t, op, "vblock", b>> \in Calls
    /\ b % SFS_BLOCKS_PER_VBLOCK = 0 /\ b + SFS_BLOCKS_PER_VBLOCK - 1 \in Blocks
    /\ semaphore_create(t)
    /\ Fill(t, op, b, v)
    /\ left' = [left EXCEPT ![t] = SFS_BLOCKS_PER_VBLOCK]
    /\ Goto(t, "submit")
    /\ UNCHANGED <<request_queue, request_served, slock, return_value, hw, store>>
-----------------------------------------------------------------------------
\* Faulty: new requests go to the head; a request stays queued while it is
\* served.
disksched_schedule_bug(q, t) == <<t>> \o q

\* The policy: first come, first served.
disksched_schedule(q, t) == Append(q, t)

disk_next_request_bug(q) ==
    IF q = <<>>
    THEN request_queue' = <<>> /\ request_served' = NULL /\ UNCHANGED hw
    ELSE /\ request_queue' = q
         /\ request_served' = Head(q)
         /\ hw' = [status |-> "busy", command |-> operation[Head(q)],
                   tsector |-> block[Head(q)], dmaaddr |-> Head(q)]

\* Start the first request of q, if there is one.
disk_next_request(q) ==
    IF q = <<>>
    THEN request_queue' = <<>> /\ request_served' = NULL /\ UNCHANGED hw
    ELSE /\ request_queue' = Tail(q)
         /\ request_served' = Head(q)
         /\ hw' = [status |-> "busy", command |-> operation[Head(q)],
                   tsector |-> block[Head(q)], dmaaddr |-> Head(q)]

\* Faulty: the disk is started whether or not it is serving a request.
disk_submit_request_bug(t) ==
    /\ pc[t] = "submit" /\ slock = "free"
    /\ disk_next_request(disksched_schedule(request_queue, t))
    /\ Goto(t, "wait")
    /\ UNCHANGED <<slock, request, buf, sems, store, left>>

\* Queue the request and start the disk if it is idle.
disk_submit_request(t) ==
    /\ pc[t] = "submit" /\ slock = "free"
    /\ LET q == disksched_schedule(request_queue, t) IN
       IF request_served = NULL
       THEN disk_next_request(q)
       ELSE request_queue' = q /\ UNCHANGED <<request_served, hw>>
    /\ Goto(t, "wait")
    /\ UNCHANGED <<slock, request, buf, sems, store, left>>

semaphore_P(t) ==
    /\ pc[t] = "wait"
    /\ Sem!P(t, sem[t])
    /\ Goto(t, "P")
    /\ UNCHANGED <<request_queue, request_served, slock, request, buf, created,
                   hw, store, left>>

Returned(t) == pc[t] = "P" /\ t \notin Range(waiting[sem[t]])

\* The request of t, on its caller's stack, is gone.
Forget(t) ==
    /\ operation' = [operation EXCEPT ![t] = "READ"]
    /\ block' = [block EXCEPT ![t] = 0]
    /\ sem' = [sem EXCEPT ![t] = NULL]
    /\ return_value' = [return_value EXCEPT ![t] = -1]

\* Destroy the semaphore and return; only a write_vblock that failed forgets it.
Finish(t) ==
    /\ created' = IF left[t] > 0 /\ operation[t] = "WRITE" /\ return_value[t] # 0
                  THEN created ELSE created \ {sem[t]}
    /\ Forget(t)
    /\ Goto(t, "out")

\* P has returned: the end of a synchronous request, or of a vblock.
disk_submit_request_end(t) ==
    /\ Returned(t) /\ (left[t] <= 1 \/ return_value[t] # 0)
    /\ Finish(t)
    /\ left' = [left EXCEPT ![t] = 0]
    /\ UNCHANGED <<request_queue, request_served, slock, buf, count, waiting, hw, store>>

\* P has returned in the middle of a vblock.
vblock_P_end(t) ==
    /\ Returned(t) /\ left[t] > 1 /\ return_value[t] = 0
    /\ left' = [left EXCEPT ![t] = @ - 1]
    /\ Goto(t, "next")
    /\ UNCHANGED <<request_queue, request_served, slock, request, buf, sems, hw,
                   store>>

\* The next block of a vblock, with the same request and semaphore.
vblock_next(t, v) ==
    /\ pc[t] = "next"
    /\ Fill(t, operation[t], block[t] + 1, v)
    /\ return_value' = [return_value EXCEPT ![t] = -1]
    /\ Goto(t, "submit")
    /\ UNCHANGED <<request_queue, request_served, slock, sem, sems, hw, store,
                   left>>
-----------------------------------------------------------------------------
Idle(status) == [status |-> status, command |-> "READ", tsector |-> 0, dmaaddr |-> NULL]

\* The device: the transfer ends and the interrupt is raised.  Its registers
\* are written before they are used again.
DiskDone ==
    /\ hw.status = "busy"
    /\ hw' = Idle("irq")
    /\ IF hw.command = "READ"
       THEN buf' = [buf EXCEPT ![hw.dmaaddr] = store[hw.tsector]] /\ UNCHANGED store
       ELSE store' = [store EXCEPT ![hw.tsector] = buf[hw.dmaaddr]] /\ UNCHANGED buf
    /\ UNCHANGED <<request_queue, request_served, slock, request, sems, pc, left>>

\* Without an interrupt of the disk the handler returns at once.
disk_interrupt_handle ==
    /\ slock = "free" /\ hw.status = "irq"
    /\ slock' = "handler"
    /\ hw' = Idle("idle")
    /\ return_value' = [return_value EXCEPT ![request_served] = 0]
    /\ Sem!V(sem[request_served])
    /\ UNCHANGED <<request_queue, request_served, operation, block, sem, buf,
                   created, store, pc, left>>

disk_interrupt_handle_next ==
    /\ slock = "handler"
    /\ disk_next_request(request_queue)
    /\ slock' = "free"
    /\ UNCHANGED <<request, buf, sems, store, pc, left>>
-----------------------------------------------------------------------------
\* disk_init.
Init ==
    /\ request_queue = <<>> /\ request_served = NULL /\ slock = "free"
    /\ operation = [t \in Threads |-> "READ"]
    /\ block = [t \in Threads |-> 0]
    /\ sem = [t \in Threads |-> NULL]
    /\ return_value = [t \in Threads |-> -1]
    /\ \E v \in Values : buf = [t \in Threads |-> v] /\ store = [b \in Blocks |-> v]
    /\ created = {} /\ Sem!Init
    /\ hw = Idle("idle")
    /\ pc = [t \in Threads |-> "out"]
    /\ left = [t \in Threads |-> 0]

\* A thread that is in the driver goes on.
GoOn(t) ==
    \/ disk_submit_request(t) \/ semaphore_P(t)
    \/ disk_submit_request_end(t) \/ vblock_P_end(t)
    \/ \E v \in Values : vblock_next(t, v)

Handler == disk_interrupt_handle \/ disk_interrupt_handle_next

Next ==
    \/ \E t \in Threads :
        \/ \E op \in {"READ", "WRITE"}, b \in Blocks, v \in Values :
            disk_block(t, op, b, v) \/ vblock(t, op, b, v)
        \/ GoOn(t)
    \/ DiskDone
    \/ Handler

Spec == Init /\ [][Next]_vars

\* Threads are scheduled, the device ends each transfer, and a pending
\* interrupt is taken.  On the one CPU of the configuration a thread that runs
\* finds the device spinlock free, so submitting is strongly fair.
Fairness ==
    /\ \A t \in Threads : WF_vars(GoOn(t)) /\ SF_vars(disk_submit_request(t))
    /\ WF_vars(DiskDone) /\ WF_vars(Handler)

FairSpec == Spec /\ Fairness
-----------------------------------------------------------------------------
TypeOK ==
    /\ request_queue \in Seq(Threads)
    /\ request_served \in Threads \cup {NULL}
    /\ slock \in {"free", "handler"}
    /\ operation \in [Threads -> {"READ", "WRITE"}]
    /\ block \in [Threads -> Blocks]
    /\ sem \in [Threads -> Semaphores \cup {NULL}]
    /\ return_value \in [Threads -> {-1, 0}]
    /\ buf \in [Threads -> Values]
    /\ created \in SUBSET Semaphores
    /\ count \in [Semaphores -> Nat]
    /\ waiting \in [Semaphores -> Seq(Threads)]
    /\ hw \in [status : {"idle", "busy", "irq"}, command : {"READ", "WRITE"},
               tsector : Blocks, dmaaddr : Threads \cup {NULL}]
    /\ store \in [Blocks -> Values]
    /\ pc \in [Threads -> {"out", "submit", "wait", "P", "next"}]
    /\ left \in [Threads -> 0..SFS_BLOCKS_PER_VBLOCK]

\* The assertions of disk_interrupt_handle and disk_next_request: an interrupt
\* belongs to a request that is being served, and a disk that serves none is
\* not busy.
DriverAsserts ==
    /\ slock = "free" /\ hw.status = "irq" => request_served # NULL
    /\ slock = "handler" \/ request_served = NULL => hw.status = "idle"

\* The requests the driver knows, before their callers are told.
InFlight ==
    Range(request_queue)
        \cup (IF slock = "free" THEN {request_served} \ {NULL} ELSE {})

\* The driver holds a request once, either queued or being served, and only as
\* long as its caller waits: it never touches the stack of a caller that has
\* returned (gbd.h asks the same of asynchronous callers).  Whoever returns
\* from semaphore_P finds the result in its request.  Every semaphore belongs to
\* the request of one thread that is in the driver, and none is left behind.  And
\* the driver's own assertions hold.  (And every variable has its type.)
RequestsAlive ==
    /\ TypeOK /\ DriverAsserts
    /\ IsInjective(request_queue)
    /\ request_served \notin Range(request_queue)
    /\ \A t \in InFlight :
        /\ pc[t] \in {"wait", "P"} /\ ~Returned(t)
        /\ sem[t] \in created
    /\ \A t \in Threads : Returned(t) => return_value[t] = 0
    /\ created = {sem[t] : t \in {u \in Threads : pc[u] # "out"}}
    /\ \A t, u \in Threads : sem[t] = sem[u] /\ sem[t] # NULL => t = u

Device == INSTANCE BlockDevice WITH
    want <- [t \in Threads |-> IF pc[t] = "out" THEN NULL
                               ELSE [op |-> operation[t], block |-> block[t]]],
    line <- IF hw.status = "busy" THEN <<request_served>> \o request_queue
            ELSE request_queue,
    open <- {t \in Threads : pc[t] \in {"wait", "P"}}

\* The disk is a block device: requests are performed once, in the order of
\* submission, and callers return only after theirs was performed.
ImplementsBlockDevice == Device!Spec

\* Every submitted request is served and its caller returns.
EveryRequestReturns == \A t \in Threads : []<>(pc[t] = "out")
=============================================================================
