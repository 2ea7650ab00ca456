--------------------------------- MODULE NIC ---------------------------------
(***************************************************************************)
(* The network interface driver (drivers/nic.c).  Senders and receivers    *)
(* share one lock and wait on condition variables, used through their      *)
(* contract, Monitor; the interrupt handler signals them while it holds    *)
(* only the spinlock.  A frame is a page of memory that the device reads   *)
(* or writes by DMA.                                                       *)
(*                                                                         *)
(* The device has one receive buffer.  Its frames always have a valid      *)
(* address, so the IADDR error of SEND does not occur; the other errors    *)
(* stop the kernel.                                                        *)
(***************************************************************************)
EXTENDS Integers, Sequences, FiniteSets, Functions

CONSTANTS
    Senders, Receivers,
    NoThread,
    Arrivals,            \* bound: frames that arrive from the network
    Sends                \* bound: frames each sender sends

NicThreads == Senders \cup Receivers
Locks == {"nic"}
Conds == {"crxirq", "crirq", "csirq", "csdma"}
NICAssumption == NoThread \notin NicThreads /\ Arrivals \in Nat

VARIABLES
    owner, depth, lock_waiting, sleeping,    \* the lock and the conditions
    nic_pc,
    rxbusy, rbusy, sbusy,    \* device: frame in the receive buffer, DMA transfers
    rxirq, rirq, sirq,       \* device: interrupt bits
    dma,                     \* whose frame the device transfers
    handler,                 \* where the interrupt handler is
    panic,                   \* NIC_STATUS_ERRORS was set
    arrived, sent            \* history

monitor == <<owner, depth, lock_waiting, sleeping>>
device == <<rxbusy, rbusy, sbusy, rxirq, rirq, sirq, dma>>
nic_vars == <<monitor, nic_pc, device, handler, panic, arrived, sent>>

Mon == INSTANCE Monitor WITH Threads <- NicThreads, waiting <- lock_waiting

NicGoto(t, p) == nic_pc' = [nic_pc EXCEPT ![t] = p]
nic_dmabusy == rbusy \/ sbusy
-----------------------------------------------------------------------------
\* lock_acquire, and the part of condition_wait after the signal: the thread
\* goes on to p once the lock is its own.
lock_acquire(t, from, p) ==
    /\ ~panic /\ nic_pc[t] = from
    /\ Mon!Acquire(t, "nic")
    /\ NicGoto(t, p)
    /\ UNCHANGED <<device, handler, panic, arrived, sent>>

Signalled(t, c) == t \notin Range(sleeping[c])
Has(t, p) == ~panic /\ nic_pc[t] = p /\ owner["nic"] = t

condition_wait(t, c, p) ==
    /\ Mon!Wait(t, c, "nic")
    /\ NicGoto(t, p)

\* The lock is taken again after the signal.
condition_wait_end(t) ==
    \E w \in {<<"csdma", "wait_csdma", "send">>, <<"csirq", "wait_csirq", "release">>,
              <<"crxirq", "wait_crxirq", "receive">>, <<"crirq", "wait_crirq", "release">>} :
        Signalled(t, w[1]) /\ lock_acquire(t, w[2], w[3])

lock_release(t) ==
    /\ Has(t, "release")
    /\ Mon!Release(t, "nic")
    /\ NicGoto(t, "out")
    /\ UNCHANGED <<device, handler, panic, arrived, sent>>
-----------------------------------------------------------------------------
nic_send(t) ==
    /\ t \in Senders /\ sent[t] < Sends
    /\ sent' = [sent EXCEPT ![t] = @ + 1]
    /\ ~panic /\ nic_pc[t] = "out"
    /\ Mon!Acquire(t, "nic")
    /\ NicGoto(t, "send")
    /\ UNCHANGED <<device, handler, panic, arrived>>

\* Wait while a transfer is on ...
nic_send_test(t) ==
    /\ Has(t, "send")
    /\ IF nic_dmabusy
       THEN condition_wait(t, "csdma", "wait_csdma")
       ELSE NicGoto(t, "SEND") /\ UNCHANGED monitor
    /\ UNCHANGED <<device, handler, panic, arrived, sent>>

\* ... and give the frame to the device.
nic_send_command(t) ==
    /\ Has(t, "SEND")
    /\ IF nic_dmabusy
       THEN panic' = TRUE /\ UNCHANGED <<sbusy, dma, nic_pc>>
       ELSE sbusy' = TRUE /\ dma' = t /\ NicGoto(t, "sent") /\ UNCHANGED panic
    /\ UNCHANGED <<monitor, rxbusy, rbusy, rxirq, rirq, sirq, handler, arrived, sent>>

nic_send_wait(t) ==
    /\ Has(t, "sent")
    /\ condition_wait(t, "csirq", "wait_csirq")
    /\ UNCHANGED <<device, handler, panic, arrived, sent>>

nic_recv(t) == t \in Receivers /\ lock_acquire(t, "out", "recv")

nic_recv_wait(t) ==
    /\ Has(t, "recv")
    /\ condition_wait(t, "crxirq", "wait_crxirq")
    /\ UNCHANGED <<device, handler, panic, arrived, sent>>

\* RECEIVE, without a look at the transfers that may be on.
nic_recv_command(t) ==
    /\ Has(t, "receive")
    /\ IF nic_dmabusy \/ ~rxbusy
       THEN panic' = TRUE /\ UNCHANGED <<rbusy, dma, nic_pc>>
       ELSE rbusy' = TRUE /\ dma' = t /\ NicGoto(t, "received") /\ UNCHANGED panic
    /\ UNCHANGED <<monitor, rxbusy, sbusy, rxirq, rirq, sirq, handler, arrived, sent>>

nic_recv_command_wait(t) ==
    /\ Has(t, "received")
    /\ condition_wait(t, "crirq", "wait_crirq")
    /\ UNCHANGED <<device, handler, panic, arrived, sent>>
-----------------------------------------------------------------------------
\* condition_signal of each of the conditions in C; nobody may be waiting.
condition_signal(C) ==
    /\ sleeping' = [c \in Conds |-> IF c \in C /\ sleeping[c] # <<>>
                                    THEN Tail(sleeping[c]) ELSE sleeping[c]]
    /\ UNCHANGED <<owner, depth, lock_waiting>>

\* Faulty: RXIRQ is handled again each time, and not cleared.
rxirq_bug ==
    /\ handler = "idle" /\ ~panic /\ (rxirq \/ rirq \/ sirq)
    /\ handler' = "rirq"
    /\ IF rxirq /\ ~nic_dmabusy
       THEN condition_signal({"crxirq"}) /\ UNCHANGED rxirq
       ELSE UNCHANGED <<monitor, rxirq>>
    /\ UNCHANGED <<nic_pc, rxbusy, rbusy, sbusy, rirq, sirq, dma, panic, arrived, sent>>

\* nic_interrupt_handle: RXIRQ, put off while a transfer is on, ...
nic_interrupt_handle ==
    /\ handler = "idle" /\ ~panic /\ (rxirq \/ rirq \/ sirq)
    /\ handler' = "rirq"
    /\ IF rxirq /\ ~nic_dmabusy
       THEN condition_signal({"crxirq"}) /\ rxirq' = FALSE
       ELSE UNCHANGED <<monitor, rxirq>>
    /\ UNCHANGED <<nic_pc, rxbusy, rbusy, sbusy, rirq, sirq, dma, panic, arrived, sent>>

\* ... RIRQ, which frees the receive buffer, ...
nic_interrupt_rirq ==
    /\ handler = "rirq"
    /\ handler' = "sirq"
    /\ IF rirq
       THEN condition_signal({"crirq", "csdma"}) /\ rirq' = FALSE /\ rxbusy' = FALSE
       ELSE UNCHANGED <<monitor, rirq, rxbusy>>
    /\ UNCHANGED <<nic_pc, rbusy, sbusy, rxirq, sirq, dma, panic, arrived, sent>>

\* ... and SIRQ.
nic_interrupt_sirq ==
    /\ handler = "sirq"
    /\ handler' = "idle"
    /\ IF sirq
       THEN condition_signal({"csirq", "csdma"}) /\ sirq' = FALSE
       ELSE UNCHANGED <<monitor, sirq>>
    /\ UNCHANGED <<nic_pc, rxbusy, rbusy, sbusy, rxirq, rirq, dma, panic, arrived, sent>>
-----------------------------------------------------------------------------
\* The device: a frame arrives and is kept if the buffer is empty; a transfer
\* ends.
FrameArrives ==
    /\ arrived < Arrivals /\ ~panic
    /\ arrived' = arrived + 1
    /\ IF rxbusy THEN UNCHANGED <<rxbusy, rxirq>> ELSE rxbusy' = TRUE /\ rxirq' = TRUE
    /\ UNCHANGED <<monitor, nic_pc, rbusy, sbusy, rirq, sirq, dma, handler, panic, sent>>

TransferEnds ==
    /\ nic_dmabusy /\ ~panic
    /\ dma' = NoThread /\ rbusy' = FALSE /\ sbusy' = FALSE
    /\ rirq' = (rirq \/ rbusy) /\ sirq' = (sirq \/ sbusy)
    /\ UNCHANGED <<monitor, nic_pc, rxbusy, rxirq, handler, panic, arrived, sent>>

\* nic_init.
NicInit ==
    /\ Mon!Init
    /\ nic_pc = [t \in NicThreads |-> "out"]
    /\ rxbusy = FALSE /\ rbusy = FALSE /\ sbusy = FALSE
    /\ rxirq = FALSE /\ rirq = FALSE /\ sirq = FALSE /\ dma = NoThread
    /\ handler = "idle" /\ panic = FALSE
    /\ arrived = 0 /\ sent = [t \in Senders |-> 0]

NicGoOn(t) ==
    \/ nic_send_test(t) \/ nic_send_command(t) \/ nic_send_wait(t)
    \/ nic_recv_wait(t) \/ nic_recv_command(t) \/ nic_recv_command_wait(t)
    \/ condition_wait_end(t) \/ lock_release(t)

NicHandler == nic_interrupt_handle \/ nic_interrupt_rirq \/ nic_interrupt_sirq

NicNext ==
    \/ \E t \in NicThreads : nic_send(t) \/ nic_recv(t) \/ NicGoOn(t)
    \/ NicHandler
    \/ FrameArrives \/ TransferEnds

NicSpec == NicInit /\ [][NicNext]_nic_vars
-----------------------------------------------------------------------------
Points == {"out", "send", "SEND", "sent", "recv", "receive", "received", "wait_csdma",
           "wait_csirq", "wait_crxirq", "wait_crirq", "release"}

NicTypeOK ==
    /\ nic_pc \in [NicThreads -> Points]
    /\ dma \in NicThreads \cup {NoThread}
    /\ handler \in {"idle", "rirq", "sirq"}
    /\ arrived \in 0..Arrivals

\* The device transfers one frame at a time, and only a frame whose owner is
\* still inside nic_send or nic_recv after its command: the page is never freed
\* or reused under the device, although completions can be signalled while
\* nobody waits and a later one then wakes an earlier caller.  RECEIVE is never
\* given without a frame in the buffer, and the driver's only error is a RECEIVE
\* that meets the transfer of a sender.
FramesInUse ==
    /\ NicTypeOK
    /\ ~(rbusy /\ sbusy) /\ (dma # NoThread <=> nic_dmabusy)
    /\ sbusy => dma \in Senders /\ nic_pc[dma] \in {"sent", "wait_csirq"}
    /\ rbusy => /\ dma \in Receivers /\ nic_pc[dma] \in {"received", "wait_crirq"}
                /\ rxbusy
    /\ nic_dmabusy => ~Signalled(dma, IF sbusy THEN "csirq" ELSE "crirq")
                      \/ nic_pc[dma] \in {"sent", "received"}
    /\ panic => sbusy
=============================================================================
