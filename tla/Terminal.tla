------------------------------ MODULE Terminal -------------------------------
(***************************************************************************)
(* The terminal driver (drivers/tty.c) and the polling driver that shares  *)
(* its device for kernel messages (drivers/polltty.c, kprintf).            *)
(*                                                                         *)
(* The interrupt handler moves characters between two ring buffers and the *)
(* device one at a time, and the device runs beside it.  tty_write and     *)
(* tty_read sleep through the contract SleepQueue.  The k-th character of  *)
(* a text is <<t, k>>, where t is the thread that writes it, and the k-th  *)
(* key is k.  A device error stops the kernel and is not modelled.         *)
(*                                                                         *)
(* The device has a bit WIRQ, set when it has sent a character and cleared *)
(* by a command, and a bit WIRQE that the commands WIRQE and WIRQD switch; *)
(* it interrupts while both are set.                                       *)
(***************************************************************************)
EXTENDS Integers, Sequences, FiniteSets, Functions

CONSTANTS
    Writers, Readers,
    Kernel,                  \* the thread that calls kprintf
    NULL,
    TTY_BUF_SIZE,
    Lengths,                 \* bound: lengths of the texts of tty_write
    MaxRead,                 \* bound: length asked of tty_read
    Loads                    \* bound: threads that call the driver, keys typed and
                             \*   characters of kernel messages

Callers == Writers \cup Readers
Resources == {"read_buf", "write_buf"}
Index == 0..(TTY_BUF_SIZE - 1)

VARIABLES
    load,                    \* which of the loads this is
    write_buf, write_head, write_count,
    read_buf, read_head, read_count,
    slock,                   \* who holds it: a thread, "handler" or NULL
    queue, blocked,          \* the sleep queue
    pc, len, i,              \* of the calls: length asked for, characters done
    handler,                 \* where the interrupt handler is
    printed,                 \* characters of kernel messages so far
    wire, wirq, wirqe,       \* device: the character being sent; status bits WIRQ, WIRQE
    avail, rirq,             \* device: keys not yet taken; read interrupt
    typed, accepted, output, got, overrun    \* history

tty_rd == <<write_buf, write_head, write_count, read_buf, read_head, read_count>>
call == <<load, pc, len, i>>
wdevice == <<wire, wirq, wirqe, output>>
rdevice == <<avail, rirq, typed>>
vars == <<tty_rd, slock, queue, blocked, call, handler, printed, wdevice, rdevice,
          accepted, got, overrun>>

SQ == INSTANCE SleepQueue WITH Threads <- Callers

Goto(t, p) == pc' = [pc EXCEPT ![t] = p]

\* What a ring buffer holds, oldest first.
Ring(buf, head, count) ==
    [k \in 1..count |-> buf[(head + k - 1) % TTY_BUF_SIZE]]
-----------------------------------------------------------------------------
\* tty_write and tty_read, until they have the spinlock.
tty_write(t, n) ==
    /\ pc[t] = "out" /\ t \in Writers /\ len[t] = 0
    /\ len' = [len EXCEPT ![t] = n]
    /\ Goto(t, "lock")
    /\ UNCHANGED <<tty_rd, slock, queue, blocked, load, i, handler, printed, wdevice,
                   rdevice, accepted, got, overrun>>

tty_read(t, n) ==
    /\ pc[t] = "out" /\ t \in Readers
    /\ len' = [len EXCEPT ![t] = n]
    /\ Goto(t, "lock")
    /\ UNCHANGED <<tty_rd, slock, queue, blocked, load, i, handler, printed, wdevice,
                   rdevice, accepted, got, overrun>>

spinlock_acquire(t) ==
    /\ pc[t] = "lock" /\ slock = NULL
    /\ slock' = t
    /\ Goto(t, IF t \in Writers THEN "write" ELSE "read")
    /\ UNCHANGED <<tty_rd, queue, blocked, load, len, i, handler, printed, wdevice,
                   rdevice, accepted, got, overrun>>

\* sleepq_add, the release of the spinlock and thread_switch.
Wait(t, r) ==
    /\ SQ!Sleep(t, r)
    /\ slock' = NULL
    /\ Goto(t, "sleep")

tty_sleep(t) ==
    /\ \/ pc[t] = "write" /\ i[t] < len[t] /\ write_count > 0 /\ Wait(t, "write_buf")
       \/ pc[t] = "read" /\ read_count = 0 /\ Wait(t, "read_buf")
    /\ UNCHANGED <<tty_rd, load, len, i, handler, printed, wdevice, rdevice, accepted,
                   got, overrun>>

tty_wake(t) ==
    /\ pc[t] = "sleep" /\ SQ!Return(t)
    /\ Goto(t, "lock")
    /\ UNCHANGED <<tty_rd, slock, load, len, i, handler, printed, wdevice, rdevice,
                   accepted, got, overrun>>

\* Faulty: the first character is written to the device and stays buffered.
Send_bug(buf, count) ==
    /\ wire' = buf[write_head]
    /\ write_count' = count
    /\ UNCHANGED write_head

\* The oldest character of the write buffer buf goes to the device.
Send(buf, count) ==
    /\ wire' = buf[write_head]
    /\ write_head' = (write_head + 1) % TTY_BUF_SIZE
    /\ write_count' = count - 1

\* The buffer is empty: fill it, and start the device if it is idle.
tty_write_fill(t) ==
    /\ pc[t] = "write" /\ i[t] < len[t] /\ write_count = 0
    /\ LET n == IF TTY_BUF_SIZE < len[t] - i[t] THEN TTY_BUF_SIZE ELSE len[t] - i[t]
           buf == [x \in Index |->
                      LET k == (x - write_head) % TTY_BUF_SIZE IN
                      IF k < n THEN <<t, i[t] + k + 1>> ELSE write_buf[x]]
       IN  /\ write_buf' = buf
           /\ i' = [i EXCEPT ![t] = @ + n]
           /\ accepted' = accepted \o [k \in 1..n |-> <<t, i[t] + k>>]
           /\ IF wire = NULL
              THEN Send(buf, n)
              ELSE write_count' = n /\ UNCHANGED <<wire, write_head>>
    /\ UNCHANGED <<read_buf, read_head, read_count, slock, queue, blocked, load, pc, len,
                   handler, printed, wirq, wirqe, output, rdevice, got, overrun>>

tty_write_return(t) ==
    /\ pc[t] = "write" /\ i[t] = len[t]
    /\ slock' = NULL
    /\ Goto(t, "out")
    /\ UNCHANGED <<tty_rd, queue, blocked, load, len, i, handler, printed, wdevice,
                   rdevice, accepted, got, overrun>>

\* Take what there is, at most what was asked for.
tty_read_return(t) ==
    /\ pc[t] = "read" /\ read_count > 0
    /\ LET n == IF read_count < len[t] THEN read_count ELSE len[t] IN
       /\ got' = got \o SubSeq(Ring(read_buf, read_head, read_count), 1, n)
       /\ read_head' = (read_head + n) % TTY_BUF_SIZE
       /\ read_count' = read_count - n
    /\ slock' = NULL
    /\ Goto(t, "out")
    /\ UNCHANGED <<write_buf, write_head, write_count, read_buf, queue, blocked, load,
                   len, i, handler, printed, wdevice, rdevice, accepted, overrun>>
-----------------------------------------------------------------------------
\* tty_interrupt_handle.  WIRQ first: inhibit write interrupts, acknowledge, ...
tty_interrupt_handle ==
    /\ handler = "idle" /\ ((wirq /\ wirqe) \/ rirq)
    /\ IF wirq
       THEN /\ slock = NULL /\ slock' = "handler"
            /\ wirqe' = FALSE /\ wirq' = FALSE
            /\ handler' = "wirq"
       ELSE handler' = "rirq" /\ UNCHANGED <<slock, wirq, wirqe>>
    /\ UNCHANGED <<tty_rd, queue, blocked, call, printed, wire, output, rdevice,
                   accepted, got, overrun>>

\* ... send while the device takes characters ...
tty_interrupt_send ==
    /\ handler = "wirq" /\ wire = NULL /\ write_count > 0
    /\ wirq' = FALSE
    /\ Send(write_buf, write_count)
    /\ UNCHANGED <<write_buf, read_buf, read_head, read_count, slock, queue, blocked,
                   call, handler, printed, wirqe, output, rdevice, accepted, got,
                   overrun>>

\* ... until it is found busy, or there are no more; ...
tty_interrupt_sent ==
    /\ handler = "wirq" /\ (wire # NULL \/ write_count = 0)
    /\ handler' = "wirqe"
    /\ UNCHANGED <<tty_rd, slock, queue, blocked, call, printed, wdevice, rdevice,
                   accepted, got, overrun>>

\* Faulty: it acknowledges what was sent since it last looked at the device.
tty_interrupt_enable_bug ==
    /\ handler = "wirqe"
    /\ wirqe' = TRUE /\ wirq' = FALSE
    /\ IF write_count = 0 THEN SQ!WakeAll("write_buf") ELSE UNCHANGED <<queue, blocked>>
    /\ slock' = NULL
    /\ handler' = "rirq"
    /\ UNCHANGED <<tty_rd, call, printed, wire, output, rdevice, accepted, got, overrun>>

\* ... then enable write interrupts again, and wake the writers if the buffer is empty.
tty_interrupt_enable ==
    /\ handler = "wirqe"
    /\ wirqe' = TRUE
    /\ IF write_count = 0 THEN SQ!WakeAll("write_buf") ELSE UNCHANGED <<queue, blocked>>
    /\ slock' = NULL
    /\ handler' = "rirq"
    /\ UNCHANGED <<tty_rd, call, printed, wire, wirq, output, rdevice, accepted, got,
                   overrun>>

\* Then RIRQ, if it is set: acknowledge it, ...
tty_interrupt_rirq ==
    /\ handler = "rirq"
    /\ IF rirq
       THEN /\ slock = NULL /\ slock' = "handler"
            /\ rirq' = FALSE
            /\ handler' = "ravail"
       ELSE handler' = "idle" /\ UNCHANGED <<slock, rirq>>
    /\ UNCHANGED <<tty_rd, queue, blocked, call, printed, wdevice, avail, typed,
                   accepted, got, overrun>>

\* Faulty: the head of the buffer is forgotten.
ReadIndex_bug == read_count % TTY_BUF_SIZE

ReadIndex == (read_head + read_count) % TTY_BUF_SIZE

\* ... take the keys (when the buffer is over-full they are dropped) ...
tty_interrupt_receive ==
    /\ handler = "ravail" /\ avail # <<>>
    /\ avail' = Tail(avail)
    /\ IF read_count > TTY_BUF_SIZE
       THEN UNCHANGED <<read_buf, read_count>>
       ELSE /\ read_buf' = [read_buf EXCEPT ![ReadIndex] = Head(avail)]
            /\ read_count' = read_count + 1
    /\ overrun' = (overrun \/ read_count >= TTY_BUF_SIZE)
    /\ UNCHANGED <<write_buf, write_head, write_count, read_head, slock, queue,
                   blocked, call, handler, printed, wdevice, rirq, typed, accepted, got>>

\* ... release the spinlock, and only then wake the readers.
tty_interrupt_received ==
    /\ handler = "ravail" /\ avail = <<>>
    /\ slock' = NULL
    /\ handler' = "wake"
    /\ UNCHANGED <<tty_rd, queue, blocked, call, printed, wdevice, rdevice, accepted,
                   got, overrun>>

tty_interrupt_wake ==
    /\ handler = "wake"
    /\ SQ!WakeAll("read_buf")
    /\ handler' = "idle"
    /\ UNCHANGED <<tty_rd, slock, call, printed, wdevice, rdevice, accepted, got,
                   overrun>>
-----------------------------------------------------------------------------
\* kprintf of one character: polltty_putchar under the shared spinlock.  It
\* polls until the device is idle, writes, and polls again.
kprintf ==
    /\ slock = NULL /\ printed < load.messages
    /\ slock' = Kernel
    /\ UNCHANGED <<tty_rd, queue, blocked, call, handler, printed, wdevice, rdevice,
                   accepted, got, overrun>>

\* The interrupt its character raises is left to the terminal driver.
polltty_putchar ==
    /\ slock = Kernel /\ wire = NULL
    /\ IF output # <<>> /\ output[Len(output)] = <<Kernel, printed + 1>>
       THEN printed' = printed + 1 /\ slock' = NULL /\ UNCHANGED wire
       ELSE wire' = <<Kernel, printed + 1>> /\ UNCHANGED <<printed, slock>>
    /\ UNCHANGED <<tty_rd, queue, blocked, call, handler, wirq, wirqe, output, rdevice,
                   accepted, got, overrun>>
-----------------------------------------------------------------------------
\* The device: a character has been sent, which sets WIRQ whether or not write
\* interrupts are enabled; a key has been typed.
TtySent ==
    /\ wire # NULL
    /\ output' = Append(output, wire)
    /\ wire' = NULL /\ wirq' = TRUE
    /\ UNCHANGED <<tty_rd, slock, queue, blocked, call, handler, printed, wirqe, rdevice,
                   accepted, got, overrun>>

TtyKey ==
    /\ typed < load.keys
    /\ avail' = Append(avail, typed + 1)
    /\ typed' = typed + 1 /\ rirq' = TRUE
    /\ UNCHANGED <<tty_rd, slock, queue, blocked, call, handler, printed, wdevice,
                   accepted, got, overrun>>

\* tty_init.  The buffers are not cleared.
Init ==
    /\ load \in Loads
    /\ write_buf = [x \in Index |-> NULL] /\ write_head = 0 /\ write_count = 0
    /\ read_buf = [x \in Index |-> 0] /\ read_head = 0 /\ read_count = 0
    /\ slock = NULL /\ SQ!Init
    /\ pc = [t \in Callers |-> "out"]
    /\ len = [t \in Callers |-> 0] /\ i = [t \in Callers |-> 0]
    /\ handler = "idle" /\ printed = 0
    /\ wire = NULL /\ wirq = FALSE /\ wirqe = TRUE
    /\ avail = <<>> /\ rirq = FALSE
    /\ typed = 0 /\ accepted = <<>> /\ output = <<>> /\ got = <<>> /\ overrun = FALSE

GoOn(t) ==
    \/ spinlock_acquire(t) \/ tty_sleep(t) \/ tty_wake(t)
    \/ tty_write_fill(t) \/ tty_write_return(t) \/ tty_read_return(t)

Handler ==
    \/ tty_interrupt_handle \/ tty_interrupt_send \/ tty_interrupt_sent
    \/ tty_interrupt_enable \/ tty_interrupt_rirq \/ tty_interrupt_receive
    \/ tty_interrupt_received \/ tty_interrupt_wake

Next ==
    \/ \E t \in load.threads :
        \/ \E n \in Lengths : tty_write(t, n)
        \/ tty_read(t, MaxRead)
        \/ GoOn(t)
    \/ Handler
    \/ kprintf \/ polltty_putchar
    \/ TtySent \/ TtyKey

Spec == Init /\ [][Next]_vars

\* Threads are scheduled, the device sends what it was given, pending
\* interrupts are taken, and whoever spins on the spinlock gets it in the end.
Fairness ==
    /\ \A t \in Callers : WF_vars(GoOn(t)) /\ SF_vars(spinlock_acquire(t))
    /\ WF_vars(Handler) /\ SF_vars(tty_interrupt_handle) /\ SF_vars(tty_interrupt_rirq)
    /\ WF_vars(polltty_putchar) /\ WF_vars(TtySent)

FairSpec == Spec /\ Fairness
-----------------------------------------------------------------------------
TypeOK ==
    /\ write_head \in Index /\ write_count \in 0..TTY_BUF_SIZE
    /\ read_head \in Index /\ read_count \in 0..(TTY_BUF_SIZE + 1)
    /\ DOMAIN write_buf = Index /\ DOMAIN read_buf = Index
    /\ slock \in Callers \cup {"handler", Kernel, NULL}
    /\ pc \in [Callers -> {"out", "lock", "write", "read", "sleep"}]
    /\ \A t \in Callers : i[t] \in 0..len[t]

Printed(seq) == SelectSeq(seq, LAMBDA c : c[1] = Kernel)
Written(seq) == SelectSeq(seq, LAMBDA c : c[1] # Kernel)

\* Nothing is lost, repeated or reordered between tty_write and the screen,
\* whatever kernel messages come in between: what was sent, is being sent and
\* is buffered is, in this order, what the writers put in.
OutputExact ==
    /\ TypeOK
    /\ Written(output) \o Written(IF wire = NULL THEN <<>> ELSE <<wire>>)
           \o Ring(write_buf, write_head, write_count) = accepted
    /\ Len(Printed(output)) \in {printed, printed + 1}

\* Nothing is lost, repeated or reordered between the keyboard and tty_read
\* until a key arrives while the buffer is full: the handler's test lets one
\* key too many in (`read_count > TTY_BUF_SIZE'), which replaces the oldest.
InputExact ==
    ~overrun => got \o Ring(read_buf, read_head, read_count) \o avail
                    = [k \in 1..typed |-> k]

\* Every tty_write returns, although writers wait for each other, for the
\* device and for kernel messages, and although the handler inhibits write
\* interrupts while it sends: a character sent between its last look at the device
\* and the command WIRQE is not forgotten.  And a reader does not sleep on while
\* keys are in the buffer.
TerminalGoesOn ==
    /\ \A t \in Writers : []<>(pc[t] = "out")
    /\ \A t \in Readers : []<>(pc[t] # "sleep" \/ read_count = 0)
=============================================================================
