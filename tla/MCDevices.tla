------------------------------ MODULE MCDevices ------------------------------
(***************************************************************************)
(* Small instances of Disk, NIC and Terminal, side by side: the initial    *)
(* state says which of them runs, and the others stay as they began.       *)
(***************************************************************************)
EXTENDS Disk, NIC

CONSTANTS
    t1, t2, t3,
    Writers, Readers, Kernel, TTY_BUF_SIZE, Lengths, MaxRead,
    w1, w2, r1, r2

ASSUME NICAssumption

VARIABLES
    component,
    load, write_buf, write_head, write_count, read_buf, read_head, read_count,
    tty_slock, queue, blocked, tty_pc, len, i, tty_handler, printed, wire, wirq, wirqe,
    avail, tty_rirq, typed, accepted, output, got, overrun

\* SFS reads a larger block, TFS reads and writes single ones.
MixedCalls == {<<t1, "READ", "vblock", 0>>,
               <<t2, "READ", "block", 1>>, <<t3, "WRITE", "block", 1>>}

\* Two writers, two readers, or one of each, with keys and kernel messages.
TerminalLoads ==
    {[threads |-> {w1, w2}, keys |-> 0, messages |-> 1],
     [threads |-> {r1, r2}, keys |-> 4, messages |-> 0],
     [threads |-> {w1, r1}, keys |-> 2, messages |-> 1]}

Tty == INSTANCE Terminal WITH
    NULL <- NoThread, slock <- tty_slock, pc <- tty_pc, handler <- tty_handler,
    rirq <- tty_rirq, Loads <- TerminalLoads

tty == <<load, write_buf, write_head, write_count, read_buf, read_head, read_count,
         tty_slock, queue, blocked, tty_pc, len, i, tty_handler, printed, wire, wirq,
         wirqe, avail, tty_rirq, typed, accepted, output, got, overrun>>

MCInit ==
    /\ component \in {"disk", "nic", "terminal"}
    /\ Init /\ NicInit /\ Tty!Init
    /\ component # "terminal" => load = CHOOSE l \in TerminalLoads : TRUE
    /\ component # "disk" => \A b \in Blocks : store[b] = CHOOSE v \in Values : TRUE

MCNext ==
    /\ UNCHANGED component
    /\ \/ component = "disk" /\ Next /\ UNCHANGED <<nic_vars, tty>>
       \/ component = "nic" /\ NicNext /\ UNCHANGED <<vars, tty>>
       \/ component = "terminal" /\ Tty!Next /\ UNCHANGED <<vars, nic_vars>>

\* The actions that spin for a spinlock, in groups: of a group one action at most
\* can come to be enabled in a behaviour, or, for the interrupt handler, at each
\* point of it, so that strong fairness of the group is strong fairness of each.
Spins(t, action) ==
    \/ component = "disk" /\ disk_submit_request(t) /\ UNCHANGED tty
    \/ component = "terminal" /\ action /\ UNCHANGED vars
Acquires(pair) == \E t \in pair : Tty!spinlock_acquire(t)
HandlerAcquires == Tty!tty_interrupt_handle \/ Tty!tty_interrupt_rirq

\* The fairness of Disk and of Terminal; no liveness is asked of the network
\* interface.
MCFairSpec ==
    /\ MCInit /\ [][MCNext]_<<component, vars, nic_vars, tty>>
    /\ SF_<<vars, tty>>(Spins(t1, Acquires({w1, r2})))
    /\ SF_<<vars, tty>>(Spins(t2, Acquires({w2, r1})))
    /\ SF_<<vars, tty>>(Spins(t3, HandlerAcquires))
    /\ \A t \in Threads : WF_vars(component = "disk" /\ GoOn(t))
    /\ WF_vars(component = "disk" /\ DiskDone) /\ WF_vars(component = "disk" /\ Handler)
    /\ \A t \in Tty!Callers : WF_tty(component = "terminal" /\ Tty!GoOn(t))
    /\ WF_tty(component = "terminal" /\ Tty!Handler)
    /\ WF_tty(component = "terminal" /\ Tty!polltty_putchar)
    /\ WF_tty(component = "terminal" /\ Tty!TtySent)

OutputExact == Tty!OutputExact
InputExact == Tty!InputExact
TerminalGoesOn == Tty!TerminalGoesOn
=============================================================================
