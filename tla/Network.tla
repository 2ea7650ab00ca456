------------------------------- MODULE Network -------------------------------
(***************************************************************************)
(* Sockets, the POP protocol and the frame layer: net/socket.c, net/pop.c, *)
(* net/network.c and net/protocols.c, over the page pool that their frames *)
(* come from (vm/pagepool.c).                                              *)
(*                                                                         *)
(* User threads open and close sockets, send and receive.  One thread      *)
(* receives frames from the interface, and the POP service thread hands    *)
(* queued packets to receivers or drops them.  What open_sockets_sem and   *)
(* pop_queue_sem protect is one step; the other semaphores are used        *)
(* through their contract, CountingSemaphore.  The service thread acts on  *)
(* a slot of the queue without holding any of them, step by step.          *)
(*                                                                         *)
(* A packet is its destination port; a frame is the page that holds one.   *)
(* What is not looked at again is reset: the contents of a free page, the  *)
(* fields of an empty slot, the locals of a call that has returned.  A     *)
(* thread uses the sockets it has opened and no others.                    *)
(***************************************************************************)
EXTENDS Integers, Sequences, FiniteSets, FiniteSetsExt, Functions

CONSTANTS
    Users,
    NULL,
    MAX_OPEN_SOCKETS, POP_QUEUE_SIZE,
    POP_QUEUE_MIN_AGE,
    Loads,               \* workloads: the size of the pool, who runs, the protocols and
                         \* ports they open, the ports that packets are sent to, and the
                         \* bounds on the calls, frames that arrive and clock ticks
    Pages                \* the largest pool

Sockets == 0 .. MAX_OPEN_SOCKETS - 1
Slots == 0 .. POP_QUEUE_SIZE - 1
POP == 1
SOP == 2
Threads == Users \cup {"service"}
pop_service_thread_sem == MAX_OPEN_SOCKETS
pop_send_buffer_sem == MAX_OPEN_SOCKETS + 1
Semaphores == Sockets \cup {pop_service_thread_sem, pop_send_buffer_sem}
Values == {0, 1}

VARIABLES
    count, waiting,      \* the semaphores; receive_complete of socket s is number s
    open_sockets,
    pop_queue,
    pool, reserved,      \* the pages of the pool, and those in use
    packet,              \* the packet in each page
    pc,                  \* users
    socket, page, buf,   \* users: the socket opened, the frame sent, the packet received
    service,             \* the service thread: where it is, its slot and frame
    receiver,            \* the interface's thread: where it is, and its frame
    now,
    panic,               \* an assertion failed
    left,                \* what the workload has left
    clash,               \* history: a slot was reclaimed while it was being discarded
    stale                \* history: a socket was reopened with packets still bound to it

sems == <<count, waiting>>
pages == <<pool, reserved, packet>>
history == <<left, clash, stale>>
vars == <<sems, open_sockets, pop_queue, pages, pc, socket, page, buf, service, receiver,
          now, panic, history>>

Sem == INSTANCE CountingSemaphore

\* A clash ends in a page that is freed twice or a frame that is lost; what the
\* kernel does after one is left open, as after a panic.
Running == ~panic /\ ~clash
Goto(t, p) == pc' = [pc EXCEPT ![t] = p]
Passed(t, s) == t \notin Range(waiting[s])
Closed == [port |-> 0, protocol |-> 0, rbuf |-> NULL]
Scan == [at |-> "scan", slot |-> 0, frame |-> 0]
EmptySlot == [frame |-> 0, socket |-> -1, timestamp |-> 0, busy |-> FALSE]
-----------------------------------------------------------------------------
\* pagepool_get_phys_page: the first free page, 0 if there is none.
FirstFree == IF reserved = 1..pool THEN 0 ELSE Min((1..pool) \ reserved)

\* pagepool_free_phys_page asserts that the page is reserved.
pagepool_free_phys_page(p) ==
    /\ reserved' = reserved \ {p}
    /\ packet' = [packet EXCEPT ![p] = 0]
    /\ panic' = (p \notin reserved)

\* socket_open: the first free entry of the table, with the given port or, for
\* port 0, the first one not in use.
PortUsed(port) == \E s \in Sockets : open_sockets[s].protocol # 0 /\ open_sockets[s].port = port

socket_open(t, protocol, port) ==
    LET free == {s \in Sockets : open_sockets[s].protocol = 0}
        s == Min(free)
        p == IF port = 0 THEN Min({q \in 1..MAX_OPEN_SOCKETS + 1 : ~PortUsed(q)}) ELSE port
    IN  /\ Running /\ pc[t] = "out" /\ socket[t] = -1
        /\ t \in left.users /\ left.opens > 0
        /\ left' = [left EXCEPT !.opens = @ - 1]
        /\ free # {} /\ ~PortUsed(p)
        /\ Sem!Create(s, 0)
        /\ open_sockets' = [open_sockets EXCEPT
             ![s] = [port |-> p, protocol |-> protocol, rbuf |-> NULL]]
        /\ socket' = [socket EXCEPT ![t] = s]
        /\ stale' = (stale \/ \E i \in Slots : /\ pop_queue[i].frame # 0 /\ ~pop_queue[i].busy
                                               /\ pop_queue[i].socket = s)
        /\ UNCHANGED <<pop_queue, pages, pc, page, buf, service, receiver, now, panic, clash>>

\* socket_close leaves the packets queued for the socket where they are.
socket_close(t) ==
    /\ Running /\ pc[t] = "out" /\ socket[t] # -1
    /\ open_sockets' = [open_sockets EXCEPT ![socket[t]] = Closed]
    /\ socket' = [socket EXCEPT ![t] = -1]
    /\ UNCHANGED <<sems, pop_queue, pages, pc, page, buf, service, receiver, now, panic, history>>
-----------------------------------------------------------------------------
\* pop_push_frame: a free slot, else the oldest one that is not busy, if it is
\* old enough; else the packet is not accepted.
Unused == {i \in Slots : pop_queue[i].frame = 0}
NotBusy == {i \in Slots : ~pop_queue[i].busy}
Oldest == CHOOSE i \in NotBusy : \A j \in NotBusy :
              \/ pop_queue[i].timestamp < pop_queue[j].timestamp
              \/ pop_queue[i].timestamp = pop_queue[j].timestamp /\ i <= j

Accepts ==
    \/ Unused # {}
    \/ NotBusy # {} /\ now - pop_queue[Oldest].timestamp >= POP_QUEUE_MIN_AGE

\* An accepted frame takes the place of the one in the slot, which is freed.
push(p, dport) ==
    LET i == IF Unused # {} THEN Min(Unused) ELSE Oldest
        old == pop_queue[i].frame
    IN  /\ pop_queue' = [pop_queue EXCEPT
             ![i] = [frame |-> p, socket |-> -1, timestamp |-> now, busy |-> FALSE]]
        /\ reserved' = reserved \ {old}
        /\ packet' = [q \in DOMAIN packet |-> IF q = p THEN dport ELSE IF q = old THEN 0
                                                ELSE packet[q]]
        /\ panic' = (old # 0 /\ old \notin reserved)
        /\ Sem!V(pop_service_thread_sem)
        /\ clash' = (\/ clash
                      \/ /\ old # 0 /\ service.slot = i
                         /\ service.at \in {"discard", "discarded"})

\* socket_sendto: only a POP socket sends; the send buffer is taken.
socket_sendto(t, dport) ==
    /\ Running /\ pc[t] = "out" /\ left.sends > 0
    /\ socket[t] # -1 /\ open_sockets[socket[t]].protocol = POP
    /\ Sem!P(t, pop_send_buffer_sem)
    /\ buf' = [buf EXCEPT ![t] = dport]
    /\ left' = [left EXCEPT !.sends = @ - 1]
    /\ Goto(t, "buffer")
    /\ UNCHANGED <<open_sockets, pop_queue, pages, socket, page, service, receiver, now, panic,
                   clash, stale>>

\* network_send: a page is allocated and filled, if there is one.
network_send(t, loopback) ==
    /\ Running /\ pc[t] = "buffer" /\ Passed(t, pop_send_buffer_sem)
    /\ IF FirstFree = 0
       THEN Goto(t, "sent") /\ UNCHANGED <<pages, page>>
       ELSE /\ reserved' = reserved \cup {FirstFree}
            /\ page' = [page EXCEPT ![t] = FirstFree]
            /\ packet' = [packet EXCEPT ![FirstFree] = buf[t]]
            /\ Goto(t, IF loopback THEN "push" ELSE "interface")
            /\ UNCHANGED pool
    /\ UNCHANGED <<sems, open_sockets, pop_queue, socket, buf, service, receiver, now, panic,
                   history>>

\* network_receive_frame for the loopback address: pushed at once, or freed.
network_send_loopback(t) ==
    /\ Running /\ pc[t] = "push"
    /\ Goto(t, "sent")
    /\ page' = [page EXCEPT ![t] = 0]
    /\ IF Accepts
       THEN push(page[t], packet[page[t]])
       ELSE pagepool_free_phys_page(page[t]) /\ UNCHANGED <<sems, pop_queue, clash>>
    /\ UNCHANGED <<open_sockets, pool, socket, buf, service, receiver, now, left, stale>>

\* network_send_interface: gnd->send returns, and the page is freed.
network_send_interface(t) ==
    /\ Running /\ pc[t] = "interface"
    /\ Goto(t, "sent")
    /\ page' = [page EXCEPT ![t] = 0]
    /\ pagepool_free_phys_page(page[t])
    /\ UNCHANGED <<sems, open_sockets, pop_queue, pool, socket, buf, service, receiver,
                   now, history>>

socket_sendto_return(t) ==
    /\ Running /\ pc[t] = "sent"
    /\ Sem!V(pop_send_buffer_sem)
    /\ buf' = [buf EXCEPT ![t] = NULL]
    /\ Goto(t, "out")
    /\ UNCHANGED <<open_sockets, pop_queue, pages, socket, page, service, receiver, now,
                   panic, history>>
-----------------------------------------------------------------------------
\* socket_recvfrom: one call at a time for a POP socket.  The service thread is
\* woken, for packets that have come already, ...
socket_recvfrom(t) ==
    /\ Running /\ pc[t] = "out" /\ socket[t] # -1
    /\ open_sockets[socket[t]].protocol = POP /\ open_sockets[socket[t]].rbuf = NULL
    /\ left.recvs > 0 /\ left' = [left EXCEPT !.recvs = @ - 1]
    /\ open_sockets' = [open_sockets EXCEPT ![socket[t]].rbuf = t]
    /\ Goto(t, "wake")
    /\ UNCHANGED <<sems, pop_queue, pages, socket, page, buf, service, receiver, now, panic,
                   clash, stale>>

\* Faulty: the service thread is not woken.
recvfrom_bug(t) ==
    /\ Running /\ pc[t] = "wake"
    /\ UNCHANGED sems
    /\ Goto(t, "complete")
    /\ UNCHANGED <<open_sockets, pop_queue, pages, socket, page, buf, service, receiver, now,
                   panic, history>>

socket_recvfrom_wake(t) ==
    /\ Running /\ pc[t] = "wake"
    /\ Sem!V(pop_service_thread_sem)
    /\ Goto(t, "complete")
    /\ UNCHANGED <<open_sockets, pop_queue, pages, socket, page, buf, service, receiver, now,
                   panic, history>>

\* ... and the caller waits for receive_complete.
socket_recvfrom_complete(t) ==
    /\ Running /\ pc[t] = "complete"
    /\ Sem!P(t, socket[t])
    /\ Goto(t, "wait")
    /\ UNCHANGED <<open_sockets, pop_queue, pages, socket, page, buf, service, receiver, now,
                   panic, history>>

socket_recvfrom_return(t) ==
    /\ Running /\ pc[t] = "wait" /\ Passed(t, socket[t])
    /\ Goto(t, "out")
    /\ buf' = [buf EXCEPT ![t] = NULL]
    /\ UNCHANGED <<sems, open_sockets, pop_queue, pages, socket, page, service, receiver, now,
                   panic, history>>
-----------------------------------------------------------------------------
\* Faulty: the first POP socket is taken, whatever its port.
Listener_bug(dport) ==
    LET L == {s \in Sockets : open_sockets[s].protocol = POP}
    IN  IF L = {} THEN -1 ELSE Min(L)

\* pop_service_thread looks at the slots in order.  A packet is bound to the
\* socket of its port the first time it is looked at.
Listener(dport) ==
    LET L == {s \in Sockets : /\ open_sockets[s].protocol = POP
                              /\ open_sockets[s].port = dport}
    IN  IF L = {} THEN -1 ELSE Min(L)

Bound(i) ==
    IF pop_queue[i].socket = -1 THEN Listener(packet[pop_queue[i].frame])
    ELSE pop_queue[i].socket

\* What is to be done for slot i: nobody listens, or a receiver waits.
Discards(i) == Bound(i) = -1 \/ open_sockets[Bound(i)].protocol # POP
Transfers(i) == ~Discards(i) /\ open_sockets[Bound(i)].rbuf # NULL

\* The first slot with something to do, and all before it, are bound.
Todo == {i \in Slots : pop_queue[i].frame # 0 /\ (Discards(i) \/ Transfers(i))}

pop_service_thread ==
    LET slot == Min(Todo)
        looked == {i \in Slots : pop_queue[i].frame # 0 /\ (Todo = {} \/ i <= slot)}
        transfer == Todo # {} /\ Transfers(slot)
    IN  /\ Running
        /\ \/ service.at = "scan"
           \/ service.at = "asleep" /\ Passed("service", pop_service_thread_sem)
        /\ pop_queue' = [i \in Slots |->
             IF i \in looked
             THEN [pop_queue[i] EXCEPT !.socket = Bound(i),
                                       !.busy = @ \/ (transfer /\ i = slot)]
             ELSE pop_queue[i]]
        /\ service' = IF Todo = {} THEN [service EXCEPT !.at = "sleep"]
                      ELSE [at |-> IF transfer THEN "transfer" ELSE "discard",
                            slot |-> slot, frame |-> pop_queue[slot].frame]
        /\ UNCHANGED <<sems, open_sockets, pages, pc, socket, page, buf, receiver, now, panic,
                       history>>

At(p, q) == Running /\ service.at = p /\ service' = [service EXCEPT !.at = q]

\* Nothing to do: wait for a packet or a receiver.
service_sleep ==
    /\ At("sleep", "asleep")
    /\ Sem!P("service", pop_service_thread_sem)
    /\ UNCHANGED <<open_sockets, pop_queue, pages, pc, socket, page, buf, receiver, now, panic,
                   history>>

\* network_free_frame, then the slot is cleared; both without a lock.
service_free ==
    /\ At("discard", "discarded") \/ At("free", "signal")
    /\ pagepool_free_phys_page(service.frame)
    /\ UNCHANGED <<sems, open_sockets, pop_queue, pool, pc, socket, page, buf, receiver, now,
                   history>>

service_clear ==
    /\ Running /\ service.at \in {"discarded", "signalled"}
    /\ pop_queue' = [pop_queue EXCEPT ![service.slot].frame = 0]
    /\ service' = Scan
    /\ UNCHANGED <<sems, open_sockets, pages, pc, socket, page, buf, receiver, now, panic, history>>

\* A transfer: the packet is copied and the socket's buffer forgotten, the frame
\* is freed, the receiver woken and the slot cleared.
service_transfer ==
    LET s == pop_queue[service.slot].socket
    IN  /\ At("transfer", "free")
        /\ buf' = [buf EXCEPT ![open_sockets[s].rbuf] = packet[service.frame]]
        /\ open_sockets' = [open_sockets EXCEPT ![s].rbuf = NULL]
        /\ UNCHANGED <<sems, pop_queue, pages, pc, socket, page, receiver, now, panic, history>>

service_signal ==
    /\ At("signal", "signalled")
    /\ Sem!V(pop_queue[service.slot].socket)
    /\ UNCHANGED <<open_sockets, pop_queue, pages, pc, socket, page, buf, receiver, now, panic,
                   history>>
-----------------------------------------------------------------------------
\* network_receive_thread: a new page if the last one was accepted, ...
network_receive_thread ==
    /\ Running /\ receiver.at = "page"
    /\ IF FirstFree = 0
       THEN panic' = TRUE /\ UNCHANGED <<reserved, receiver>>
       ELSE /\ reserved' = reserved \cup {FirstFree}
            /\ receiver' = [at |-> "recv", page |-> FirstFree]
            /\ UNCHANGED panic
    /\ UNCHANGED <<sems, open_sockets, pop_queue, pool, packet, pc, socket, page, buf, service,
                   now, history>>

\* Faulty: the page of an accepted frame is filled again.
receive_frame_bug(dport) ==
    /\ Running /\ receiver.at = "recv"
    /\ left.arrivals > 0 /\ left' = [left EXCEPT !.arrivals = @ - 1]
    /\ IF Accepts THEN push(receiver.page, dport)
       ELSE UNCHANGED <<sems, pop_queue, reserved, packet, clash, panic>>
    /\ UNCHANGED <<open_sockets, pool, pc, socket, page, buf, service, receiver, now, stale>>

\* ... a frame from the interface, and pop_push_frame.  (An error of gnd->recv, or
\* a protocol that is not known, leaves the page to the next frame.)
network_receive_frame(dport) ==
    /\ Running /\ receiver.at = "recv"
    /\ left.arrivals > 0 /\ left' = [left EXCEPT !.arrivals = @ - 1]
    /\ IF Accepts
       THEN push(receiver.page, dport) /\ receiver' = [at |-> "page", page |-> 0]
       ELSE UNCHANGED <<sems, pop_queue, reserved, packet, clash, panic, receiver>>
    /\ UNCHANGED <<open_sockets, pool, pc, socket, page, buf, service, now, stale>>

Tick ==
    /\ left.ticks > 0 /\ left' = [left EXCEPT !.ticks = @ - 1]
    /\ now' = now + 1
    /\ UNCHANGED <<sems, open_sockets, pop_queue, pages, pc, socket, page, buf, service, receiver,
                   panic, clash, stale>>
-----------------------------------------------------------------------------
\* socket_init, pop_init and network_init; the send buffer's own page is not
\* counted.
Init ==
    /\ count = [s \in Semaphores |-> IF s = pop_send_buffer_sem THEN 1 ELSE 0]
    /\ waiting = [s \in Semaphores |-> <<>>]
    /\ open_sockets = [s \in Sockets |-> Closed]
    /\ pop_queue = [i \in Slots |-> EmptySlot]
    /\ left \in Loads /\ pool = left.pool /\ reserved = {}
    /\ packet = [p \in 1..Pages |-> 0]
    /\ pc = [t \in Users |-> "out"]
    /\ socket = [t \in Users |-> -1]
    /\ page = [t \in Users |-> 0]
    /\ buf = [t \in Users |-> NULL]
    /\ service = Scan
    /\ receiver = [at |-> "page", page |-> 0]
    /\ now = 0 /\ panic = FALSE
    /\ clash = FALSE /\ stale = FALSE

GoOn(t) ==
    \/ \E loopback \in BOOLEAN : network_send(t, loopback)
    \/ network_send_loopback(t) \/ network_send_interface(t) \/ socket_sendto_return(t)
    \/ socket_recvfrom_wake(t) \/ socket_recvfrom_complete(t) \/ socket_recvfrom_return(t)

Service ==
    \/ pop_service_thread \/ service_sleep
    \/ service_free \/ service_transfer \/ service_signal \/ service_clear

Next ==
    \/ \E t \in Users :
         \/ \E protocol \in left.protocols, port \in left.ports : socket_open(t, protocol, port)
         \/ socket_close(t)
         \/ \E dport \in left.dports : socket_sendto(t, dport)
         \/ socket_recvfrom(t)
         \/ GoOn(t)
    \/ Service
    \/ network_receive_thread \/ \E dport \in left.dports : network_receive_frame(dport)
    \/ Tick

Spec == Init /\ [][Next]_vars

\* Every kernel thread is scheduled, and gnd->send returns.
Fairness ==
    /\ \A t \in Users : WF_vars(GoOn(t))
    /\ WF_vars(Service) /\ WF_vars(network_receive_thread)

FairSpec == Spec /\ Fairness
-----------------------------------------------------------------------------
Queued == {i \in Slots : pop_queue[i].frame # 0}

TypeOK ==
    /\ \A s \in Sockets : open_sockets[s].protocol \in {0, POP, SOP}
    /\ \A i \in Slots : pop_queue[i].socket \in Sockets \cup {-1}
    /\ reserved \subseteq 1..pool
    /\ receiver.at \in {"page", "recv"}
    /\ service.at \in {"scan", "sleep", "asleep", "discard", "discarded", "transfer", "free",
                       "signal", "signalled"}

\* The slots whose frame has been freed, and only not yet forgotten.
Freed == IF service.at \in {"discarded", "signal", "signalled"} THEN {service.slot} ELSE {}

Owners(p) ==
    {<<"slot", i>> : i \in {i \in Queued \ Freed : pop_queue[i].frame = p}}
    \cup {<<"user", t>> : t \in {t \in Users : page[t] = p}}
    \cup {<<"receiver", 0>> : r \in {r \in {receiver.page} : r = p}}

\* Every page that is in use as a frame has exactly one owner - a slot of the
\* queue, a sender or the receive thread - and a page not in use has none: no
\* frame is lost, freed twice or reused while queued, although the service
\* thread frees and clears slots without a lock.  The only exception is a slot
\* that pop_push_frame reclaims while it is being discarded (it is not marked
\* busy).  The receive thread's assertion that it gets a page holds if the pool
\* has two pages more than the queue has slots.
FramesOwned ==
    /\ TypeOK
    /\ ~clash =>
         /\ \A p \in 1..pool : Cardinality(Owners(p)) = IF p \in reserved THEN 1 ELSE 0
         /\ panic => pool < POP_QUEUE_SIZE + 2

\* A receiver that is woken has a packet, it was sent to the port of its socket,
\* and no two sockets have one port.  The exception for the port of a packet is a
\* socket reopened while packets are bound to its number.
ReceiverServed ==
    /\ \A t \in Users :
         (pc[t] = "wait" /\ Passed(t, socket[t])) =>
            /\ buf[t] # NULL
            /\ ~stale => buf[t] = open_sockets[socket[t]].port
    /\ \A r, s \in Sockets : /\ r # s /\ open_sockets[r].protocol # 0
                             /\ open_sockets[s].protocol # 0
                             => open_sockets[r].port # open_sockets[s].port

\* A packet is queued for a receiver that waits.
Wanted(t) ==
    /\ pc[t] \in {"wake", "complete", "wait"}
    /\ \E i \in Queued : packet[pop_queue[i].frame] = open_sockets[socket[t]].port

\* A packet for a receiver that waits is delivered: the receiver gets it or
\* another, or the packet is dropped for a newer one.  The service thread cannot
\* go to sleep on it, whichever of the two came first.
RecvReturns == \A t \in Users : []<>(~Wanted(t) \/ panic \/ clash \/ stale)
=============================================================================
