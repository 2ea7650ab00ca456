------------------------------- MODULE Monitor -------------------------------
(***************************************************************************)
(* What kernel/lock_cond.c promises: recursive locks that are handed over  *)
(* to their waiters in the order they came, and condition variables whose  *)
(* waiters release the lock and start to wait in one step, and compete for *)
(* the lock again, behind the others, once they are signalled.             *)
(***************************************************************************)
EXTENDS Integers, Sequences

CONSTANTS Threads, Locks, Conds, NoThread

VARIABLES
    owner,     \* the thread that has the lock
    depth,     \* how many times it has it
    waiting,   \* the threads waiting for the lock
    sleeping   \* the threads waiting for the condition

Init ==
    /\ owner = [l \in Locks |-> NoThread]
    /\ depth = [l \in Locks |-> 0]
    /\ waiting = [l \in Locks |-> <<>>]
    /\ sleeping = [c \in Conds |-> <<>>]

\* The lock is t's at once, or t joins the waiters.
Acquire(t, l) ==
    /\ \/ /\ owner[l] \in {NoThread, t}
          /\ owner' = [owner EXCEPT ![l] = t]
          /\ depth' = [depth EXCEPT ![l] = @ + 1]
          /\ UNCHANGED waiting
       \/ /\ owner[l] \notin {NoThread, t}
          /\ waiting' = [waiting EXCEPT ![l] = Append(@, t)]
          /\ UNCHANGED <<owner, depth>>
    /\ UNCHANGED sleeping

GiveUp(t, l) ==
    /\ owner[l] = t
    /\ IF depth[l] > 1
       THEN depth' = [depth EXCEPT ![l] = @ - 1] /\ UNCHANGED <<owner, waiting>>
       ELSE IF waiting[l] = <<>>
       THEN /\ owner' = [owner EXCEPT ![l] = NoThread]
            /\ depth' = [depth EXCEPT ![l] = 0]
            /\ UNCHANGED waiting
       ELSE /\ owner' = [owner EXCEPT ![l] = Head(waiting[l])]
            /\ depth' = [depth EXCEPT ![l] = 1]
            /\ waiting' = [waiting EXCEPT ![l] = Tail(@)]

Release(t, l) == GiveUp(t, l) /\ UNCHANGED sleeping

Wait(t, c, l) ==
    /\ GiveUp(t, l)
    /\ sleeping' = [sleeping EXCEPT ![c] = Append(@, t)]

Signal(c) ==
    /\ sleeping[c] # <<>>
    /\ sleeping' = [sleeping EXCEPT ![c] = Tail(@)]
    /\ UNCHANGED <<owner, depth, waiting>>

Broadcast(c) ==
    /\ sleeping' = [sleeping EXCEPT ![c] = <<>>]
    /\ UNCHANGED <<owner, depth, waiting>>

Next ==
    \/ \E t \in Threads, l \in Locks :
        \/ Acquire(t, l) \/ Release(t, l)
        \/ \E c \in Conds : Wait(t, c, l)
    \/ \E c \in Conds : Signal(c) \/ Broadcast(c)

Spec == Init /\ [][Next]_<<owner, depth, waiting, sleeping>>
=============================================================================
