-------------------------- MODULE CountingSemaphore --------------------------
(***************************************************************************)
(* What kernel/semaphore.c promises: a count that never goes below zero    *)
(* and waiters that are served in the order they came, each V serving one  *)
(* waiter or, if there is none, raising the count.                         *)
(***************************************************************************)
EXTENDS Integers, Sequences

CONSTANTS Threads, Semaphores, Values

VARIABLES count, waiting

Init ==
    /\ count = [s \in Semaphores |-> 0]
    /\ waiting = [s \in Semaphores |-> <<>>]

Create(s, v) ==
    /\ waiting[s] = <<>>
    /\ count' = [count EXCEPT ![s] = v]
    /\ UNCHANGED waiting

P(t, s) ==
    IF count[s] > 0
    THEN count' = [count EXCEPT ![s] = @ - 1] /\ UNCHANGED waiting
    ELSE waiting' = [waiting EXCEPT ![s] = Append(@, t)] /\ UNCHANGED count

V(s) ==
    IF waiting[s] = <<>>
    THEN count' = [count EXCEPT ![s] = @ + 1] /\ UNCHANGED waiting
    ELSE waiting' = [waiting EXCEPT ![s] = Tail(@)] /\ UNCHANGED count

Next ==
    \E s \in Semaphores :
        \/ \E v \in Values : Create(s, v)
        \/ \E t \in Threads : P(t, s)
        \/ V(s)

Spec == Init /\ [][Next]_<<count, waiting>>
=============================================================================
