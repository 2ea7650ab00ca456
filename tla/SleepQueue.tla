----------------------------- MODULE SleepQueue -----------------------------
(***************************************************************************)
(* What the sleep queue and the scheduler promise to the code that blocks  *)
(* on a resource: sleepq_add followed by thread_switch returns once the    *)
(* thread was taken off the queue of the resource, and waiters are taken   *)
(* off in the order they came.                                             *)
(***************************************************************************)
EXTENDS Sequences, Functions

CONSTANTS Threads, Resources

VARIABLES
    queue,     \* for each resource the threads waiting for it
    blocked    \* the threads between sleepq_add and the return of thread_switch

Init ==
    /\ queue = [r \in Resources |-> <<>>]
    /\ blocked = {}

Sleep(t, r) ==
    /\ t \notin blocked
    /\ queue' = [queue EXCEPT ![r] = Append(@, t)]
    /\ blocked' = blocked \cup {t}

Wake(r) ==
    /\ queue[r] # <<>>
    /\ queue' = [queue EXCEPT ![r] = Tail(@)]
    /\ UNCHANGED blocked

WakeAll(r) ==
    /\ queue' = [queue EXCEPT ![r] = <<>>]
    /\ UNCHANGED blocked

Return(t) ==
    /\ t \in blocked
    /\ \A r \in Resources : t \notin Range(queue[r])
    /\ blocked' = blocked \ {t}
    /\ UNCHANGED queue

Next ==
    \/ \E t \in Threads, r \in Resources : Sleep(t, r)
    \/ \E r \in Resources : Wake(r) \/ WakeAll(r)
    \/ \E t \in Threads : Return(t)

Spec == Init /\ [][Next]_<<queue, blocked>>
=============================================================================
