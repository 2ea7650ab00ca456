----------------------------- MODULE ThreadLists -----------------------------
(***************************************************************************)
(* The ready list and the sleep queues as the sequences Scheduler uses:    *)
(* what the linked lists of ThreadLinks have to implement.                 *)
(***************************************************************************)
EXTENDS ReadyList

CONSTANTS Threads, Resources

VARIABLES prio, ready, sleepq

Asleep(t) == \E r \in Resources : t \in Range(sleepq[r])

Init ==
    /\ prio \in [Threads -> {"HIGH", "NORMAL"}]
    /\ ready = <<>>
    /\ sleepq = [r \in Resources |-> <<>>]

\* Scheduling or starting t; relinking a thread that is on the list included.
AddReady(t) ==
    /\ ~Asleep(t)
    /\ ready' = scheduler_add_to_ready_list(ready, t, prio)
    /\ UNCHANGED sleepq

RemoveFirst ==
    /\ ready # <<>>
    /\ ready' = Tail(ready)
    /\ UNCHANGED sleepq

Sleep(t, r) ==
    /\ ~Asleep(t) /\ t \notin Range(ready)
    /\ sleepq' = [sleepq EXCEPT ![r] = Append(@, t)]
    /\ UNCHANGED ready

\* The thread is queued if it had gone to sleep, else only taken off.
Wake(r) ==
    /\ sleepq[r] # <<>>
    /\ sleepq' = [sleepq EXCEPT ![r] = Tail(@)]
    /\ \/ ready' = scheduler_add_to_ready_list(ready, Head(sleepq[r]), prio)
       \/ UNCHANGED ready

Next ==
    /\ \/ \E t \in Threads : AddReady(t)
       \/ RemoveFirst
       \/ \E t \in Threads, r \in Resources : Sleep(t, r)
       \/ \E r \in Resources : Wake(r)
    /\ UNCHANGED prio

Spec == Init /\ [][Next]_<<prio, ready, sleepq>>
=============================================================================
