------------------------------ MODULE ReadyList ------------------------------
(***************************************************************************)
(* The order of the ready list (scheduler_add_to_ready_list) as operators  *)
(* on sequences of threads; prio gives the priority of each thread.        *)
(* Throughout the project a definition whose name ends in _bug is a        *)
(* mistake the code could contain, which the checks must notice.           *)
(***************************************************************************)
EXTENDS Integers, Sequences, Functions

\* Faulty: a HIGH thread goes before the others.
HighRun_bug(q, prio) == 0

\* How many HIGH threads lead the list q.
HighRun(q, prio) ==
    CHOOSE k \in 0..Len(q) :
        /\ \A i \in 1..k : prio[q[i]] = "HIGH"
        /\ k < Len(q) => prio[q[k + 1]] # "HIGH"

InsertAfter(q, k, t) == Append(SubSeq(q, 1, k), t) \o SubSeq(q, k + 1, Len(q))

\* A HIGH thread goes behind the leading HIGH threads, a NORMAL one to the
\* tail.  A thread that is already on the list is relinked where it stands:
\* the entries between its old place and the place it would go to are lost.
scheduler_add_to_ready_list(q, t, prio) ==
    LET k == IF prio[t] = "HIGH" THEN HighRun(q, prio) ELSE Len(q) IN
    IF t \in Range(q)
    THEN SubSeq(q, 1, CHOOSE i \in 1..Len(q) : q[i] = t) \o SubSeq(q, k + 1, Len(q))
    ELSE InsertAfter(q, k, t)
=============================================================================
