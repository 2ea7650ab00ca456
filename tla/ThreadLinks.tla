----------------------------- MODULE ThreadLinks -----------------------------
(***************************************************************************)
(* The linked lists of kernel/scheduler.c and kernel/sleepq.c, link by     *)
(* link.  One field, thread_table[t].next, links both the ready list and   *)
(* the chains of the sleep queue's hash table, and a chain mixes the       *)
(* waiters of all resources that hash to it.  sleepq_wake_all keeps its    *)
(* place in a chain while other CPUs work on the ready list.               *)
(***************************************************************************)
EXTENDS Integers, Sequences, Functions

CONSTANTS
    Threads,               \* thread ids, positive integers
    Resources,             \* resource addresses, positive integers
    SLEEPQ_HASHTABLE_SIZE

VARIABLES
    prio,                  \* thread_table[t].priority
    next,                  \* thread_table[t].next
    sleeps_on,             \* thread_table[t].sleeps_on
    head, tail,            \* scheduler_ready_to_run
    sleepq_hashtable,
    waking                 \* locals of sleepq_wake_all, while it runs

vars == <<prio, next, sleeps_on, head, tail, sleepq_hashtable, waking>>

Hash(r) == r % SLEEPQ_HASHTABLE_SIZE
NotWaking == [resource |-> 0, prev |-> -1, first |-> -1]
-----------------------------------------------------------------------------
\* The last of the HIGH threads that follow curr without a gap.
RECURSIVE LastHigh(_)
LastHigh(curr) ==
    IF next[curr] # -1 /\ prio[next[curr]] = "HIGH"
    THEN LastHigh(next[curr])
    ELSE curr

\* nx is the link column after t was unlinked from where it was.
scheduler_add_to_ready_list(t, nx) ==
    IF tail < 0
    THEN head' = t /\ tail' = t /\ next' = [nx EXCEPT ![t] = -1]
    ELSE IF prio[t] = "HIGH" /\ prio[head] = "HIGH"
    THEN LET curr == LastHigh(head) IN
         /\ next' = [nx EXCEPT ![curr] = t, ![t] = next[curr]]
         /\ tail' = IF next[curr] = -1 THEN t ELSE tail
         /\ head' = head
    ELSE IF prio[t] = "HIGH"
    THEN next' = [nx EXCEPT ![t] = head] /\ head' = t /\ tail' = tail
    ELSE next' = [nx EXCEPT ![tail] = t, ![t] = -1] /\ tail' = t /\ head' = head

\* scheduler_schedule and scheduler_add_ready: t runs or is new, so it is not
\* in a sleep queue.
add_ready(t) ==
    /\ sleeps_on[t] = 0
    /\ scheduler_add_to_ready_list(t, next)
    /\ UNCHANGED <<prio, sleeps_on, sleepq_hashtable, waking>>

scheduler_remove_first_ready ==
    /\ head >= 0
    /\ tail' = IF tail = head THEN -1 ELSE tail
    /\ head' = next[head]
    /\ UNCHANGED <<prio, next, sleeps_on, sleepq_hashtable, waking>>
-----------------------------------------------------------------------------
\* The threads linked from t on.
RECURSIVE Chain(_)
Chain(t) == IF t <= 0 THEN <<>> ELSE <<t>> \o Chain(next[t])

sleepq_add(t, r) ==
    LET chain == Chain(sleepq_hashtable[Hash(r)]) IN
    /\ waking = NotWaking
    /\ sleeps_on[t] = 0 /\ t \notin Range(Chain(head))
    /\ sleeps_on' = [sleeps_on EXCEPT ![t] = r]
    /\ IF chain = <<>>
       THEN /\ sleepq_hashtable' = [sleepq_hashtable EXCEPT ![Hash(r)] = t]
            /\ next' = [next EXCEPT ![t] = -1]
       ELSE /\ next' = [next EXCEPT ![t] = -1, ![chain[Len(chain)]] = t]
            /\ UNCHANGED sleepq_hashtable
    /\ UNCHANGED <<prio, head, tail, waking>>

\* Walk from <<prev, first>> to the first entry that waits for r.
RECURSIVE Find(_, _, _)
Find(prev, first, r) ==
    IF first > 0 /\ sleeps_on[first] # r
    THEN Find(first, next[first], r)
    ELSE <<prev, first>>

\* Faulty: the entry is unlinked from the table slot whatever precedes it.
Unlink_bug(prev, first, asleep) ==
    LET h == Hash(sleeps_on[first]) IN
    /\ sleepq_hashtable' = [sleepq_hashtable EXCEPT ![h] = next[first]]
    /\ sleeps_on' = [sleeps_on EXCEPT ![first] = 0]
    /\ IF asleep THEN scheduler_add_to_ready_list(first, [next EXCEPT ![first] = -1])
       ELSE next' = [next EXCEPT ![first] = -1] /\ UNCHANGED <<head, tail>>

\* Take first off its chain and, if it sleeps, put it on the ready list.
Unlink(prev, first, asleep) ==
    LET h  == Hash(sleeps_on[first])
        nx == IF prev <= 0 THEN [next EXCEPT ![first] = -1]
              ELSE [next EXCEPT ![prev] = next[first], ![first] = -1]
    IN
    /\ sleepq_hashtable' = IF prev <= 0
                           THEN [sleepq_hashtable EXCEPT ![h] = next[first]]
                           ELSE sleepq_hashtable
    /\ sleeps_on' = [sleeps_on EXCEPT ![first] = 0]
    /\ IF asleep THEN scheduler_add_to_ready_list(first, nx)
       ELSE next' = nx /\ UNCHANGED <<head, tail>>

sleepq_wake(r, asleep) ==
    LET found == Find(-1, sleepq_hashtable[Hash(r)], r) IN
    /\ waking = NotWaking
    /\ found[2] > 0
    /\ Unlink(found[1], found[2], asleep)
    /\ UNCHANGED <<prio, waking>>

sleepq_wake_all_begin(r) ==
    /\ waking = NotWaking
    /\ sleepq_hashtable[Hash(r)] > 0
    /\ waking' = [resource |-> r, prev |-> -1, first |-> sleepq_hashtable[Hash(r)]]
    /\ UNCHANGED <<prio, next, sleeps_on, head, tail, sleepq_hashtable>>

sleepq_wake_all_step(asleep) ==
    LET found == Find(waking.prev, waking.first, waking.resource) IN
    /\ waking # NotWaking
    /\ found[2] > 0
    /\ Unlink(found[1], found[2], asleep)
    /\ waking' = [waking EXCEPT !.prev = found[1], !.first = next[found[2]]]
    /\ UNCHANGED prio

\* Faulty: the walk stops at a waiter of another resource.
sleepq_wake_all_end_bug ==
    /\ waking # NotWaking
    /\ waking.first > 0 => sleeps_on[waking.first] # waking.resource
    /\ waking' = NotWaking
    /\ UNCHANGED <<prio, next, sleeps_on, head, tail, sleepq_hashtable>>

sleepq_wake_all_end ==
    /\ waking # NotWaking
    /\ Find(waking.prev, waking.first, waking.resource)[2] <= 0
    /\ waking' = NotWaking
    /\ UNCHANGED <<prio, next, sleeps_on, head, tail, sleepq_hashtable>>
-----------------------------------------------------------------------------
Init ==
    /\ prio \in [Threads -> {"HIGH", "NORMAL"}]
    /\ next = [t \in Threads |-> -1]
    /\ sleeps_on = [t \in Threads |-> 0]
    /\ head = -1 /\ tail = -1
    /\ sleepq_hashtable = [h \in 0..(SLEEPQ_HASHTABLE_SIZE - 1) |-> -1]
    /\ waking = NotWaking

Next ==
    \/ \E t \in Threads : add_ready(t) \/ \E r \in Resources : sleepq_add(t, r)
    \/ scheduler_remove_first_ready
    \/ \E r \in Resources, asleep \in BOOLEAN : sleepq_wake(r, asleep)
    \/ \E r \in Resources : sleepq_wake_all_begin(r)
    \/ \E asleep \in BOOLEAN : sleepq_wake_all_step(asleep)
    \/ sleepq_wake_all_end

Spec == Init /\ [][Next]_vars
-----------------------------------------------------------------------------
WaitersOf(r) ==
    LET WaitsForR(t) == sleeps_on[t] = r
    IN  SelectSeq(Chain(sleepq_hashtable[Hash(r)]), WaitsForR)

Lists == INSTANCE ThreadLists WITH
    ready <- Chain(head), sleepq <- [r \in Resources |-> WaitersOf(r)]

\* The links implement the sequences: the ready list is kept in priority and
\* arrival order, and waiters that share a chain of the hash table leave it in
\* arrival order per resource, also while sleepq_wake_all is half way.
ImplementsThreadLists == Lists!Spec

\* When sleepq_wake_all returns, nobody is left waiting for its resource.
WakeAllComplete ==
    [][waking # NotWaking /\ waking' = NotWaking
        => WaitersOf(waking.resource) = <<>>]_vars
=============================================================================
