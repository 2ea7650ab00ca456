------------------------------ MODULE LockCond -------------------------------
(***************************************************************************)
(* Locks and condition variables (kernel/lock_cond.c).  They block on the  *)
(* sleep queue, whose contract is SleepQueue.  A section that holds the    *)
(* spinlock of a lock or condition is one step: condition_wait holds both, *)
(* and what it does to the sleep queue of the condition is seen only by    *)
(* holders of the condition's spinlock.                                    *)
(***************************************************************************)
EXTENDS Integers, Sequences, Functions

CONSTANTS
    Threads,
    NO_THREAD,         \* LOCK_NO_THREAD
    RESERVED,          \* LOCK_RESERVED_THREAD
    LockCount,         \* CONFIG_MAX_LOCKS
    CondCount,         \* CONFIG_MAX_CONDITION_VARIABLES
    MaxNesting         \* bound: how often a thread takes a lock it has

\* Addresses of the spinlocks: those of the locks, then those of the conditions.
Locks == 1..LockCount
Conds == (LockCount + 1)..(LockCount + CondCount)
Nowhere == 0

ASSUME LockCondAssumption ==
    /\ NO_THREAD \notin Threads /\ RESERVED \notin Threads
    /\ NO_THREAD # RESERVED
    /\ LockCount \in Nat /\ CondCount \in Nat

VARIABLES
    is_used,               \* of locks and conditions
    locked_id,             \* lock_t.locked_id
    nested_locking_count,  \* lock_t.nested_locking_count
    waiting_thread_count,  \* of locks and conditions
    queue,                 \* the sleep queue
    blocked,               \* threads inside sleepq_add ... thread_switch
    pc,                    \* where a thread is in lock_cond.c
    lock,                  \* the lock it waits for, or will have to take again
    held                   \* how often each thread has returned with a lock

vars == <<is_used, locked_id, nested_locking_count, waiting_thread_count,
          queue, blocked, pc, lock, held>>
lockvars == <<locked_id, nested_locking_count, waiting_thread_count>>

SQ == INSTANCE SleepQueue WITH Resources <- Locks \cup Conds

ProgramPoints == {"out", "lock_wait", "cond_wait", "cond_relock"}

Goto(t, p, l) == pc' = [pc EXCEPT ![t] = p] /\ lock' = [lock EXCEPT ![t] = l]
-----------------------------------------------------------------------------
\* lock_create and condition_create take the first entry not in use and do
\* not touch its other fields; a full table stops the kernel (not modelled).
Create(t, Table) ==
    /\ pc[t] = "out"
    /\ \E x \in Table :
        /\ ~is_used[x]
        /\ \A y \in Table : y < x => is_used[y]
        /\ is_used' = [is_used EXCEPT ![x] = TRUE]
    /\ UNCHANGED <<lockvars, queue, blocked, pc, lock, held>>

lock_create(t) == Create(t, Locks)
condition_create(t) == Create(t, Conds)

\* A lock is destroyed by its last user: nobody has it or waits for it.
lock_destroy(t, l) ==
    /\ pc[t] = "out" /\ is_used[l]
    /\ \A u \in Threads : held[u][l] = 0 /\ lock[u] # l
    /\ is_used' = [is_used EXCEPT ![l] = FALSE]
    /\ UNCHANGED <<lockvars, queue, blocked, pc, lock, held>>

condition_destroy(t, c) ==
    /\ pc[t] = "out" /\ is_used[c]
    /\ queue[c] = <<>>
    /\ is_used' = [is_used EXCEPT ![c] = FALSE]
    /\ UNCHANGED <<lockvars, queue, blocked, pc, lock, held>>
-----------------------------------------------------------------------------
Enter(t, l) == held' = [held EXCEPT ![t][l] = @ + 1]
Leave(t, l) == held' = [held EXCEPT ![t][l] = @ - 1]

\* The three cases of lock_acquire up to thread_switch.
Lock(t, l) ==
    \/ /\ locked_id[l] = NO_THREAD
       /\ locked_id' = [locked_id EXCEPT ![l] = t]
       /\ nested_locking_count' = [nested_locking_count EXCEPT ![l] = 1]
       /\ Enter(t, l) /\ Goto(t, "out", Nowhere)
       /\ UNCHANGED <<waiting_thread_count, queue, blocked>>
    \/ /\ locked_id[l] = t
       /\ nested_locking_count' = [nested_locking_count EXCEPT ![l] = @ + 1]
       /\ Enter(t, l) /\ Goto(t, "out", Nowhere)
       /\ UNCHANGED <<locked_id, waiting_thread_count, queue, blocked>>
    \/ /\ locked_id[l] \notin {NO_THREAD, t}
       /\ waiting_thread_count' = [waiting_thread_count EXCEPT ![l] = @ + 1]
       /\ SQ!Sleep(t, l)
       /\ Goto(t, "lock_wait", l)
       /\ UNCHANGED <<locked_id, nested_locking_count, held>>

\* Bound: MaxNesting.
lock_acquire(t, l) ==
    /\ pc[t] = "out" /\ is_used[l] /\ held[t][l] < MaxNesting
    /\ Lock(t, l)
    /\ UNCHANGED is_used

\* Faulty: the thread that was woken does not leave the count.
lock_acquire_woken_bug(t) ==
    LET l == lock[t] IN
    /\ pc[t] = "lock_wait"
    /\ SQ!Return(t)
    /\ locked_id' = [locked_id EXCEPT ![l] = t]
    /\ nested_locking_count' = [nested_locking_count EXCEPT ![l] = 1]
    /\ Enter(t, l) /\ Goto(t, "out", Nowhere)
    /\ UNCHANGED <<is_used, waiting_thread_count>>

\* thread_switch has returned: the lock was reserved for t.
lock_acquire_woken(t) ==
    LET l == lock[t] IN
    /\ pc[t] = "lock_wait"
    /\ SQ!Return(t)
    /\ waiting_thread_count' = [waiting_thread_count EXCEPT ![l] = @ - 1]
    /\ locked_id' = [locked_id EXCEPT ![l] = t]
    /\ nested_locking_count' = [nested_locking_count EXCEPT ![l] = 1]
    /\ Enter(t, l) /\ Goto(t, "out", Nowhere)
    /\ UNCHANGED is_used
-----------------------------------------------------------------------------
\* Faulty: the lock is opened although a waiter was woken; the last waiter is
\* woken; the lock is reserved and nobody woken.
Release_bug(l, q) ==
    IF nested_locking_count[l] > 1
    THEN /\ nested_locking_count' = [nested_locking_count EXCEPT ![l] = @ - 1]
         /\ queue' = q
         /\ UNCHANGED locked_id
    ELSE /\ nested_locking_count' = [nested_locking_count EXCEPT ![l] = 0]
         /\ queue' = IF waiting_thread_count[l] > 0 /\ q[l] # <<>>
                     THEN [q EXCEPT ![l] = Tail(@)] ELSE q
         /\ locked_id' = [locked_id EXCEPT ![l] = NO_THREAD]

Release_lifo_bug(l, q) ==
    IF nested_locking_count[l] > 1
    THEN /\ nested_locking_count' = [nested_locking_count EXCEPT ![l] = @ - 1]
         /\ queue' = q
         /\ UNCHANGED locked_id
    ELSE /\ nested_locking_count' = [nested_locking_count EXCEPT ![l] = 0]
         /\ queue' = IF q[l] = <<>> THEN q ELSE [q EXCEPT ![l] = SubSeq(@, 1, Len(@) - 1)]
         /\ locked_id' = [locked_id EXCEPT ![l] =
                             IF waiting_thread_count[l] > 0 THEN RESERVED ELSE NO_THREAD]

Release_asleep_bug(l, q) ==
    /\ nested_locking_count' = [nested_locking_count EXCEPT ![l] = @ - 1]
    /\ queue' = q
    /\ locked_id' = IF nested_locking_count[l] > 1 THEN locked_id
                    ELSE [locked_id EXCEPT ![l] =
                            IF waiting_thread_count[l] > 0 THEN RESERVED ELSE NO_THREAD]

\* lock_release of the owner; q is the sleep queue at that moment.  The first
\* waiter is woken and the lock is kept for it.
Release(l, q) ==
    IF nested_locking_count[l] > 1
    THEN /\ nested_locking_count' = [nested_locking_count EXCEPT ![l] = @ - 1]
         /\ queue' = q
         /\ UNCHANGED locked_id
    ELSE /\ nested_locking_count' = [nested_locking_count EXCEPT ![l] = 0]
         /\ IF waiting_thread_count[l] > 0
            THEN /\ queue' = IF q[l] = <<>> THEN q ELSE [q EXCEPT ![l] = Tail(@)]
                 /\ locked_id' = [locked_id EXCEPT ![l] = RESERVED]
            ELSE /\ queue' = q
                 /\ locked_id' = [locked_id EXCEPT ![l] = NO_THREAD]

\* Callers release what they hold; LocksOwned says the assertion then holds.
lock_release(t, l) ==
    /\ pc[t] = "out" /\ held[t][l] > 0
    /\ Release(l, queue)
    /\ Leave(t, l)
    /\ UNCHANGED <<is_used, waiting_thread_count, blocked, pc, lock>>
-----------------------------------------------------------------------------
\* Up to thread_switch.  With the lock taken twice the caller sleeps with it.
condition_wait(t, c, l) ==
    /\ pc[t] = "out" /\ is_used[c] /\ held[t][l] > 0
    /\ waiting_thread_count' = [waiting_thread_count EXCEPT ![c] = @ + 1]
    /\ t \notin blocked /\ blocked' = blocked \cup {t}
    /\ Release(l, [queue EXCEPT ![c] = Append(@, t)])
    /\ Leave(t, l)
    /\ Goto(t, "cond_wait", l)
    /\ UNCHANGED is_used

condition_wait_woken(t) ==
    /\ pc[t] = "cond_wait"
    /\ SQ!Return(t)
    /\ Goto(t, "cond_relock", lock[t])
    /\ UNCHANGED <<is_used, lockvars, held>>

condition_wait_relock(t) ==
    /\ pc[t] = "cond_relock"
    /\ Lock(t, lock[t])
    /\ UNCHANGED is_used

\* The lock is not looked at: the caller need not have it.
condition_signal(t, c) ==
    /\ pc[t] = "out" /\ is_used[c]
    /\ waiting_thread_count[c] > 0
    /\ waiting_thread_count' = [waiting_thread_count EXCEPT ![c] = @ - 1]
    /\ IF queue[c] = <<>> THEN UNCHANGED <<queue, blocked>> ELSE SQ!Wake(c)
    /\ UNCHANGED <<is_used, locked_id, nested_locking_count, pc, lock, held>>

condition_broadcast(t, c) ==
    /\ pc[t] = "out" /\ is_used[c]
    /\ waiting_thread_count[c] > 0
    /\ waiting_thread_count' = [waiting_thread_count EXCEPT ![c] = 0]
    /\ queue' = [queue EXCEPT ![c] = <<>>]
    /\ UNCHANGED <<is_used, locked_id, nested_locking_count, blocked, pc, lock,
                   held>>
-----------------------------------------------------------------------------
\* lock_table_init and cond_table_init.
Init ==
    /\ is_used = [x \in Locks \cup Conds |-> FALSE]
    /\ locked_id = [l \in Locks |-> NO_THREAD]
    /\ nested_locking_count = [l \in Locks |-> 0]
    /\ waiting_thread_count = [x \in Locks \cup Conds |-> 0]
    /\ SQ!Init
    /\ pc = [t \in Threads |-> "out"]
    /\ lock = [t \in Threads |-> Nowhere]
    /\ held = [t \in Threads |-> [l \in Locks |-> 0]]

Woken(t) == lock_acquire_woken(t) \/ condition_wait_woken(t) \/ condition_wait_relock(t)

Next ==
    \E t \in Threads :
        \/ lock_create(t) \/ condition_create(t)
        \/ Woken(t)
        \/ \E l \in Locks :
            \/ lock_destroy(t, l) \/ lock_acquire(t, l) \/ lock_release(t, l)
            \/ \E c \in Conds : condition_wait(t, c, l)
        \/ \E c \in Conds :
            \/ condition_destroy(t, c)
            \/ condition_signal(t, c) \/ condition_broadcast(t, c)

Spec == Init /\ [][Next]_vars

\* The scheduler lets woken threads go on.
FairSpec == Spec /\ \A t \in Threads : WF_vars(Woken(t))
-----------------------------------------------------------------------------
TypeOK ==
    /\ is_used \in [Locks \cup Conds -> BOOLEAN]
    /\ locked_id \in [Locks -> Threads \cup {NO_THREAD, RESERVED}]
    /\ nested_locking_count \in [Locks -> Nat]
    /\ waiting_thread_count \in [Locks \cup Conds -> Nat]
    /\ queue \in [Locks \cup Conds -> Seq(Threads)]
    /\ blocked \in SUBSET Threads
    /\ pc \in [Threads -> ProgramPoints]
    /\ lock \in [Threads -> Locks \cup {Nowhere}]
    /\ held \in [Threads -> [Locks -> Nat]]

\* At most one thread is inside a lock.
MutualExclusion ==
    \A l \in Locks, t, u \in Threads :
        held[t][l] > 0 /\ held[u][l] > 0 => t = u

\* The lock knows its owner and how deep it is in: whoever has come out of
\* lock_acquire once more than it called lock_release is the owner, so that
\* the assertion of lock_release never stops the kernel.
LocksOwned ==
    \A l \in Locks, t \in Threads :
        held[t][l] > 0 => locked_id[l] = t /\ nested_locking_count[l] = held[t][l]

\* Threads that wait in lock_acquire and were already woken.
Granted(l) == {t \in Threads : /\ pc[t] = "lock_wait" /\ lock[t] = l
                               /\ t \notin Range(queue[l])}

\* A reserved lock has one thread on its way.
OnTheWay(l) == IF locked_id[l] = RESERVED THEN 1 ELSE 0

\* The count of waiters says how many threads sleep on the lock, plus the one
\* a reserved lock was handed to; an open lock has none.  So lock_release
\* never reserves a lock for nobody and never leaves a waiter behind.
WaitersCounted ==
    \A l \in Locks :
        /\ waiting_thread_count[l] = Len(queue[l]) + OnTheWay(l)
        /\ locked_id[l] = RESERVED <=> Granted(l) # {}
        /\ \A t, u \in Granted(l) : t = u
        /\ locked_id[l] = NO_THREAD => queue[l] = <<>>

\* The count of a condition is the number of threads that sleep on it.
CondWaitersCounted ==
    \A c \in Conds : waiting_thread_count[c] = Len(queue[c])

\* lock_create does not initialise: an entry that is not in use is as after
\* lock_table_init, so that a recycled lock is open and has no waiters.
UnusedIsClean ==
    \A l \in Locks : ~is_used[l] =>
        /\ locked_id[l] = NO_THREAD
        /\ nested_locking_count[l] = 0 /\ waiting_thread_count[l] = 0

\* What lock_release and condition_signal read before they decide whether there is
\* anybody to wake agrees with the sleep queue, in locks that are recycled, too.
\* (And every variable has its type.)
CountsExact == TypeOK /\ WaitersCounted /\ CondWaitersCounted /\ UnusedIsClean

Owner(l) == IF locked_id[l] = RESERVED THEN CHOOSE t \in Granted(l) : TRUE
                                       ELSE locked_id[l]

Abstract == INSTANCE Monitor WITH
    NoThread <- NO_THREAD,
    owner <- [l \in Locks |-> Owner(l)],
    depth <- [l \in Locks |-> IF locked_id[l] = RESERVED THEN 1
                              ELSE nested_locking_count[l]],
    waiting <- [l \in Locks |-> queue[l]],
    sleeping <- [c \in Conds |-> queue[c]]

\* Locks are handed over in the order they were asked for, nobody overtakes a
\* woken waiter, and a waiting thread gives up the lock and joins the
\* condition in one step, so that no signal falls in between.
ImplementsMonitor == Abstract!Spec

\* Every user of the lock comes out of it again and again.
UsersLeave(l) == \A u \in Threads : []<>(held[u][l] = 0)

\* A thread that waits in lock_acquire gets the lock if its users leave it,
\* however many others ask for it and whatever happens to other locks; so does a
\* thread that was signalled and has to come back from condition_wait with it.
LockReturns ==
    \A t \in Threads, l \in Locks :
        UsersLeave(l) => []<>~(/\ pc[t] # "out" /\ lock[t] = l
                               /\ \A c \in Conds : t \notin Range(queue[c]))
=============================================================================
