------------------------------ MODULE Semaphore ------------------------------
(***************************************************************************)
(* Semaphores (kernel/semaphore.c), used by threads and by interrupt       *)
(* handlers.  Blocking goes through the sleep queue, whose contract is     *)
(* SleepQueue.  The spinlock of a semaphore is a variable, since creating  *)
(* a semaphore resets it whoever holds it.                                 *)
(***************************************************************************)
EXTENDS Integers, Sequences, FiniteSets, Functions

CONSTANTS
    Threads,
    Handlers,     \* interrupt handlers in progress: they call semaphore_V only
    NCPUs,        \* CPUs that run threads and handlers
    SemCount,     \* CONFIG_MAX_SEMAPHORES
    Temporary,    \* semaphores that their users destroy again
    NoThread,     \* creator = -1
    Values,       \* arguments of semaphore_create
    MaxValue      \* bound: V is not called above this value

Semaphores == 0..(SemCount - 1)
Actors == Threads \cup Handlers
NoSem == -1

ASSUME SemaphoreAssumption ==
    /\ NoThread \notin Threads
    /\ NCPUs \in Nat /\ SemCount \in Nat \ {0}
    /\ Values \subseteq Nat
    /\ Temporary \subseteq Semaphores

VARIABLES
    creator,      \* semaphore_table[s].creator
    value,        \* semaphore_table[s].value
    slock,        \* semaphore_table[s].slock: is it taken?
    next,         \* the static of semaphore_create
    queue,        \* the sleep queue
    blocked,      \* threads inside sleepq_add ... thread_switch
    pc,           \* where an actor is in a semaphore function
    sem           \* the semaphore it is working on

vars == <<creator, value, slock, next, queue, blocked, pc, sem>>

SQ == INSTANCE SleepQueue WITH Resources <- Semaphores

\* Points with interrupts disabled: the actor keeps its CPU.
Locked == {"P_locked", "P_unlock", "V_locked", "V_unlock"}
ProgramPoints == Locked \cup {"out", "create_init", "P_switch"}

InCritical(a) == pc[a] \in Locked
CanRun(a) ==
    InCritical(a) \/ Cardinality({b \in Actors : InCritical(b)}) < NCPUs

Goto(a, p, s) ==
    /\ pc' = [pc EXCEPT ![a] = p]
    /\ sem' = [sem EXCEPT ![a] = s]

\* Semaphores that were created and not yet destroyed.
Usable(s) ==
    /\ creator[s] # NoThread
    /\ \A t \in Threads : sem[t] = s => pc[t] # "create_init"
-----------------------------------------------------------------------------
\* The entry the search from `next' on finds.
Found(s) ==
    /\ creator[s] = NoThread
    /\ \A d \in 0..(SemCount - 1) :
        d < (s - next) % SemCount => creator[(next + d) % SemCount] # NoThread

\* Under semaphore_table_slock; when the table is full nothing changes.
semaphore_create(t) ==
    /\ pc[t] = "out" /\ CanRun(t)
    /\ \E s \in Semaphores :
        /\ Found(s)
        /\ creator' = [creator EXCEPT ![s] = t]
        /\ next' = (s + 1) % SemCount
        /\ Goto(t, "create_init", s)
    /\ UNCHANGED <<value, slock, queue, blocked>>

\* The rest of semaphore_create, under no lock.
semaphore_create_init(t, v) ==
    /\ pc[t] = "create_init" /\ CanRun(t)
    /\ value' = [value EXCEPT ![sem[t]] = v]
    /\ slock' = [slock EXCEPT ![sem[t]] = FALSE]
    /\ Goto(t, "out", NoSem)
    /\ UNCHANGED <<creator, next, queue, blocked>>

\* Its users destroy a semaphore when a P has taken what the last V gave and
\* no other call is to come (disk_submit_request, tfs_unmount).  The V that
\* let that P return may still have to release slock.
semaphore_destroy(t, s) ==
    /\ pc[t] = "out" /\ CanRun(t)
    /\ s \in Temporary /\ Usable(s) /\ value[s] = 0
    /\ \A a \in Actors : sem[a] = s => pc[a] = "V_unlock"
    /\ creator' = [creator EXCEPT ![s] = NoThread]
    /\ UNCHANGED <<value, slock, next, queue, blocked, pc, sem>>
-----------------------------------------------------------------------------
Acquire(a, p, s) ==
    /\ pc[a] = "out" /\ CanRun(a)
    /\ Usable(s)
    /\ ~slock[s]
    /\ slock' = [slock EXCEPT ![s] = TRUE]
    /\ Goto(a, p, s)
    /\ UNCHANGED <<creator, value, next, queue, blocked>>

semaphore_P(t, s) == Acquire(t, "P_locked", s)

\* Faulty: a thread that finds the value at 1 sleeps as well.
P_lower_bug(t) ==
    LET s == sem[t] IN
    /\ pc[t] = "P_locked"
    /\ value' = [value EXCEPT ![s] = @ - 1]
    /\ IF value'[s] <= 0 THEN SQ!Sleep(t, s) ELSE UNCHANGED <<queue, blocked>>
    /\ Goto(t, "P_unlock", s)
    /\ UNCHANGED <<creator, slock, next>>

P_lower(t) ==
    LET s == sem[t] IN
    /\ pc[t] = "P_locked"
    /\ value' = [value EXCEPT ![s] = @ - 1]
    /\ IF value'[s] < 0 THEN SQ!Sleep(t, s) ELSE UNCHANGED <<queue, blocked>>
    /\ Goto(t, "P_unlock", s)
    /\ UNCHANGED <<creator, slock, next>>

\* Release slock; a thread that was queued goes on to thread_switch.
P_unlock(t) ==
    /\ pc[t] = "P_unlock"
    /\ slock' = [slock EXCEPT ![sem[t]] = FALSE]
    /\ IF t \in blocked THEN Goto(t, "P_switch", sem[t]) ELSE Goto(t, "out", NoSem)
    /\ UNCHANGED <<creator, value, next, queue, blocked>>

P_return(t) ==
    /\ pc[t] = "P_switch" /\ CanRun(t)
    /\ SQ!Return(t)
    /\ Goto(t, "out", NoSem)
    /\ UNCHANGED <<creator, value, slock, next>>
-----------------------------------------------------------------------------
\* Bound: MaxValue.
semaphore_V(a, s) == value[s] < MaxValue /\ Acquire(a, "V_locked", s)

\* Faulty: the waiter of a semaphore that V brings back to zero stays asleep;
\* the last waiter is woken.
V_raise_bug(a) ==
    LET s == sem[a] IN
    /\ pc[a] = "V_locked"
    /\ value' = [value EXCEPT ![s] = @ + 1]
    /\ IF value'[s] < 0 /\ queue[s] # <<>>
       THEN SQ!Wake(s) ELSE UNCHANGED <<queue, blocked>>
    /\ Goto(a, "V_unlock", s)
    /\ UNCHANGED <<creator, slock, next>>

V_raise_lifo_bug(a) ==
    LET s == sem[a] IN
    /\ pc[a] = "V_locked"
    /\ value' = [value EXCEPT ![s] = @ + 1]
    /\ queue' = IF value'[s] <= 0 /\ queue[s] # <<>>
                THEN [queue EXCEPT ![s] = SubSeq(@, 1, Len(@) - 1)] ELSE queue
    /\ Goto(a, "V_unlock", s)
    /\ UNCHANGED <<creator, slock, next, blocked>>

\* sleepq_wake does nothing when nobody waits.
V_raise(a) ==
    LET s == sem[a] IN
    /\ pc[a] = "V_locked"
    /\ value' = [value EXCEPT ![s] = @ + 1]
    /\ IF value'[s] <= 0 /\ queue[s] # <<>>
       THEN SQ!Wake(s) ELSE UNCHANGED <<queue, blocked>>
    /\ Goto(a, "V_unlock", s)
    /\ UNCHANGED <<creator, slock, next>>

V_unlock(a) ==
    /\ pc[a] = "V_unlock"
    /\ slock' = [slock EXCEPT ![sem[a]] = FALSE]
    /\ Goto(a, "out", NoSem)
    /\ UNCHANGED <<creator, value, next, queue, blocked>>
-----------------------------------------------------------------------------
\* semaphore_init; the values and spinlocks are zero-initialised memory.
Init ==
    /\ creator = [s \in Semaphores |-> NoThread]
    /\ value = [s \in Semaphores |-> 0]
    /\ slock = [s \in Semaphores |-> FALSE]
    /\ next = 0
    /\ SQ!Init
    /\ pc = [a \in Actors |-> "out"]
    /\ sem = [a \in Actors |-> NoSem]

\* What an actor does once it is in a semaphore function.
Continue(a) == P_lower(a) \/ P_unlock(a) \/ P_return(a) \/ V_raise(a) \/ V_unlock(a)

Next ==
    \/ \E t \in Threads :
        \/ semaphore_create(t)
        \/ \E v \in Values : semaphore_create_init(t, v)
        \/ P_lower(t) \/ P_unlock(t) \/ P_return(t)
        \/ \E s \in Semaphores : semaphore_destroy(t, s) \/ semaphore_P(t, s)
    \/ \E a \in Actors :
        \/ \E s \in Semaphores : semaphore_V(a, s)
        \/ V_raise(a) \/ V_unlock(a)

Spec == Init /\ [][Next]_vars

\* An actor that is in a semaphore function goes on: the scheduler comes round
\* to a woken thread even if others keep taking the CPU in between.
FairSpec == Spec /\ \A a \in Actors : SF_vars(Continue(a))
-----------------------------------------------------------------------------
TypeOK ==
    /\ creator \in [Semaphores -> Threads \cup {NoThread}]
    /\ value \in [Semaphores -> Int]
    /\ slock \in [Semaphores -> BOOLEAN]
    /\ next \in Semaphores
    /\ queue \in [Semaphores -> Seq(Threads)]
    /\ blocked \in SUBSET Threads
    /\ pc \in [Actors -> ProgramPoints]
    /\ sem \in [Actors -> Semaphores \cup {NoSem}]

\* A negative value is the number of sleeping waiters, so that a V that
\* leaves the value at zero or below has somebody to wake.  And
\* semaphore_create never hands out an entry that is in use: no two threads
\* initialise the same one, and nobody works on an entry while it is
\* initialised, except a V that has still to return.  (And every variable has
\* its type.)
WaitersCounted ==
    /\ TypeOK
    /\ \A s \in Semaphores : Len(queue[s]) = IF value[s] < 0 THEN -value[s] ELSE 0
    /\ \A t \in Threads, a \in Actors :
        pc[t] = "create_init" /\ sem[a] = sem[t] => a = t \/ pc[a] = "V_unlock"

Abstract == INSTANCE CountingSemaphore WITH
    count <- [s \in Semaphores |-> IF value[s] < 0 THEN 0 ELSE value[s]],
    waiting <- queue

\* P and V behave as a counting semaphore that serves its waiters in order.
ImplementsCountingSemaphore == Abstract!Spec

\* A thread in semaphore_P returns if its semaphore is raised for ever.
EveryPReturns ==
    \A t \in Threads, s \in Semaphores :
        []<><<\E a \in Actors : sem[a] = s /\ V_raise(a)>>_vars
            => []<>~(pc[t] = "P_switch" /\ sem[t] = s)
=============================================================================
