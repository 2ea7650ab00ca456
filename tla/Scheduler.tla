------------------------------ MODULE Scheduler ------------------------------
(***************************************************************************)
(* The thread table (kernel/thread.c), the scheduler (kernel/scheduler.c)  *)
(* and the sleep queue (kernel/sleepq.c), on any number of CPUs.           *)
(*                                                                         *)
(* A critical section that holds thread_table_slock or sleepq_slock with   *)
(* interrupts disabled is one step, except for the two loops that hold a   *)
(* spinlock while they move threads one by one (the expiry loop of the     *)
(* idle thread and sleepq_wake_all): for those the spinlock is a variable. *)
(* The `next' links of the thread table are sequences here; ThreadLinks    *)
(* shows that the linked lists implement them.                             *)
(***************************************************************************)
EXTENDS Integers, Sequences, FiniteSets, Functions, ReadyList

CONSTANTS
    Threads,      \* the rows of thread_table, IDLE_THREAD_TID excepted
    IDLE,         \* IDLE_THREAD_TID
    CPUs,
    NoCPU,
    Resources,    \* addresses threads sleep on
    NoResource,   \* sleeps_on = 0
    Priorities,   \* priorities given to thread_create_with_priority
    SleepTimes,   \* arguments of thread_sleep, in milliseconds
    TimeModulus,  \* rtc_get_msec and wakeup_time are uint32_t: 2^32
    BootRtc,      \* clock when the threading system starts
    MaxRtc        \* bound: the clock stops here

ASSUME SchedulerAssumption ==
    /\ IDLE \notin Threads /\ NoCPU \notin CPUs /\ NoResource \notin Resources
    /\ Priorities \subseteq {"HIGH", "NORMAL"}
    /\ TimeModulus \in Nat \ {0} /\ BootRtc \in Nat /\ SleepTimes \subseteq Nat

VARIABLES
    state,        \* thread_table[t].state
    sleeps_on,    \* thread_table[t].sleeps_on
    wakeup_time,  \* thread_table[t].wakeup_time, 0 when not a timed sleeper
    priority,     \* thread_table[t].priority
    ready,        \* scheduler_ready_to_run, from head to tail
    sleepq,       \* for each resource its waiters, in chain order
    sleepers,     \* the list that starts at thread_next_sleeper_id
    current,      \* scheduler_current_thread
    thread_table_slock,  \* the CPU in the expiry loop and the time it read
    sleepq_slock,        \* the CPU in sleepq_wake_all and its resource
    pc,           \* where the thread is in sleepq_add/thread_sleep/thread_finish
    asked,        \* of thread_sleep: the time it read, and its argument
    rtc           \* milliseconds since boot

tables == <<state, sleeps_on, wakeup_time, priority>>
lists  == <<ready, sleepq, sleepers>>
slocks == <<thread_table_slock, sleepq_slock>>
vars   == <<tables, lists, current, slocks, pc, asked, rtc>>

States == {"FREE", "NONREADY", "READY", "RUNNING", "SLEEPING", "DYING"}

\* "kernel": running ordinary code, interrupts enabled.  "SleepqAdded" and
\* "SleeperAdded": queued, about to call thread_switch.  "SleepqSwitched" and
\* "SleeperSwitched": inside thread_switch, past the software interrupt.
\* "TimeRead": in thread_sleep, before the spinlock.  "Finished": DYING.
ProgramPoints == {"kernel", "SleepqAdded", "SleepqSwitched", "TimeRead",
                  "SleeperAdded", "SleeperSwitched", "Finished"}

Unlocked == [cpu |-> NoCPU]
rtc_get_msec == rtc % TimeModulus

NoSleep == [from |-> 0, ms |-> 0]
\* When the sleep of t is over, before the sum is truncated.
Due(t) == asked[t].from + asked[t].ms

\* CPU c holds neither spinlock: it is not in the middle of a loop.
Idling(c) == thread_table_slock.cpu # c /\ sleepq_slock.cpu # c
TableFree == thread_table_slock = Unlocked
SleepqFree == sleepq_slock = Unlocked

\* CPU c runs a thread that is in ordinary kernel code.
InKernel(c) == Idling(c) /\ current[c] # IDLE /\ pc[current[c]] = "kernel"
-----------------------------------------------------------------------------
(* The ready list: ReadyList says where a thread goes.                     *)

\* Take the first thread of q, or IDLE when q is empty, and run it on c; st
\* is the state column at that moment.
scheduler_remove_first_ready(c, q, st) ==
    IF q = <<>>
    THEN /\ ready' = <<>>
         /\ state' = st
         /\ current' = [current EXCEPT ![c] = IDLE]
    ELSE /\ ready' = Tail(q)
         /\ state' = [st EXCEPT ![Head(q)] = "RUNNING"]
         /\ current' = [current EXCEPT ![c] = Head(q)]

\* scheduler_add_ready and the wake-ups: t becomes READY and is queued.
MakeReady(t) ==
    /\ ready' = scheduler_add_to_ready_list(ready, t, priority)
    /\ state' = [state EXCEPT ![t] = "READY"]
-----------------------------------------------------------------------------
(* Creating, starting and finishing threads.                               *)

ThreadCreate(c, p) ==
    /\ InKernel(c) /\ TableFree
    /\ \E t \in Threads :
        /\ state[t] = "FREE"
        /\ state' = [state EXCEPT ![t] = "NONREADY"]
        /\ sleeps_on' = [sleeps_on EXCEPT ![t] = NoResource]
        /\ priority' = [priority EXCEPT ![t] = p]
    /\ UNCHANGED <<wakeup_time, lists, current, slocks, pc, asked, rtc>>

thread_create(c) == ThreadCreate(c, "NORMAL")

thread_create_with_priority(c) == \E p \in Priorities : ThreadCreate(c, p)

thread_run(c) ==
    /\ InKernel(c) /\ TableFree
    /\ \E t \in Threads : state[t] = "NONREADY" /\ MakeReady(t)
    /\ UNCHANGED <<sleeps_on, wakeup_time, priority, sleepq, sleepers, current,
                   slocks, pc, asked, rtc>>

thread_finish(c) ==
    /\ InKernel(c) /\ TableFree
    /\ state' = [state EXCEPT ![current[c]] = "DYING"]
    /\ pc' = [pc EXCEPT ![current[c]] = "Finished"]
    /\ UNCHANGED <<sleeps_on, wakeup_time, priority, lists, current, slocks,
                   asked, rtc>>
-----------------------------------------------------------------------------
(* Sleeping on a resource.                                                 *)

sleepq_add(c, r) ==
    /\ InKernel(c) /\ SleepqFree
    /\ sleeps_on' = [sleeps_on EXCEPT ![current[c]] = r]
    /\ sleepq' = [sleepq EXCEPT ![r] = Append(@, current[c])]
    /\ pc' = [pc EXCEPT ![current[c]] = "SleepqAdded"]
    /\ UNCHANGED <<state, wakeup_time, priority, ready, sleepers, current,
                   slocks, asked, rtc>>

\* Faulty: the thread is never queued; the last waiter is taken.
WakeFirst_forgotten_bug(r) ==
    /\ sleepq' = [sleepq EXCEPT ![r] = Tail(@)]
    /\ sleeps_on' = [sleeps_on EXCEPT ![Head(sleepq[r])] = NoResource]
    /\ UNCHANGED <<ready, state>>

WakeFirst_lifo_bug(r) ==
    LET n == Len(sleepq[r])
        t == sleepq[r][n]
    IN
    /\ sleepq' = [sleepq EXCEPT ![r] = SubSeq(@, 1, n - 1)]
    /\ sleeps_on' = [sleeps_on EXCEPT ![t] = NoResource]
    /\ IF state[t] = "SLEEPING" THEN MakeReady(t) ELSE UNCHANGED <<ready, state>>

\* Unlink the first waiter of r.  It is queued only if it already went to
\* sleep; otherwise its own CPU will find sleeps_on cleared and requeue it.
WakeFirst(r) ==
    LET t == Head(sleepq[r]) IN
    /\ sleepq' = [sleepq EXCEPT ![r] = Tail(@)]
    /\ sleeps_on' = [sleeps_on EXCEPT ![t] = NoResource]
    /\ IF state[t] = "SLEEPING" THEN MakeReady(t) ELSE UNCHANGED <<ready, state>>

\* By a thread or an interrupt handler on c; nothing to do when r has no waiter.
sleepq_wake(c, r) ==
    /\ Idling(c) /\ SleepqFree /\ TableFree
    /\ sleepq[r] # <<>>
    /\ WakeFirst(r)
    /\ UNCHANGED <<wakeup_time, priority, sleepers, current, slocks, pc, asked, rtc>>

\* sleepq_slock is held throughout, thread_table_slock for one thread at a time.
sleepq_wake_all_begin(c, r) ==
    /\ Idling(c) /\ SleepqFree
    /\ sleepq[r] # <<>>
    /\ sleepq_slock' = [cpu |-> c, resource |-> r]
    /\ UNCHANGED <<tables, lists, current, thread_table_slock, pc, asked, rtc>>

sleepq_wake_all_step(c) ==
    /\ sleepq_slock.cpu = c /\ TableFree
    /\ sleepq[sleepq_slock.resource] # <<>>
    /\ WakeFirst(sleepq_slock.resource)
    /\ UNCHANGED <<wakeup_time, priority, sleepers, current, slocks, pc, asked, rtc>>

sleepq_wake_all_end(c) ==
    /\ sleepq_slock.cpu = c
    /\ sleepq[sleepq_slock.resource] = <<>>
    /\ sleepq_slock' = Unlocked
    /\ UNCHANGED <<tables, lists, current, thread_table_slock, pc, asked, rtc>>
-----------------------------------------------------------------------------
(* Sleeping for a time.                                                    *)

\* The clock is read before interrupts are disabled and the spinlock taken.
\* Bound: only sleeps that the bounded clock can end.
thread_sleep(c, ms) ==
    /\ InKernel(c)
    /\ (rtc + ms) % TimeModulus < MaxRtc % TimeModulus
    /\ asked' = [asked EXCEPT ![current[c]] = [from |-> rtc, ms |-> ms]]
    /\ pc' = [pc EXCEPT ![current[c]] = "TimeRead"]
    /\ UNCHANGED <<tables, lists, current, slocks, rtc>>

\* Faulty: always the top of the list.
SleeperPlace_bug(w) == 0

\* Where a thread with wake-up time w goes: before the first later sleeper.
SleeperPlace(w) ==
    CHOOSE k \in 0..Len(sleepers) :
        /\ \A i \in 1..k : wakeup_time[sleepers[i]] <= w
        /\ k < Len(sleepers) => w < wakeup_time[sleepers[k + 1]]

thread_sleep_insert(c) ==
    LET t == current[c]
        w == Due(t) % TimeModulus
        k == SleeperPlace(w)
    IN
    /\ Idling(c) /\ t # IDLE /\ pc[t] = "TimeRead" /\ TableFree
    /\ wakeup_time' = [wakeup_time EXCEPT ![t] = w]
    /\ sleepers' = InsertAfter(sleepers, k, t)
    /\ pc' = [pc EXCEPT ![t] = "SleeperAdded"]
    /\ UNCHANGED <<state, sleeps_on, priority, ready, sleepq, current, slocks,
                   asked, rtc>>

\* thread_switch returns to its caller.
thread_switch_return(c) ==
    LET t == current[c] IN
    /\ Idling(c) /\ t # IDLE /\ pc[t] \in {"SleepqSwitched", "SleeperSwitched"}
    /\ pc' = [pc EXCEPT ![t] = "kernel"]
    /\ asked' = [asked EXCEPT ![t] = NoSleep]
    /\ UNCHANGED <<tables, lists, current, slocks, rtc>>

Tick ==
    /\ rtc < MaxRtc
    /\ rtc' = rtc + 1
    /\ UNCHANGED <<tables, lists, current, slocks, pc, asked>>
-----------------------------------------------------------------------------
(* scheduler_schedule, called by interrupt_handle.                         *)

\* Past the software interrupt of thread_switch; a timer interrupt that
\* arrives just before it leaves the thread in front of it.
AfterSwitch(p) ==
    CASE p = "SleepqAdded"  -> "SleepqSwitched"
      [] p = "SleeperAdded" -> "SleeperSwitched"
      [] OTHER              -> p

\* What becomes of the thread t that was running.
StateAfterSlice(t) ==
    IF state[t] = "DYING" THEN "FREE"
    ELSE IF sleeps_on[t] # NoResource \/ wakeup_time[t] # 0 THEN "SLEEPING"
    ELSE "READY"

\* A CPU that runs a thread; sw0 tells a software interrupt from a timer one.
scheduler_schedule(c, sw0) ==
    LET t == current[c]
        s == StateAfterSlice(t)
    IN
    /\ Idling(c) /\ t # IDLE /\ TableFree
    /\ sw0 => pc[t] \in {"SleepqAdded", "SleeperAdded"}
    /\ scheduler_remove_first_ready(c,
           IF s = "READY" THEN scheduler_add_to_ready_list(ready, t, priority)
                          ELSE ready,
           [state EXCEPT ![t] = s])
    /\ pc' = [pc EXCEPT ![t] = IF s = "FREE" THEN "kernel"
                               ELSE IF sw0 THEN AfterSwitch(@) ELSE @]
    /\ UNCHANGED <<sleeps_on, wakeup_time, priority, sleepq, sleepers, slocks,
                   asked, rtc>>

\* A CPU that runs the idle thread schedules on every interrupt: it wakes the
\* expired sleepers, comparing with the time it read first, then dispatches.
scheduler_schedule_idle(c) ==
    /\ Idling(c) /\ current[c] = IDLE /\ TableFree
    /\ thread_table_slock' = [cpu |-> c, cur_time |-> rtc_get_msec]
    /\ UNCHANGED <<tables, lists, current, sleepq_slock, pc, asked, rtc>>

\* Faulty: the time is compared for equality.
SleeperExpired_equal_bug ==
    /\ sleepers # <<>>
    /\ wakeup_time[Head(sleepers)] = thread_table_slock.cur_time

SleeperExpired ==
    /\ sleepers # <<>>
    /\ wakeup_time[Head(sleepers)] < thread_table_slock.cur_time

scheduler_wakeup_expired_sleepers(c) ==
    /\ thread_table_slock.cpu = c
    /\ SleeperExpired
    /\ sleepers' = Tail(sleepers)
    /\ wakeup_time' = [wakeup_time EXCEPT ![Head(sleepers)] = 0]
    /\ MakeReady(Head(sleepers))
    /\ UNCHANGED <<sleeps_on, priority, sleepq, current, slocks, pc, asked, rtc>>

scheduler_schedule_idle_end(c) ==
    /\ thread_table_slock.cpu = c
    /\ ~SleeperExpired
    /\ scheduler_remove_first_ready(c, ready, state)
    /\ thread_table_slock' = Unlocked
    /\ UNCHANGED <<sleeps_on, wakeup_time, priority, sleepq, sleepers,
                   sleepq_slock, pc, asked, rtc>>
-----------------------------------------------------------------------------
\* thread_table_init, sleepq_init, scheduler_init, and init(): the startup
\* thread is the only one, HIGH and READY, and every CPU is on the idle thread.
Init ==
    \E startup \in Threads :
        /\ state = [t \in Threads |-> IF t = startup THEN "READY" ELSE "FREE"]
        /\ sleeps_on = [t \in Threads |-> NoResource]
        /\ wakeup_time = [t \in Threads |-> 0]
        /\ priority = [t \in Threads |-> IF t = startup THEN "HIGH" ELSE "NORMAL"]
        /\ ready = <<startup>>
        /\ sleepq = [r \in Resources |-> <<>>]
        /\ sleepers = <<>>
        /\ current = [c \in CPUs |-> IDLE]
        /\ thread_table_slock = Unlocked
        /\ sleepq_slock = Unlocked
        /\ pc = [t \in Threads |-> "kernel"]
        /\ asked = [t \in Threads |-> NoSleep]
        /\ rtc = BootRtc

Sched(c) ==
    \/ \E sw0 \in BOOLEAN : scheduler_schedule(c, sw0)
    \/ scheduler_schedule_idle(c)
    \/ scheduler_wakeup_expired_sleepers(c)
    \/ scheduler_schedule_idle_end(c)

WakeAllLoop(c) == sleepq_wake_all_step(c) \/ sleepq_wake_all_end(c)

Next ==
    \/ Tick
    \/ \E c \in CPUs :
        \/ Sched(c)
        \/ thread_create(c)
        \/ thread_create_with_priority(c)
        \/ thread_run(c)
        \/ thread_finish(c)
        \/ WakeAllLoop(c)
        \/ thread_sleep_insert(c)
        \/ thread_switch_return(c)
        \/ \E r \in Resources :
            \/ sleepq_add(c, r)
            \/ sleepq_wake(c, r)
            \/ sleepq_wake_all_begin(c, r)
        \/ \E ms \in SleepTimes : thread_sleep(c, ms)

Spec == Init /\ [][Next]_vars

\* Every CPU takes its timer interrupts and finishes its loops, time passes,
\* and a thread that is given a CPU again and again inside thread_switch or
\* thread_sleep goes on: a time slice is long enough for a few instructions.
GoOn(t) ==
    \E c \in CPUs : /\ current[c] = t
                    /\ \/ thread_sleep_insert(c)
                       \/ scheduler_schedule(c, TRUE)
                       \/ thread_switch_return(c)

Fairness ==
    /\ WF_vars(Tick)
    /\ \A c \in CPUs : WF_vars(Sched(c)) /\ WF_vars(WakeAllLoop(c))
    /\ \A t \in Threads : SF_vars(GoOn(t))

FairSpec == Spec /\ Fairness
-----------------------------------------------------------------------------
(* Properties.                                                             *)

TypeOK ==
    /\ state \in [Threads -> States]
    /\ sleeps_on \in [Threads -> Resources \cup {NoResource}]
    /\ wakeup_time \in [Threads -> Nat]
    /\ priority \in [Threads -> {"HIGH", "NORMAL"}]
    /\ ready \in Seq(Threads)
    /\ sleepq \in [Resources -> Seq(Threads)]
    /\ sleepers \in Seq(Threads)
    /\ current \in [CPUs -> Threads \cup {IDLE}]
    /\ thread_table_slock \in {Unlocked} \cup [cpu : CPUs, cur_time : Nat]
    /\ sleepq_slock \in {Unlocked} \cup [cpu : CPUs, resource : Resources]
    /\ pc \in [Threads -> ProgramPoints]
    /\ asked \in [Threads -> [from : Nat, ms : Nat]]
    /\ rtc \in Nat

Listed(q, t) == t \in Range(q)

\* thread_table[t].next is the link of the ready list and of the sleep queue
\* chains: a thread is never in both, nor in two chains, nor twice in one.
OneListPerLink ==
    /\ IsInjective(ready) /\ IsInjective(sleepers)
    /\ \A r \in Resources :
        /\ IsInjective(sleepq[r])
        /\ \A t \in Range(sleepq[r]) : sleeps_on[t] = r /\ ~Listed(ready, t)

\* The ready list holds exactly the READY threads, each once, and no thread
\* is on two lists: no thread that should run is forgotten, and
\* scheduler_add_to_ready_list never relinks a thread that is linked already.
\* A RUNNING or DYING thread is current on one CPU and on no other, and no other
\* thread is: two CPUs never share a kernel stack.  A SLEEPING thread can still be
\* found by a wake-up, in the sleep queue of the resource it sleeps on or in the
\* list of timed sleepers: a wake-up that comes between sleepq_add and the
\* context switch is not lost.
ListsExact ==
    /\ OneListPerLink
    /\ \A t \in Threads : state[t] = "READY" <=> Listed(ready, t)
    /\ \A c, d \in CPUs : current[c] = current[d] => c = d \/ current[c] = IDLE
    /\ \A t \in Threads :
        state[t] \in {"RUNNING", "DYING"} <=> \E c \in CPUs : current[c] = t
    /\ \A t \in Threads : state[t] = "SLEEPING" =>
        \/ sleeps_on[t] # NoResource /\ Listed(sleepq[sleeps_on[t]], t)
        \/ wakeup_time[t] # 0 /\ Listed(sleepers, t)

\* HIGH threads are never behind a NORMAL one in the ready list.
HighPriorityFirst ==
    \A i, j \in DOMAIN ready :
        i < j /\ priority[ready[j]] = "HIGH" => priority[ready[i]] = "HIGH"

\* A thread that returns from thread_sleep.
Wakes(t) == (\E c \in CPUs : current[c] = t) /\ pc[t] = "SleeperSwitched"

\* The list of timed sleepers is ordered by wake-up time, so the expiry loop
\* may stop at the first thread that is not due, and thread_sleep does not return
\* before the time given has elapsed, unless the clock wraps during that time:
\* the sleeps that begin after the clock has wrapped are not disturbed by such a
\* one.  (And every variable has its type.)
SleepElapsed ==
    /\ TypeOK
    /\ \A i, j \in DOMAIN sleepers :
        i < j => wakeup_time[sleepers[i]] <= wakeup_time[sleepers[j]]
    /\ \A t \in Threads : Wakes(t) =>
        \/ rtc >= Due(t)
        \/ asked[t].from \div TimeModulus < Due(t) \div TimeModulus

\* thread.c on thread_sleep: "Thread has no possibility to wakeup before the given
\* time has elapsed."
SleepNotEarly == \A t \in Threads : Wakes(t) => rtc >= Due(t)

Before(q, t, u) == \E i, j \in DOMAIN q : i < j /\ q[i] = t /\ q[j] = u

\* t stays, or comes to be, ahead of u as long as both are ready.
OrderKept ==
    \A t, u \in Threads :
        /\ Before(ready, t, u) \/ (Listed(ready, t) /\ ~Listed(ready, u))
        /\ priority[t] = priority[u]
        /\ Listed(ready', t) /\ Listed(ready', u)
        => Before(ready', t, u)

\* Whatever is added to the ready list, HIGH threads stay in front, two ready
\* threads of the same priority keep their order until one runs, and a thread
\* that becomes READY goes behind those of its priority.
ReadyOrder == []HighPriorityFirst /\ [][OrderKept]_vars

SleepingOn(t) == {r \in Resources : Listed(sleepq[r], t)}
Blocked == {t \in Threads : pc[t] \in {"SleepqAdded", "SleepqSwitched"}}

SQ == INSTANCE SleepQueue WITH queue <- sleepq, blocked <- Blocked

\* A thread that called sleepq_add and thread_switch continues only after a
\* sleepq_wake or sleepq_wake_all took it off the queue, in FIFO order: the
\* contract the synchronisation primitives are built on.
ImplementsSleepQueue == SQ!Spec

High(t) == priority[t] = "HIGH"

\* A HIGH thread that was woken, wherever it was between sleepq_add and its
\* return from thread_switch, does return.  The idle thread alone ends timed
\* sleeps; if some CPU keeps coming back to it, every timed sleeper is put on the
\* ready list.
SleepersReturn ==
    /\ \A t \in Threads : []<>~(t \in Blocked /\ SleepingOn(t) = {} /\ High(t))
    /\ []<>(\E c \in CPUs : current[c] = IDLE)
          => \A t \in Threads : []<>(wakeup_time[t] = 0)
=============================================================================
