----------------------------- MODULE ProcessTable -----------------------------
(***************************************************************************)
(* Processes: the process table and process_start (proc/process.c) and the *)
(* system calls execp, exit and join (proc/syscall_handler_proc.c).        *)
(*                                                                         *)
(* A thread holds a lock from an acquire to the step that releases it; who *)
(* waits for a lock gets it in any order (LockCond shows the order to be   *)
(* first come, first served).  Loading the program is one step that works  *)
(* or fails; its memory and file are not modelled here.  Only in inc,      *)
(* family, listed, intact and joined, which record what happened, does the *)
(* model keep more than the code.                                          *)
(***************************************************************************)
EXTENDS Integers, FiniteSets

CONSTANTS
    Tids,              \* threads that run processes
    NO_TID,            \* PROCESS_NO_OWNER_TID, and no owner of a lock
    MAX_PROCESSES,     \* CONFIG_MAX_PROCESSES
    Retvals,           \* arguments of exit
    INT_MIN,           \* the int whose negation is itself
    MaxStarts          \* bound: how many table entries are handed out

Procs == 0..(MAX_PROCESSES - 1)
NO_PID == -1           \* PROCESS_NO_PARENT_PID
NO_RETVAL == -1

ProcessAssumption ==
    /\ NO_TID \notin Tids
    /\ MAX_PROCESSES \in Nat \ {0} /\ MaxStarts \in Nat
    /\ Retvals \subseteq Int /\ INT_MIN \in Int

VARIABLES
    tid, parent_pid, next, last_child_pid, retval,    \* process_table
    die_lock,          \* owner of each entry's die_lock
    process_table_lock,
    waiting,           \* threads asleep on each entry's die_cond
    userland_pid,      \* thread_table[t].userland_pid
    proc_pc,           \* where a thread is
    arg,               \* the entry joined, or the cursor of exit's loop
    ready, child_pid,  \* child_process_create_data_t, on the parent's stack
    creator,           \* the thread on whose stack a child's data is
    starts, inc,       \* entries handed out so far; the number of the one in use
    joined,            \* the number of the process a join is about
    family,            \* children a process has started and not joined
    listed,            \* entries a process has put on its list of children
    intact             \* no entry was cleared or handed out in the middle of a list

entry == <<tid, parent_pid, next, last_child_pid, retval>>
locks == <<die_lock, process_table_lock, waiting>>
data == <<ready, child_pid, creator>>
ghost == <<starts, inc, joined, family, listed, intact>>
proc_vars == <<entry, locks, userland_pid, proc_pc, arg, data, ghost>>

Move(t, p) == proc_pc' = [proc_pc EXCEPT ![t] = p]

Acquire(t, p) == die_lock[p] = NO_TID /\ die_lock' = [die_lock EXCEPT ![p] = t]
Unlock(p) == die_lock' = [die_lock EXCEPT ![p] = NO_TID]

\* condition_wait up to the sleep, and condition_broadcast with lock_release.
Wait(t, p) ==
    /\ waiting' = [waiting EXCEPT ![p] = @ \cup {t}]
    /\ Unlock(p)
Broadcast(p) == waiting' = [waiting EXCEPT ![p] = {}] /\ Unlock(p)
-----------------------------------------------------------------------------
(* syscall_handle_execp, in the parent.                                    *)

\* Starts that have no entry yet (for the bound only).
Pending == {c \in Tids : proc_pc[c] \in {"nonready", "start", "start_table"}}

\* Create the child's thread; without a free thread the call fails at once.
syscall_handle_execp(t) ==
    /\ proc_pc[t] = "user"
    /\ starts + Cardinality(Pending) < MaxStarts
    /\ \E c \in Tids :
        /\ proc_pc[c] = "free"
        /\ proc_pc' = [proc_pc EXCEPT ![t] = "exec_lock", ![c] = "nonready"]
        /\ creator' = [creator EXCEPT ![c] = t]
    /\ UNCHANGED <<ready, child_pid, entry, locks, userland_pid, arg, ghost>>

\* Take the own die_lock and start the child's thread.
execp_run(t) ==
    /\ proc_pc[t] = "exec_lock"
    /\ Acquire(t, userland_pid[t])
    /\ \E c \in Tids :
        /\ proc_pc[c] = "nonready" /\ creator[c] = t
        /\ proc_pc' = [proc_pc EXCEPT ![t] = "exec_test", ![c] = "start"]
    /\ UNCHANGED <<entry, process_table_lock, waiting, userland_pid, arg, data,
                   ghost>>

\* execp returns, and its data is gone.
EndData(t) ==
    /\ ready' = [ready EXCEPT ![t] = FALSE]
    /\ child_pid' = [child_pid EXCEPT ![t] = NO_PID]
    /\ UNCHANGED creator

\* Faulty: the parent does not wait for the child.
execp_test_bug(t) ==
    /\ proc_pc[t] = "exec_test"
    /\ Unlock(userland_pid[t]) /\ Move(t, "user")
    /\ EndData(t)
    /\ UNCHANGED <<waiting, entry, process_table_lock, userland_pid, arg, ghost>>

\* while (!is_data_ready) condition_wait; then return.
execp_test(t) ==
    /\ proc_pc[t] = "exec_test"
    /\ IF ready[t]
       THEN /\ Unlock(userland_pid[t]) /\ Move(t, "user")
            /\ EndData(t) /\ UNCHANGED waiting
       ELSE /\ Wait(t, userland_pid[t]) /\ Move(t, "exec_wait")
            /\ UNCHANGED data
    /\ UNCHANGED <<entry, process_table_lock, userland_pid, arg, ghost>>

execp_woken(t) ==
    /\ proc_pc[t] = "exec_wait" /\ t \notin waiting[userland_pid[t]]
    /\ Acquire(t, userland_pid[t])
    /\ Move(t, "exec_test")
    /\ UNCHANGED <<entry, process_table_lock, waiting, userland_pid, arg, data,
                   ghost>>
-----------------------------------------------------------------------------
(* process_start, in the child's thread.                                   *)

\* The entry of the parent; the first process has none.
ParentOf(c) == IF creator[c] = NO_TID THEN NO_PID ELSE userland_pid[creator[c]]

process_start(c) ==
    /\ proc_pc[c] = "start"
    /\ Acquire(c, ParentOf(c))
    /\ Move(c, "start_table")
    /\ UNCHANGED <<entry, process_table_lock, waiting, userland_pid, arg, data,
                   ghost>>

Free(p) == tid[p] = NO_TID /\ parent_pid[p] = NO_PID

FirstFree(p) == Free(p) /\ \A q \in Procs : q < p => ~Free(q)

\* Take entry p: fill it, and put it at the front of the parent's list.
TakeEntry(c, p) ==
    LET parent == ParentOf(c) IN
    /\ tid' = [tid EXCEPT ![p] = c]
    /\ parent_pid' = [parent_pid EXCEPT ![p] = parent]
    /\ retval' = [retval EXCEPT ![p] = NO_RETVAL]
    /\ userland_pid' = [userland_pid EXCEPT ![c] = p]
    /\ IF parent = NO_PID
       THEN /\ next' = [next EXCEPT ![p] = NO_PID]
            /\ last_child_pid' = [last_child_pid EXCEPT ![p] = NO_PID]
       ELSE /\ next' = [next EXCEPT ![p] = last_child_pid[parent]]
            /\ last_child_pid' = [last_child_pid EXCEPT ![p] = NO_PID, ![parent] = p]

\* The search for a free entry; without one the start fails.
process_start_table(c) ==
    LET parent == ParentOf(c) IN
    /\ proc_pc[c] = "start_table" /\ process_table_lock = NO_TID
    /\ \/ /\ ~\E p \in Procs : Free(p)
          /\ Move(c, "start_fail")
          /\ UNCHANGED <<entry, userland_pid, ghost>>
       \/ \E p \in Procs :
          /\ FirstFree(p)
          /\ TakeEntry(c, p)
          /\ Move(c, "load")
          /\ starts' = starts + 1
          /\ inc' = [inc EXCEPT ![p] = starts + 1]
          /\ family' = [q \in Procs |->
                           IF q = parent THEN family[q] \cup {p}
                           ELSE IF q = p THEN {} ELSE family[q]]
          /\ listed' = [q \in Procs |->
                           IF q = parent THEN listed[q] \cup {p}
                           ELSE IF q = p THEN {} ELSE listed[q]]
          /\ intact' = (intact /\ \A q \in Procs : p \notin listed[q])
          /\ UNCHANGED joined
    /\ UNCHANGED <<locks, arg, data>>

\* The program is loaded: tell the parent and go to userland.
process_start_done(c) ==
    LET t == creator[c] IN
    /\ proc_pc[c] = "load"
    /\ Move(c, "user")
    /\ IF t = NO_TID
       THEN UNCHANGED <<ready, child_pid, creator, die_lock, waiting>>
       ELSE /\ child_pid' = [child_pid EXCEPT ![t] = userland_pid[c] + 1]
            /\ ready' = [ready EXCEPT ![t] = TRUE]
            /\ creator' = [creator EXCEPT ![c] = NO_TID]
            /\ Broadcast(userland_pid[t])
    /\ UNCHANGED <<entry, process_table_lock, userland_pid, arg, ghost>>

\* Loading fails (for the first process that stops the kernel): the entry is
\* cleared, its next included, but stays at the front of the parent's list.
restore_process_state(c) ==
    LET p == userland_pid[c] IN
    /\ proc_pc[c] = "load" /\ creator[c] # NO_TID
    /\ tid' = [tid EXCEPT ![p] = NO_TID]
    /\ parent_pid' = [parent_pid EXCEPT ![p] = NO_PID]
    /\ next' = [next EXCEPT ![p] = NO_PID]
    /\ last_child_pid' = [last_child_pid EXCEPT ![p] = NO_PID]
    /\ retval' = [retval EXCEPT ![p] = NO_RETVAL]
    /\ userland_pid' = [userland_pid EXCEPT ![c] = NO_PID]
    /\ family' = [q \in Procs |-> family[q] \ {p}]
    /\ intact' = (intact /\ next[p] = NO_PID)
    /\ Move(c, "start_fail")
    /\ UNCHANGED <<locks, arg, data, starts, inc, joined, listed>>

\* Faulty: the parent is not told.
start_fail_bug(c) ==
    /\ proc_pc[c] = "start_fail"
    /\ Unlock(ParentOf(c))
    /\ Move(c, "free")
    /\ UNCHANGED <<entry, process_table_lock, waiting, userland_pid, arg, data, ghost>>

\* Tell the parent; the thread returns from its main function and dies.
restore_process_state_end(c) ==
    /\ proc_pc[c] = "start_fail"
    /\ ready' = [ready EXCEPT ![creator[c]] = TRUE]
    /\ creator' = [creator EXCEPT ![c] = NO_TID]
    /\ Broadcast(ParentOf(c))
    /\ Move(c, "free")
    /\ UNCHANGED <<entry, process_table_lock, userland_pid, arg, child_pid, ghost>>
-----------------------------------------------------------------------------
(* syscall_handle_exit.                                                    *)

\* -retval in an int.
Negate(v) == IF v = INT_MIN THEN INT_MIN ELSE -v

syscall_handle_exit(t) ==
    /\ proc_pc[t] = "user"
    /\ Acquire(t, userland_pid[t])
    /\ Move(t, "exit_table")
    /\ UNCHANGED <<entry, process_table_lock, waiting, userland_pid, arg, data,
                   ghost>>

exit_table(t) ==
    /\ proc_pc[t] = "exit_table" /\ process_table_lock = NO_TID
    /\ process_table_lock' = t
    /\ arg' = [arg EXCEPT ![t] = last_child_pid[userland_pid[t]]]
    /\ Move(t, "exit_loop")
    /\ UNCHANGED <<entry, die_lock, waiting, userland_pid, data, ghost>>

\* One round of the loop that makes the children orphans.
exit_orphan(t) ==
    /\ proc_pc[t] = "exit_loop" /\ arg[t] # NO_PID
    /\ parent_pid' = [parent_pid EXCEPT ![arg[t]] = NO_PID]
    /\ arg' = [arg EXCEPT ![t] = next[arg[t]]]
    /\ UNCHANGED <<tid, next, last_child_pid, retval, locks, userland_pid, proc_pc,
                   data, ghost>>

\* The rest of exit, with both locks held; then thread_finish.
exit_end(t, v) ==
    LET p == userland_pid[t] IN
    /\ proc_pc[t] = "exit_loop" /\ arg[t] = NO_PID
    /\ tid' = [tid EXCEPT ![p] = NO_TID]
    /\ retval' = [retval EXCEPT ![p] = IF v < 0 THEN Negate(v) ELSE v]
    /\ Broadcast(p)
    /\ userland_pid' = [userland_pid EXCEPT ![t] = NO_PID]
    /\ process_table_lock' = NO_TID
    /\ family' = [family EXCEPT ![p] = {}]
    /\ listed' = [listed EXCEPT ![p] = {}]
    /\ Move(t, "free")
    /\ UNCHANGED <<parent_pid, next, last_child_pid, arg, data, starts, inc,
                   joined, intact>>
-----------------------------------------------------------------------------
(* syscall_handle_join.                                                    *)

\* Faulty: anybody's child may be joined.
join_bug(t, p) ==
    /\ proc_pc[t] = "user"
    /\ arg' = [arg EXCEPT ![t] = p]
    /\ joined' = [joined EXCEPT ![t] = inc[p]]
    /\ Move(t, "join_lock")
    /\ UNCHANGED <<entry, locks, userland_pid, data, starts, inc, family, listed,
                   intact>>

\* For a pid that is not a child's the call returns at once.
syscall_handle_join(t, p) ==
    /\ proc_pc[t] = "user"
    /\ parent_pid[p] = userland_pid[t]
    /\ arg' = [arg EXCEPT ![t] = p]
    /\ joined' = [joined EXCEPT ![t] = inc[p]]
    /\ Move(t, "join_lock")
    /\ UNCHANGED <<entry, locks, userland_pid, data, starts, inc, family, listed,
                   intact>>

join_lock(t) ==
    /\ \/ proc_pc[t] = "join_lock"
       \/ proc_pc[t] = "join_wait" /\ t \notin waiting[arg[t]]
    /\ Acquire(t, arg[t])
    /\ Move(t, "join_test")
    /\ UNCHANGED <<entry, process_table_lock, waiting, userland_pid, arg, data,
                   ghost>>

\* The child is not unlinked from its parent's list.
join_test(t) ==
    LET p == arg[t] IN
    /\ proc_pc[t] = "join_test"
    /\ IF tid[p] # NO_TID
       THEN /\ Wait(t, p) /\ Move(t, "join_wait")
            /\ UNCHANGED <<parent_pid, arg, family, joined>>
       ELSE /\ parent_pid' = [parent_pid EXCEPT ![p] = NO_PID]
            /\ family' = [family EXCEPT ![userland_pid[t]] = @ \ {p}]
            /\ arg' = [arg EXCEPT ![t] = NO_PID]
            /\ joined' = [joined EXCEPT ![t] = 0]
            /\ Unlock(p) /\ Move(t, "user") /\ UNCHANGED waiting
    /\ UNCHANGED <<tid, next, last_child_pid, retval, process_table_lock,
                   userland_pid, data, starts, inc, listed, intact>>
-----------------------------------------------------------------------------
\* process_table_init, and init_startup_thread in process_start(initprog, NULL).
ProcessInit ==
    /\ tid = [p \in Procs |-> NO_TID]
    /\ parent_pid = [p \in Procs |-> NO_PID]
    /\ next = [p \in Procs |-> NO_PID]
    /\ last_child_pid = [p \in Procs |-> NO_PID]
    /\ retval = [p \in Procs |-> NO_RETVAL]
    /\ die_lock = [p \in Procs |-> NO_TID]
    /\ process_table_lock = NO_TID
    /\ waiting = [p \in Procs |-> {}]
    /\ userland_pid = [t \in Tids |-> NO_PID]
    /\ \E startup \in Tids :
        proc_pc = [t \in Tids |-> IF t = startup THEN "start_table" ELSE "free"]
    /\ arg = [t \in Tids |-> NO_PID]
    /\ ready = [t \in Tids |-> FALSE]
    /\ child_pid = [t \in Tids |-> NO_PID]
    /\ creator = [t \in Tids |-> NO_TID]
    /\ starts = 0 /\ inc = [p \in Procs |-> 0] /\ joined = [t \in Tids |-> 0]
    /\ family = [p \in Procs |-> {}] /\ listed = [p \in Procs |-> {}]
    /\ intact = TRUE

\* Steps inside the kernel, which the scheduler lets every thread take, and
\* those of them that take a lock, which come up in turn.
Locking(t) ==
    \/ execp_run(t) \/ execp_woken(t) \/ process_start(t) \/ process_start_table(t)
    \/ exit_table(t) \/ join_lock(t)
GoOn(t) ==
    \/ execp_test(t) \/ process_start_done(t) \/ restore_process_state(t)
    \/ restore_process_state_end(t) \/ exit_orphan(t) \/ join_test(t)
    \/ \E v \in Retvals : exit_end(t, v)

ProcessNext ==
    \E t \in Tids :
        \/ Locking(t) \/ GoOn(t)
        \/ syscall_handle_execp(t) \/ syscall_handle_exit(t)
        \/ \E p \in Procs : syscall_handle_join(t, p)

ProcessSpec == ProcessInit /\ [][ProcessNext]_proc_vars

FairProcessSpec == ProcessSpec /\ \A t \in Tids : WF_proc_vars(GoOn(t)) /\ SF_proc_vars(Locking(t))
-----------------------------------------------------------------------------
Pcs == {"free", "user", "nonready", "exec_lock", "exec_test", "exec_wait",
        "start", "start_table", "load", "start_fail", "exit_table", "exit_loop",
        "join_lock", "join_test", "join_wait"}

\* Every variable has its type, and every table field a value of its kind.
ProcessTypeOK ==
    /\ tid \in [Procs -> Tids \cup {NO_TID}]
    /\ parent_pid \in [Procs -> Procs \cup {NO_PID}]
    /\ next \in [Procs -> Procs \cup {NO_PID}]
    /\ last_child_pid \in [Procs -> Procs \cup {NO_PID}]
    /\ retval \in [Procs -> Int]
    /\ die_lock \in [Procs -> Tids \cup {NO_TID}]
    /\ process_table_lock \in Tids \cup {NO_TID}
    /\ waiting \in [Procs -> SUBSET Tids]
    /\ userland_pid \in [Tids -> Procs \cup {NO_PID}]
    /\ proc_pc \in [Tids -> Pcs]
    /\ arg \in [Tids -> Procs \cup {NO_PID}]
    /\ ready \in [Tids -> BOOLEAN]
    /\ child_pid \in [Tids -> Procs \cup {NO_PID, MAX_PROCESSES}]
    /\ creator \in [Tids -> Tids \cup {NO_TID}]
    /\ starts \in Nat /\ inc \in [Procs -> Nat] /\ joined \in [Tids -> Nat]
    /\ family \in [Procs -> SUBSET Procs] /\ listed \in [Procs -> SUBSET Procs]
    /\ intact \in BOOLEAN

\* An entry is in use by at most one thread, and the thread and the entry agree
\* on it: get_current_process_entry is right whatever order processes start,
\* fail to start and exit in.  A child uses the create data, which is on its
\* parent's stack, and the parent's entry only while the parent is still inside
\* execp.  (And every variable has its type.)
EntriesOwned ==
    /\ ProcessTypeOK
    /\ \A t \in Tids : userland_pid[t] # NO_PID => tid[userland_pid[t]] = t
    /\ \A p \in Procs : tid[p] # NO_TID => userland_pid[tid[p]] = p
    /\ \A c \in Tids : creator[c] # NO_TID =>
        /\ proc_pc[creator[c]] \in {"exec_lock", "exec_test", "exec_wait"}
        /\ userland_pid[creator[c]] # NO_PID
        /\ ~ready[creator[c]]

\* As long as no entry was cleared or reused on the list of a living process,
\* the table knows the children of each process: a process that does not run
\* the loop of exit is the parent of exactly the processes it started and has
\* not joined, and one that has exited is nobody's parent.  The pid that execp
\* is about to return is that of a child, and the entry a thread joins, asleep
\* or not, is all the time that of the child it asked for: the value join
\* returns is that child's.
PidsNameChildren ==
    intact =>
        /\ \A p, q \in Procs :
            (tid[p] # NO_TID => proc_pc[tid[p]] # "exit_loop")
                => (parent_pid[q] = p <=> q \in family[p])
        /\ \A t \in Tids :
            /\ child_pid[t] # NO_PID => child_pid[t] - 1 \in family[userland_pid[t]]
            /\ proc_pc[t] \in {"join_lock", "join_test", "join_wait"} =>
                  inc[arg[t]] = joined[t] /\ parent_pid[arg[t]] = userland_pid[t]

\* As long as the lists are intact, execp returns, whether the child started or
\* not, and a join of a child that has exited returns, also if the child exits
\* between the join's test and its sleep.
ParentsGoOn ==
    \A t \in Tids :
        []<>(\/ ~intact
             \/ /\ proc_pc[t] \notin {"exec_lock", "exec_test", "exec_wait"}
                /\ ~(proc_pc[t] \in {"join_lock", "join_test", "join_wait"}
                       /\ tid[arg[t]] = NO_TID))

\* A process that calls exit ends.
ExitEnds ==
    \A t \in Tids : (proc_pc[t] = "exit_table") ~> (proc_pc[t] = "free")
=============================================================================
