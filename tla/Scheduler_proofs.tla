--------------------------- MODULE Scheduler_proofs --------------------------
(***************************************************************************)
(* The lists of the scheduler are exact and the sleep queue keeps its      *)
(* contract, on any number of CPUs, as long as nobody sleeps for a time.   *)
(***************************************************************************)
EXTENDS Scheduler, QueueLemmas

\* r is the queue q of elements of S with t in it, behind the first k.
Inserted(S, q, k, t, r) ==
    /\ r \in Seq(S) /\ Len(r) = Len(q) + 1
    /\ \A i \in 1..k : r[i] = q[i]
    /\ r[k + 1] = t
    /\ \A i \in (k + 2)..(Len(q) + 1) : r[i] = q[i - 1]

LEMMA InsertPlaces ==
    ASSUME NEW S, NEW q \in Seq(S), NEW t \in S, NEW k \in 0..Len(q)
    PROVE  Inserted(S, q, k, t, InsertAfter(q, k, t))
<1> DEFINE a == SubSeq(q, 1, k)
           b == Append(a, t)
           d == SubSeq(q, k + 1, Len(q))
<1>1. Len(q) \in Nat /\ k \in Nat /\ k <= Len(q) /\ \A i \in 1..Len(q) : q[i] \in S
  OBVIOUS
<1>2. a \in Seq(S) /\ Len(a) = k /\ \A i \in 1..k : a[i] = q[i]
  <2>1. \A i \in 1..k : q[i] \in S
    BY <1>1
  <2>2. /\ a \in Seq(S) /\ Len(a) = IF 1 <= k THEN k - 1 + 1 ELSE 0
        /\ \A i \in 1..(k - 1 + 1) : a[i] = q[1 + i - 1]
    BY <1>1, <2>1
  <2> QED  BY <1>1, <2>2
<1>3. /\ d \in Seq(S) /\ Len(d) = Len(q) - k
      /\ \A i \in 1..(Len(q) - k) : d[i] = q[k + i]
  <2>1. \A i \in (k + 1)..Len(q) : q[i] \in S
    BY <1>1
  <2>2. /\ d \in Seq(S) /\ Len(d) = IF k + 1 <= Len(q) THEN Len(q) - (k + 1) + 1 ELSE 0
        /\ \A i \in 1..(Len(q) - (k + 1) + 1) : d[i] = q[k + 1 + i - 1]
    BY <1>1, <2>1
  <2> QED  BY <1>1, <2>2
<1> HIDE DEF a, d
<1>4. /\ b \in Seq(S) /\ Len(b) = k + 1 /\ b[k + 1] = t
      /\ \A i \in 1..k : b[i] = q[i]
  BY <1>1, <1>2
<1> HIDE DEF b
<1>5. /\ b \o d \in Seq(S) /\ Len(b \o d) = Len(q) + 1
      /\ \A i \in 1..(Len(q) + 1) : (b \o d)[i] = IF i <= k + 1 THEN b[i] ELSE d[i - (k + 1)]
  <2>1. Len(b) + Len(d) = Len(q) + 1
    BY <1>1, <1>3, <1>4
  <2>2. b \in Seq(S) /\ d \in Seq(S)
    BY <1>3, <1>4, Zenon
  <2>3. b \o d \in Seq(S) /\ Len(b \o d) = Len(b) + Len(d)
    BY <2>2
  <2>4. ASSUME NEW i \in 1..(Len(b) + Len(d))
        PROVE  (b \o d)[i] = IF i <= Len(b) THEN b[i] ELSE d[i - Len(b)]
    BY <2>2
  <2> QED  BY <1>4, <2>1, <2>3, <2>4, Zenon
<1>6. \A i \in 1..k : (b \o d)[i] = q[i]
  BY <1>1, <1>4, <1>5
<1>7. (b \o d)[k + 1] = t
  BY <1>1, <1>4, <1>5
<1>8. ASSUME NEW i \in (k + 2)..(Len(q) + 1) PROVE (b \o d)[i] = q[i - 1]
  <2>1. /\ i \in 1..(Len(q) + 1) /\ ~(i <= k + 1) /\ i - (k + 1) \in 1..(Len(q) - k)
        /\ k + (i - (k + 1)) = i - 1
    BY <1>1
  <2> QED  BY <1>3, <1>5, <2>1, Zenon
<1>9. InsertAfter(q, k, t) = b \o d
  BY Zenon DEF InsertAfter, a, b, d
<1> QED  BY <1>5, <1>6, <1>7, <1>8, <1>9, Zenon DEF Inserted

\* The new queue holds the old one and t, once.
LEMMA InsertQueue ==
    ASSUME NEW S, NEW q \in Seq(S), NEW t \in S, NEW k \in 0..Len(q), NEW r,
           Inserted(S, q, k, t, r)
    PROVE  /\ r # <<>> /\ Range(r) = Range(q) \cup {t}
           /\ IsInjective(q) /\ t \notin Range(q) => IsInjective(r)
<1>1. /\ Len(q) \in Nat /\ k \in Nat /\ k <= Len(q) /\ r \in Seq(S) /\ Len(r) = Len(q) + 1
      /\ DOMAIN q = 1..Len(q) /\ DOMAIN r = 1..(Len(q) + 1)
  BY DEF Inserted
<1> DEFINE from(i) == IF i <= k THEN i ELSE i - 1
<1>2. \A i \in 1..(Len(q) + 1) : i # k + 1 => from(i) \in 1..Len(q) /\ r[i] = q[from(i)]
  BY <1>1 DEF Inserted
<1>3. r[k + 1] = t /\ k + 1 \in 1..(Len(q) + 1)
  BY <1>1 DEF Inserted
<1>4. \A j \in 1..Len(q) : \E i \in 1..(Len(q) + 1) : i # k + 1 /\ from(i) = j
  <2> TAKE j \in 1..Len(q)
  <2>1. CASE j <= k
    BY <1>1, <2>1
  <2>2. CASE j > k
    <3>1. j + 1 \in 1..(Len(q) + 1) /\ j + 1 # k + 1 /\ from(j + 1) = j
      BY <1>1, <2>2
    <3> QED  BY <3>1, Zenon
  <2> QED  BY <1>1, <2>1, <2>2
<1>5. \A i, j \in 1..(Len(q) + 1) : i # k + 1 /\ j # k + 1 /\ from(i) = from(j) => i = j
  BY <1>1
<1> HIDE DEF from
<1>6. Range(r) = Range(q) \cup {t}
  <2>1. ASSUME NEW x \in Range(r) PROVE x \in Range(q) \cup {t}
    <3>1. PICK i \in 1..(Len(q) + 1) : r[i] = x
      BY <1>1, Zenon DEF Range
    <3> QED  BY <1>1, <1>2, <1>3, <3>1, Zenon DEF Range
  <2>2. ASSUME NEW x \in Range(q) PROVE x \in Range(r)
    <3>1. PICK j \in 1..Len(q) : q[j] = x
      BY <1>1, Zenon DEF Range
    <3>2. PICK i \in 1..(Len(q) + 1) : i # k + 1 /\ from(i) = j
      BY <1>4, Zenon
    <3> QED  BY <1>1, <1>2, <3>1, <3>2, Zenon DEF Range
  <2>3. t \in Range(r)
    BY <1>1, <1>3, Zenon DEF Range
  <2> QED  BY <2>1, <2>2, <2>3, Zenon
<1>7. ASSUME IsInjective(q), t \notin Range(q) PROVE IsInjective(r)
  <2> SUFFICES ASSUME NEW i \in 1..(Len(q) + 1), NEW j \in 1..(Len(q) + 1), r[i] = r[j]
               PROVE  i = j
    BY <1>1, Zenon DEF IsInjective
  <2>1. CASE i = k + 1 \/ j = k + 1
    BY <1>1, <1>2, <1>3, <1>7, <2>1, Zenon DEF Range
  <2>2. CASE i # k + 1 /\ j # k + 1
    BY <1>1, <1>2, <1>5, <1>7, <2>2 DEF IsInjective
  <2> QED  BY <2>1, <2>2, Zenon
<1>8. r # <<>>
  BY <1>1, EmptyQueue
<1> QED  BY <1>6, <1>7, <1>8, Zenon

\* The leading HIGH threads of a list end somewhere. That they do takes an induction,
\* which the last part of this module brings in.
RunEnds(q, prio) ==
    /\ HighRun(q, prio) \in 0..Len(q)
    /\ \A i \in 1..HighRun(q, prio) : prio[q[i]] = "HIGH"
    /\ HighRun(q, prio) < Len(q) => prio[q[HighRun(q, prio) + 1]] # "HIGH"

RunsEnd == \A q \in Seq(Threads) : \A prio : RunEnds(q, prio)

\* scheduler_add_to_ready_list puts a thread that is not on the list on it, once.
LEMMA ReadyQueue ==
    ASSUME RunsEnd, NEW q \in Seq(Threads), NEW t \in Threads, t \notin Range(q),
           NEW prio, NEW r, r = scheduler_add_to_ready_list(q, t, prio)
    PROVE  /\ r \in Seq(Threads) /\ r # <<>> /\ Range(r) = Range(q) \cup {t}
           /\ IsInjective(q) => IsInjective(r)
<1>1. PICK k : k = IF prio[t] = "HIGH" THEN HighRun(q, prio) ELSE Len(q)
  BY Zenon
<1>2. k \in 0..Len(q)
  BY <1>1 DEF RunsEnd, RunEnds
<1>3. r = InsertAfter(q, k, t)
  BY <1>1, Zenon DEF scheduler_add_to_ready_list
<1>4. Inserted(Threads, q, k, t, r)
  BY <1>2, <1>3, InsertPlaces, Zenon
<1> QED  BY <1>2, <1>4, InsertQueue DEF Inserted

-----------------------------------------------------------------------------
(* The inductive invariant, when nobody sleeps for a time.                 *)

Untimed ==
    /\ sleepers = <<>>
    /\ \A t \in Threads :
        /\ wakeup_time[t] = 0
        /\ pc[t] \in {"kernel", "SleepqAdded", "SleepqSwitched", "Finished"}

ReadyInv ==
    /\ IsInjective(ready)
    /\ \A t \in Threads : state[t] = "READY" <=> t \in Range(ready)

QueueInv ==
    \A r \in Resources :
        /\ IsInjective(sleepq[r])
        /\ \A t \in Threads : t \in Range(sleepq[r]) <=> sleeps_on[t] = r

RunInv ==
    /\ \A c, d \in CPUs : current[c] = current[d] => c = d \/ current[c] = IDLE
    /\ \A t \in Threads :
        state[t] \in {"RUNNING", "DYING"} <=> \E c \in CPUs : current[c] = t

\* Where a thread may be, given its state.  A thread that waits was woken once it
\* runs again behind the switch: the scheduler put it on the ready list.
Placed(st, on, at) ==
    /\ on # NoResource =>
        at \in {"SleepqAdded", "SleepqSwitched"} /\ st \in {"RUNNING", "SLEEPING"}
    /\ st = "SLEEPING" => on # NoResource
    /\ st = "DYING" <=> at = "Finished"
    /\ st \in {"FREE", "NONREADY"} => at = "kernel"
    /\ at = "SleepqSwitched" /\ st = "RUNNING" => on = NoResource

ThreadInv == \A t \in Threads : Placed(state[t], sleeps_on[t], pc[t])

\* The CPU in the expiry loop runs the idle thread.
LockInv == \A c \in CPUs : thread_table_slock.cpu = c => current[c] = IDLE

IInv == TypeOK /\ Untimed /\ ReadyInv /\ QueueInv /\ RunInv /\ ThreadInv /\ LockInv

\* A thread outside thread_sleep has asked for no time.
LEMMA NoSleepType == NoSleep \in [from : Nat, ms : Nat]
BY DEF NoSleep

LEMMA InitInv == Init => IInv
<1> SUFFICES ASSUME Init PROVE IInv
  BY Zenon
<1>1. PICK s \in Threads :
        /\ state = [t \in Threads |-> IF t = s THEN "READY" ELSE "FREE"]
        /\ priority = [t \in Threads |-> IF t = s THEN "HIGH" ELSE "NORMAL"]
        /\ ready = <<s>>
  BY Zenon DEF Init
<1>2. /\ sleeps_on = [t \in Threads |-> NoResource]
      /\ wakeup_time = [t \in Threads |-> 0]
      /\ sleepq = [r \in Resources |-> <<>>]
      /\ sleepers = <<>>
      /\ current = [c \in CPUs |-> IDLE]
      /\ thread_table_slock = Unlocked
      /\ sleepq_slock = Unlocked
      /\ pc = [t \in Threads |-> "kernel"]
      /\ asked = [t \in Threads |-> NoSleep]
      /\ rtc = BootRtc
  BY Zenon DEF Init
<1>3. ready \in Seq(Threads) /\ IsInjective(ready) /\ Range(ready) = {s}
  BY <1>1 DEF IsInjective, Range
<1>4. TypeOK
  BY <1>1, <1>2, <1>3, EmptyQueue, NoSleepType, SchedulerAssumption, Zenon
     DEF TypeOK, States, ProgramPoints
<1>5. Untimed
  BY <1>2, Zenon DEF Untimed
<1>6. ReadyInv
  BY <1>1, <1>3, Zenon DEF ReadyInv
<1>7. QueueInv
  BY <1>2, EmptyQueue, SchedulerAssumption, Zenon DEF QueueInv
<1>8. RunInv
  BY <1>1, <1>2, SchedulerAssumption, Zenon DEF RunInv
<1>9. ThreadInv /\ LockInv
  BY <1>1, <1>2, Zenon DEF ThreadInv, LockInv, Placed
<1> QED  BY <1>4, <1>5, <1>6, <1>7, <1>8, <1>9, Zenon DEF IInv

\* The first of the ready threads, or the idle thread, gets CPU c.
LEMMA Dispatch ==
    ASSUME TypeOK, RunInv, NEW c \in CPUs,
           NEW q \in Seq(Threads), NEW st \in [Threads -> States],
           IsInjective(q), \A t \in Threads : st[t] = "READY" <=> t \in Range(q),
           \A t \in Threads : st[t] \in {"RUNNING", "DYING"}
                                 <=> \E d \in CPUs \ {c} : current[d] = t,
           scheduler_remove_first_ready(c, q, st)
    PROVE  /\ ready' \in Seq(Threads) /\ state' \in [Threads -> States]
           /\ current' \in [CPUs -> Threads \cup {IDLE}]
           /\ ReadyInv' /\ RunInv'
           /\ \A d \in CPUs \ {c} : current'[d] = current[d]
           /\ \A t \in Threads : \/ state'[t] = st[t]
                                 \/ st[t] = "READY" /\ state'[t] = "RUNNING"
<1> DEFINE first == IF q = <<>> THEN IDLE ELSE Head(q)
<1>1. PICK n : n = first
  BY Zenon
<1>2. /\ current' = [current EXCEPT ![c] = n] /\ n \in Threads \cup {IDLE}
      /\ n # IDLE => st[n] = "READY"
  <2>1. CASE q = <<>>
    BY <1>1, <2>1, Zenon DEF scheduler_remove_first_ready
  <2>2. CASE q # <<>>
    BY <1>1, <2>2, TailQueue, Zenon DEF scheduler_remove_first_ready
  <2> QED  BY <2>1, <2>2, Zenon
<1>3. current \in [CPUs -> Threads \cup {IDLE}]
  BY Zenon DEF TypeOK
<1>4. /\ current' \in [CPUs -> Threads \cup {IDLE}] /\ current'[c] = n
      /\ \A d \in CPUs \ {c} : current'[d] = current[d]
  BY <1>2, <1>3, Zenon
<1>5. /\ ready' \in Seq(Threads) /\ IsInjective(ready')
      /\ state' \in [Threads -> States]
      /\ \A t \in Threads : state'[t] = IF t = n THEN "RUNNING" ELSE st[t]
      /\ \A t \in Threads : t \in Range(ready') <=> t \in Range(q) /\ t # n
  <2>1. CASE q = <<>>
    <3>1. ready' = <<>> /\ state' = st /\ n = IDLE
      BY <1>1, <2>1, Zenon DEF scheduler_remove_first_ready
    <3> QED  BY <2>1, <3>1, SchedulerAssumption, EmptyQueue
  <2>2. CASE q # <<>>
    <3>1. ready' = Tail(q) /\ state' = [st EXCEPT ![n] = "RUNNING"] /\ n = Head(q)
      BY <1>1, <2>2, Zenon DEF scheduler_remove_first_ready
    <3>2. Left(Threads, q, ready')
      BY <2>2, <3>1, AfterTail, Zenon
    <3> QED  BY <3>1, <3>2 DEF Left, States
  <2> QED  BY <2>1, <2>2, Zenon
<1>6. \A t \in Threads : state'[t] = st[t] \/ (st[t] = "READY" /\ state'[t] = "RUNNING")
  BY <1>2, <1>5, SchedulerAssumption
<1>7. ReadyInv'
  BY <1>5, Zenon DEF ReadyInv
<1>8. \A t \in Threads : state'[t] \in {"RUNNING", "DYING"}
                            <=> \E d \in CPUs : current'[d] = t
  BY <1>2, <1>4, <1>5
<1>9. \A d \in CPUs \ {c} : current[d] = n => n = IDLE
  BY <1>2, SchedulerAssumption, Zenon
<1>10. RunInv'
  BY <1>4, <1>8, <1>9 DEF RunInv
<1> QED  BY <1>4, <1>5, <1>6, <1>7, <1>10, Zenon


\* t, that is on no list and on no CPU, is queued on the ready list.
LEMMA Readied ==
    ASSUME RunsEnd, TypeOK, ReadyInv, RunInv, NEW t \in Threads,
           state[t] \in {"NONREADY", "SLEEPING"}, MakeReady(t), UNCHANGED current
    PROVE  /\ ready' \in Seq(Threads) /\ state' \in [Threads -> States]
           /\ ReadyInv' /\ RunInv'
           /\ \A u \in Threads : state'[u] = IF u = t THEN "READY" ELSE state[u]
<1>1. ready \in Seq(Threads) /\ IsInjective(ready) /\ t \notin Range(ready)
  BY Zenon DEF TypeOK, ReadyInv
<1>2. ready' = scheduler_add_to_ready_list(ready, t, priority)
  BY Zenon DEF MakeReady
<1>3. /\ ready' \in Seq(Threads) /\ IsInjective(ready')
      /\ Range(ready') = Range(ready) \cup {t}
  <2>1. PICK q, p, r : q = ready /\ p = priority /\ r = ready'
    BY Zenon
  <2>2. q \in Seq(Threads) /\ t \notin Range(q) /\ r = scheduler_add_to_ready_list(q, t, p)
    BY <1>1, <1>2, <2>1, Zenon
  <2>3. r \in Seq(Threads) /\ Range(r) = Range(q) \cup {t} /\ (IsInjective(q) => IsInjective(r))
    BY <2>2, ReadyQueue, Zenon
  <2> QED  BY <1>1, <2>1, <2>3, Zenon
<1>4. /\ state' \in [Threads -> States]
      /\ \A u \in Threads : state'[u] = IF u = t THEN "READY" ELSE state[u]
  BY Zenon DEF TypeOK, MakeReady, States
<1>5. ReadyInv'
  BY <1>3, <1>4, Zenon DEF ReadyInv
<1>6. RunInv'
  BY <1>4, Zenon DEF RunInv
<1> QED  BY <1>3, <1>4, <1>5, <1>6, Zenon

\* A thread that executes ordinary code runs on this CPU and waits for nothing.
LEMMA Executing ==
    ASSUME IInv, NEW c \in CPUs, current[c] # IDLE
    PROVE  /\ current[c] \in Threads
           /\ state[current[c]] \in {"RUNNING", "DYING"}
           /\ pc[current[c]] # "Finished" => state[current[c]] = "RUNNING"
           /\ pc[current[c]] \in {"kernel", "SleepqSwitched"} => sleeps_on[current[c]] = NoResource
<1>1. current[c] \in Threads
  BY Zenon DEF IInv, TypeOK
<1>2. state[current[c]] \in {"RUNNING", "DYING"}
  BY <1>1, Zenon DEF IInv, RunInv
<1>3. Placed(state[current[c]], sleeps_on[current[c]], pc[current[c]])
  BY <1>1, Zenon DEF IInv, ThreadInv
<1> QED  BY <1>1, <1>2, <1>3, Zenon DEF Placed

LEMMA CreateStep ==
    ASSUME IInv, NEW c \in CPUs, NEW p \in {"HIGH", "NORMAL"}, ThreadCreate(c, p)
    PROVE  IInv'
<1>1. PICK t \in Threads :
        /\ state[t] = "FREE"
        /\ state' = [state EXCEPT ![t] = "NONREADY"]
        /\ sleeps_on' = [sleeps_on EXCEPT ![t] = NoResource]
        /\ priority' = [priority EXCEPT ![t] = p]
  BY Zenon DEF ThreadCreate
<1>2. UNCHANGED <<wakeup_time, ready, sleepq, sleepers, current,
                  thread_table_slock, sleepq_slock, pc, asked, rtc>>
  BY Zenon DEF ThreadCreate, lists, slocks
<1>3. TypeOK /\ Placed(state[t], sleeps_on[t], pc[t])
  BY Zenon DEF IInv, ThreadInv
<1>4. sleeps_on[t] = NoResource /\ pc[t] = "kernel"
  BY <1>1, <1>3, Zenon DEF Placed, TypeOK
<1>5. sleeps_on' = sleeps_on
  BY <1>1, <1>3, <1>4, Zenon DEF TypeOK
<1>6. TypeOK'
  BY <1>1, <1>2, <1>3, <1>5, Zenon DEF TypeOK, States
<1>7. \A u \in Threads : state'[u] = IF u = t THEN "NONREADY" ELSE state[u]
  BY <1>1, <1>3, Zenon DEF TypeOK
<1>8. Untimed' /\ QueueInv' /\ LockInv'
  BY <1>2, <1>5, Zenon DEF IInv, Untimed, QueueInv, LockInv
<1>9. ReadyInv' /\ RunInv'
  BY <1>1, <1>2, <1>7 DEF IInv, ReadyInv, RunInv
<1>10. ThreadInv'
  BY <1>2, <1>4, <1>5, <1>7 DEF IInv, ThreadInv, Placed
<1> QED  BY <1>6, <1>8, <1>9, <1>10, Zenon DEF IInv

LEMMA RunStep ==
    ASSUME RunsEnd, IInv, NEW c \in CPUs, thread_run(c)
    PROVE  IInv'
<1>1. PICK t \in Threads : state[t] = "NONREADY" /\ MakeReady(t)
  BY Zenon DEF thread_run
<1>2. UNCHANGED <<sleeps_on, wakeup_time, priority, sleepq, sleepers, current,
                  thread_table_slock, sleepq_slock, pc, asked, rtc>>
  BY Zenon DEF thread_run, slocks
<1>3. TypeOK /\ ReadyInv /\ RunInv /\ Placed(state[t], sleeps_on[t], pc[t])
  BY Zenon DEF IInv, ThreadInv
<1>4. /\ ready' \in Seq(Threads) /\ state' \in [Threads -> States]
      /\ ReadyInv' /\ RunInv'
      /\ \A u \in Threads : state'[u] = IF u = t THEN "READY" ELSE state[u]
  BY <1>1, <1>2, <1>3, Readied, Zenon
<1>5. TypeOK'
  BY <1>2, <1>3, <1>4, Zenon DEF TypeOK
<1>6. Untimed' /\ QueueInv' /\ LockInv'
  BY <1>2, Zenon DEF IInv, Untimed, QueueInv, LockInv
<1>7. ThreadInv'
  BY <1>1, <1>2, <1>3, <1>4 DEF IInv, ThreadInv, Placed
<1> QED  BY <1>4, <1>5, <1>6, <1>7, Zenon DEF IInv

LEMMA FinishStep ==
    ASSUME IInv, NEW c \in CPUs, thread_finish(c)
    PROVE  IInv'
<1>1. PICK t : t = current[c]
  BY Zenon
<1>2. /\ t \in Threads /\ state[t] = "RUNNING" /\ sleeps_on[t] = NoResource
      /\ pc[t] = "kernel"
  BY <1>1, Executing, Zenon DEF thread_finish, InKernel
<1>3. /\ state' = [state EXCEPT ![t] = "DYING"]
      /\ pc' = [pc EXCEPT ![t] = "Finished"]
      /\ UNCHANGED <<sleeps_on, wakeup_time, priority, ready, sleepq, sleepers, current,
                     thread_table_slock, sleepq_slock, asked, rtc>>
  BY <1>1, Zenon DEF thread_finish, lists, slocks
<1>4. TypeOK
  BY Zenon DEF IInv
<1>5. TypeOK'
  BY <1>2, <1>3, <1>4, Zenon DEF TypeOK, States, ProgramPoints
<1>6. \A u \in Threads : /\ state'[u] = IF u = t THEN "DYING" ELSE state[u]
                         /\ pc'[u] = IF u = t THEN "Finished" ELSE pc[u]
  BY <1>3, <1>4, Zenon DEF TypeOK
<1>7. Untimed' /\ QueueInv' /\ LockInv'
  BY <1>3, <1>6 DEF IInv, Untimed, QueueInv, LockInv
<1>8. ReadyInv' /\ RunInv'
  BY <1>2, <1>3, <1>6 DEF IInv, ReadyInv, RunInv
<1>9. ThreadInv'
  BY <1>2, <1>3, <1>6 DEF IInv, ThreadInv, Placed
<1> QED  BY <1>5, <1>7, <1>8, <1>9, Zenon DEF IInv

LEMMA AddStep ==
    ASSUME IInv, NEW c \in CPUs, NEW r \in Resources, sleepq_add(c, r)
    PROVE  IInv'
<1>1. PICK t : t = current[c]
  BY Zenon
<1>2. /\ t \in Threads /\ state[t] = "RUNNING" /\ sleeps_on[t] = NoResource
      /\ pc[t] = "kernel"
  BY <1>1, Executing, Zenon DEF sleepq_add, InKernel
<1>3. /\ sleeps_on' = [sleeps_on EXCEPT ![t] = r]
      /\ sleepq' = [sleepq EXCEPT ![r] = Append(sleepq[r], t)]
      /\ pc' = [pc EXCEPT ![t] = "SleepqAdded"]
      /\ UNCHANGED <<state, wakeup_time, priority, ready, sleepers, current,
                     thread_table_slock, sleepq_slock, asked, rtc>>
  BY <1>1, Zenon DEF sleepq_add, slocks
<1>4. TypeOK /\ QueueInv /\ r # NoResource
  BY SchedulerAssumption, Zenon DEF IInv
<1>5. sleepq[r] \in Seq(Threads) /\ IsInjective(sleepq[r]) /\ t \notin Range(sleepq[r])
  BY <1>2, <1>4, Zenon DEF TypeOK, QueueInv
<1>6. \A x \in Resources : sleepq'[x] = IF x = r THEN Append(sleepq[r], t) ELSE sleepq[x]
  BY <1>3, <1>4, Zenon DEF TypeOK
<1>7. /\ sleepq'[r] \in Seq(Threads) /\ IsInjective(sleepq'[r])
      /\ Range(sleepq'[r]) = Range(sleepq[r]) \cup {t}
  <2>1. sleepq'[r] = Append(sleepq[r], t)
    BY <1>6, Zenon
  <2>2. Joined(Threads, sleepq[r], t, sleepq'[r])
    BY <1>2, <1>5, <2>1, AfterAppend, Zenon
  <2> QED  BY <1>5, <2>2, Zenon DEF Joined
<1>8. TypeOK'
  BY <1>2, <1>3, <1>4, <1>5, <1>7, Zenon DEF TypeOK, ProgramPoints
<1>9. \A u \in Threads : /\ sleeps_on'[u] = IF u = t THEN r ELSE sleeps_on[u]
                         /\ pc'[u] = IF u = t THEN "SleepqAdded" ELSE pc[u]
  BY <1>3, <1>4, Zenon DEF TypeOK
<1>10. Untimed' /\ ReadyInv' /\ RunInv' /\ LockInv'
  BY <1>3, <1>9 DEF IInv, Untimed, ReadyInv, RunInv, LockInv
<1>11. QueueInv'
  <2> SUFFICES ASSUME NEW x \in Resources
               PROVE  /\ IsInjective(sleepq'[x])
                      /\ \A u \in Threads : u \in Range(sleepq'[x]) <=> sleeps_on'[u] = x
    BY Zenon DEF QueueInv
  <2>1. CASE x = r
    BY <1>2, <1>4, <1>7, <1>9, <2>1, Zenon DEF QueueInv
  <2>2. CASE x # r
    <3>1. sleepq'[x] = sleepq[x] /\ x # NoResource
      BY <1>6, <2>2, SchedulerAssumption, Zenon
    <3> QED  BY <1>2, <1>4, <1>9, <2>2, <3>1 DEF QueueInv
  <2> QED  BY <2>1, <2>2, Zenon
<1>12. ThreadInv'
  BY <1>2, <1>3, <1>9 DEF IInv, ThreadInv, Placed
<1> QED  BY <1>8, <1>10, <1>11, <1>12, Zenon DEF IInv


\* sleepq_wake, and one round of sleepq_wake_all.
LEMMA WakeStep ==
    ASSUME RunsEnd, IInv, NEW r \in Resources, sleepq[r] # <<>>, WakeFirst(r),
           UNCHANGED <<wakeup_time, priority, sleepers, current, slocks, pc, asked, rtc>>
    PROVE  IInv'
<1>1. PICK t : t = Head(sleepq[r])
  BY Zenon
<1>2. TypeOK /\ QueueInv /\ ReadyInv /\ RunInv /\ r # NoResource
  BY SchedulerAssumption, Zenon DEF IInv
<1>3. sleepq[r] \in Seq(Threads) /\ IsInjective(sleepq[r])
  BY <1>2, Zenon DEF TypeOK, QueueInv
<1>4. /\ sleepq' = [sleepq EXCEPT ![r] = Tail(sleepq[r])]
      /\ sleeps_on' = [sleeps_on EXCEPT ![t] = NoResource]
      /\ IF state[t] = "SLEEPING" THEN MakeReady(t) ELSE UNCHANGED <<ready, state>>
  BY <1>1, Zenon DEF WakeFirst
<1>5. UNCHANGED <<wakeup_time, priority, sleepers, current, thread_table_slock,
                  sleepq_slock, pc, asked, rtc>>
  BY Zenon DEF slocks
<1>6. \A x \in Resources : sleepq'[x] = IF x = r THEN Tail(sleepq[r]) ELSE sleepq[x]
  BY <1>2, <1>4, Zenon DEF TypeOK
<1>7. /\ t \in Threads /\ t \in Range(sleepq[r])
      /\ sleepq'[r] \in Seq(Threads) /\ IsInjective(sleepq'[r])
      /\ Range(sleepq[r]) = Range(sleepq'[r]) \cup {t} /\ t \notin Range(sleepq'[r])
  <2>1. sleepq'[r] = Tail(sleepq[r])
    BY <1>6, Zenon
  <2>2. Left(Threads, sleepq[r], sleepq'[r])
    BY <1>3, <2>1, AfterTail, Zenon
  <2> QED  BY <1>1, <1>3, <2>2, Zenon DEF Left
<1>8. sleeps_on[t] = r /\ Placed(state[t], sleeps_on[t], pc[t])
  BY <1>2, <1>7, Zenon DEF QueueInv, IInv, ThreadInv
<1>9. state[t] \in {"RUNNING", "SLEEPING"}
  BY <1>2, <1>8, Zenon DEF Placed
<1>10. /\ ready' \in Seq(Threads) /\ state' \in [Threads -> States]
       /\ ReadyInv' /\ RunInv'
       /\ \A u \in Threads : state'[u] = IF u = t /\ state[t] = "SLEEPING" THEN "READY" ELSE state[u]
  <2>1. CASE state[t] = "SLEEPING"
    BY <1>2, <1>4, <1>5, <1>7, <2>1, Readied, ZenonT(40)
  <2>2. CASE state[t] # "SLEEPING"
    <3>1. UNCHANGED <<ready, state, current>>
      BY <1>4, <1>5, <2>2, Zenon
    <3> QED  BY <1>2, <2>2, <3>1 DEF TypeOK, ReadyInv, RunInv
  <2> QED  BY <2>1, <2>2, Zenon
<1>11. \A u \in Threads : sleeps_on'[u] = IF u = t THEN NoResource ELSE sleeps_on[u]
  BY <1>2, <1>4, Zenon DEF TypeOK
<1>12. sleepq' \in [Resources -> Seq(Threads)]
  BY <1>2, <1>4, <1>7, <1>6, Zenon DEF TypeOK
<1>13. TypeOK'
  BY <1>2, <1>4, <1>5, <1>10, <1>12, Zenon DEF TypeOK
<1>14. Untimed' /\ LockInv'
  BY <1>5, Zenon DEF IInv, Untimed, LockInv
<1>15. QueueInv'
  <2> SUFFICES ASSUME NEW x \in Resources
               PROVE  /\ IsInjective(sleepq'[x])
                      /\ \A u \in Threads : u \in Range(sleepq'[x]) <=> sleeps_on'[u] = x
    BY ZenonT(40) DEF QueueInv
  <2>1. CASE x = r
    BY <1>2, <1>7, <1>11, <2>1 DEF QueueInv
  <2>2. CASE x # r
    <3>1. sleepq'[x] = sleepq[x] /\ x # NoResource
      BY <1>6, <2>2, SchedulerAssumption, Zenon
    <3> QED  BY <1>2, <1>8, <1>11, <2>2, <3>1 DEF QueueInv
  <2> QED  BY <2>1, <2>2, Zenon
<1>16. ThreadInv'
  BY <1>5, <1>8, <1>9, <1>10, <1>11 DEF IInv, ThreadInv, Placed
<1> QED  BY <1>10, <1>13, <1>14, <1>15, <1>16, Zenon DEF IInv

\* The thread on c goes where its state says, and the next one runs.
LEMMA ScheduleStep ==
    ASSUME RunsEnd, IInv, NEW c \in CPUs, NEW sw0 \in BOOLEAN, scheduler_schedule(c, sw0)
    PROVE  IInv'
<1>1. PICK t, s : t = current[c] /\ s = StateAfterSlice(t)
  BY Zenon
<1>2. PICK q, st : /\ q = IF s = "READY" THEN scheduler_add_to_ready_list(ready, t, priority) ELSE ready
                   /\ st = [state EXCEPT ![t] = s]
  BY Zenon
<1>3. /\ t # IDLE /\ Idling(c)
      /\ sw0 => pc[t] \in {"SleepqAdded", "SleeperAdded"}
      /\ scheduler_remove_first_ready(c, q, st)
      /\ pc' = [pc EXCEPT ![t] = IF s = "FREE" THEN "kernel"
                                 ELSE IF sw0 THEN AfterSwitch(pc[t]) ELSE pc[t]]
      /\ UNCHANGED <<sleeps_on, wakeup_time, priority, sleepq, sleepers,
                     thread_table_slock, sleepq_slock, asked, rtc>>
  BY <1>1, <1>2, Zenon DEF scheduler_schedule, slocks
<1>4. TypeOK /\ ReadyInv /\ RunInv /\ Untimed
  BY Zenon DEF IInv
<1>5. t \in Threads /\ state[t] \in {"RUNNING", "DYING"} /\ wakeup_time[t] = 0
  BY <1>1, <1>3, <1>4, Executing, Zenon DEF Untimed
<1>6. s = IF state[t] = "DYING" THEN "FREE"
          ELSE IF sleeps_on[t] # NoResource THEN "SLEEPING" ELSE "READY"
  BY <1>1, <1>5, Zenon DEF StateAfterSlice
<1>7. /\ st \in [Threads -> States]
      /\ \A u \in Threads : st[u] = IF u = t THEN s ELSE state[u]
  BY <1>2, <1>4, <1>6, Zenon DEF TypeOK, States
<1>8. /\ ready \in Seq(Threads) /\ IsInjective(ready) /\ t \notin Range(ready)
      /\ \A u \in Threads : state[u] = "READY" <=> u \in Range(ready)
  BY <1>4, <1>5, Zenon DEF TypeOK, ReadyInv
<1>9. /\ q \in Seq(Threads) /\ IsInjective(q)
      /\ Range(q) = IF s = "READY" THEN Range(ready) \cup {t} ELSE Range(ready)
  <2>1. CASE s = "READY"
    <3>1. PICK l, p : l = ready /\ p = priority
      BY Zenon
    <3>2. l \in Seq(Threads) /\ t \notin Range(l) /\ q = scheduler_add_to_ready_list(l, t, p)
      BY <1>2, <1>8, <2>1, <3>1, Zenon
    <3>3. q \in Seq(Threads) /\ Range(q) = Range(l) \cup {t} /\ (IsInjective(l) => IsInjective(q))
      BY <1>5, <3>2, ReadyQueue, Zenon
    <3> QED  BY <1>8, <2>1, <3>1, <3>3, Zenon
  <2>2. CASE s # "READY"
    BY <1>2, <1>8, <2>2, Zenon
  <2> QED  BY <2>1, <2>2, Zenon
<1>10. \A u \in Threads : st[u] = "READY" <=> u \in Range(q)
  BY <1>7, <1>8, <1>9, Zenon
<1>11. \A u \in Threads : st[u] \in {"RUNNING", "DYING"}
                            <=> \E d \in CPUs \ {c} : current[d] = u
  <2>1. \A d \in CPUs \ {c} : current[d] # t
    BY <1>1, <1>3, <1>4, Zenon DEF RunInv
  <2>2. s \notin {"RUNNING", "DYING"}
    BY <1>6, Zenon
  <2> QED  BY <1>1, <1>4, <1>7, <2>1, <2>2, Zenon DEF RunInv
<1>12. /\ ready' \in Seq(Threads) /\ state' \in [Threads -> States]
       /\ current' \in [CPUs -> Threads \cup {IDLE}]
       /\ ReadyInv' /\ RunInv'
       /\ \A d \in CPUs \ {c} : current'[d] = current[d]
       /\ \A u \in Threads : \/ state'[u] = st[u]
                             \/ st[u] = "READY" /\ state'[u] = "RUNNING"
  BY <1>3, <1>4, <1>7, <1>9, <1>10, <1>11, Dispatch
<1>13. pc[t] \in {"kernel", "SleepqAdded", "SleepqSwitched", "Finished"}
  BY <1>4, <1>5, Zenon DEF Untimed
<1>14. /\ pc' \in [Threads -> ProgramPoints]
       /\ \A u \in Threads : u # t => pc'[u] = pc[u]
       /\ pc'[t] = IF s = "FREE" THEN "kernel"
                   ELSE IF sw0 THEN "SleepqSwitched" ELSE pc[t]
  BY <1>3, <1>4, <1>5, <1>13, Zenon DEF TypeOK, ProgramPoints, AfterSwitch
<1>15. TypeOK'
  BY <1>3, <1>4, <1>12, <1>14, Zenon DEF TypeOK
<1>16. Untimed' /\ QueueInv'
  BY <1>3, <1>13, <1>14, Zenon DEF IInv, Untimed, QueueInv
<1>17. LockInv'
  BY <1>3, <1>12, Zenon DEF IInv, LockInv, Idling
<1>18. ThreadInv'
  <2> SUFFICES ASSUME NEW u \in Threads
               PROVE  Placed(state'[u], sleeps_on[u], pc'[u])
    BY <1>3, Zenon DEF ThreadInv
  <2>1. Placed(state[u], sleeps_on[u], pc[u])
    BY Zenon DEF IInv, ThreadInv
  <2>2. CASE u # t
    BY <1>7, <1>12, <1>14, <2>1, <2>2, ZenonT(40) DEF Placed
  <2>3. CASE u = t
    BY <1>3, <1>5, <1>6, <1>7, <1>12, <1>13, <1>14, <2>1, <2>3 DEF Placed
  <2> QED  BY <2>2, <2>3, Zenon
<1> QED  BY <1>12, <1>15, <1>16, <1>17, <1>18, Zenon DEF IInv


\* The idle thread leaves c to the first ready thread.
LEMMA IdleEndStep ==
    ASSUME IInv, NEW c \in CPUs, scheduler_schedule_idle_end(c)
    PROVE  IInv'
<1>1. PICK q, st : q = ready /\ st = state
  BY Zenon
<1>2. /\ thread_table_slock.cpu = c /\ thread_table_slock' = Unlocked
      /\ scheduler_remove_first_ready(c, q, st)
      /\ UNCHANGED <<sleeps_on, wakeup_time, priority, sleepq, sleepers,
                     sleepq_slock, pc, asked, rtc>>
  BY <1>1, Zenon DEF scheduler_schedule_idle_end
<1>3. TypeOK /\ ReadyInv /\ RunInv /\ current[c] = IDLE
  BY <1>2, Zenon DEF IInv, LockInv
<1>4. /\ q \in Seq(Threads) /\ st \in [Threads -> States] /\ IsInjective(q)
      /\ \A t \in Threads : st[t] = "READY" <=> t \in Range(q)
  BY <1>1, <1>3, Zenon DEF TypeOK, ReadyInv
<1>5. \A t \in Threads : st[t] \in {"RUNNING", "DYING"}
                            <=> \E d \in CPUs \ {c} : current[d] = t
  BY <1>1, <1>3, SchedulerAssumption DEF RunInv
<1>6. /\ ready' \in Seq(Threads) /\ state' \in [Threads -> States]
      /\ current' \in [CPUs -> Threads \cup {IDLE}]
      /\ ReadyInv' /\ RunInv'
      /\ \A t \in Threads : \/ state'[t] = st[t]
                            \/ st[t] = "READY" /\ state'[t] = "RUNNING"
  BY <1>2, <1>3, <1>4, <1>5, Dispatch, Zenon
<1>7. TypeOK'
  BY <1>2, <1>3, <1>6, Zenon DEF TypeOK
<1>8. Untimed' /\ QueueInv'
  BY <1>2, Zenon DEF IInv, Untimed, QueueInv
<1>9. LockInv'
  BY <1>2, SchedulerAssumption, Zenon DEF LockInv, Unlocked
<1>10. ThreadInv'
  BY <1>1, <1>2, <1>6, Zenon DEF IInv, ThreadInv, Placed
<1> QED  BY <1>6, <1>7, <1>8, <1>9, <1>10, Zenon DEF IInv

\* The steps that move no thread from one list to another.
LEMMA QuietStep ==
    ASSUME IInv, UNCHANGED <<state, sleeps_on, wakeup_time, priority, ready, sleepq, sleepers, current>>,
           TypeOK', LockInv',
           \A t \in Threads : \/ pc'[t] = pc[t]
                              \/ /\ pc[t] = "SleepqSwitched" /\ pc'[t] = "kernel"
                                 /\ state[t] = "RUNNING" /\ sleeps_on[t] = NoResource
    PROVE  IInv'
<1>1. Untimed' /\ ReadyInv' /\ QueueInv' /\ RunInv'
  BY DEF IInv, Untimed, ReadyInv, QueueInv, RunInv
<1>2. ThreadInv'
  BY Zenon DEF IInv, ThreadInv, Placed
<1> QED  BY <1>1, <1>2, Zenon DEF IInv

LEMMA ReturnStep ==
    ASSUME IInv, NEW c \in CPUs, thread_switch_return(c)
    PROVE  /\ IInv' /\ UNCHANGED <<state, sleeps_on, sleepq>>
           /\ current[c] \in Threads /\ pc[current[c]] = "SleepqSwitched"
           /\ sleeps_on[current[c]] = NoResource
           /\ pc' = [pc EXCEPT ![current[c]] = "kernel"]
<1>1. PICK t : t = current[c]
  BY Zenon
<1>2. /\ t # IDLE /\ pc[t] \in {"SleepqSwitched", "SleeperSwitched"}
      /\ pc' = [pc EXCEPT ![t] = "kernel"] /\ asked' = [asked EXCEPT ![t] = NoSleep]
      /\ UNCHANGED <<state, sleeps_on, wakeup_time, priority, ready, sleepq, sleepers, current,
                     thread_table_slock, sleepq_slock, rtc>>
  BY <1>1, Zenon DEF thread_switch_return, tables, lists, slocks
<1>3. t \in Threads
  BY <1>1, <1>2, Executing, Zenon
<1>4. pc[t] = "SleepqSwitched"
  BY <1>2, <1>3, Zenon DEF IInv, Untimed
<1>5. state[t] = "RUNNING" /\ sleeps_on[t] = NoResource
  BY <1>1, <1>2, <1>4, Executing, Zenon
<1>6. TypeOK' /\ LockInv'
  BY <1>2, <1>3, NoSleepType, Zenon DEF IInv, TypeOK, ProgramPoints, LockInv
<1>7. \A u \in Threads : pc'[u] = IF u = t THEN "kernel" ELSE pc[u]
  BY <1>2, Zenon DEF IInv, TypeOK
<1>8. IInv'
  BY <1>2, <1>4, <1>5, <1>6, <1>7, QuietStep, Zenon
<1> QED  BY <1>1, <1>2, <1>3, <1>4, <1>5, <1>8, Zenon

\* The spinlocks are taken and released, and time passes.
LEMMA LockStep ==
    ASSUME IInv,
           UNCHANGED <<state, sleeps_on, wakeup_time, priority, ready, sleepq, sleepers, current, pc, asked>>,
           rtc' \in Nat,
           sleepq_slock' \in {Unlocked} \cup [cpu : CPUs, resource : Resources],
           \/ thread_table_slock' = thread_table_slock
           \/ \E c \in CPUs : /\ thread_table_slock' \in [cpu : {c}, cur_time : Nat]
                              /\ current[c] = IDLE
    PROVE  IInv'
<1>1. TypeOK'
  BY DEF IInv, TypeOK
<1>2. LockInv'
  BY Zenon DEF IInv, LockInv
<1> QED  BY <1>1, <1>2, QuietStep, Zenon

LEMMA NextInv ==
    ASSUME RunsEnd, SleepTimes = {}, IInv, [Next]_vars
    PROVE  IInv'
<1>1. CASE UNCHANGED vars
  BY <1>1, QuietStep, Zenon DEF IInv, vars, tables, lists, slocks, TypeOK, LockInv
<1>2. CASE Tick
  <2>1. rtc' \in Nat
    BY <1>2 DEF Tick, IInv, TypeOK
  <2>2. UNCHANGED <<state, sleeps_on, wakeup_time, priority, ready, sleepq, sleepers, current,
                    pc, asked, sleepq_slock, thread_table_slock>>
    BY <1>2, Zenon DEF Tick, tables, lists, slocks
  <2>3. sleepq_slock \in {Unlocked} \cup [cpu : CPUs, resource : Resources]
    BY Zenon DEF IInv, TypeOK
  <2> QED  BY <2>1, <2>2, <2>3, LockStep, ZenonT(40)
<1>3. ASSUME NEW c \in CPUs, NEW sw0 \in BOOLEAN, scheduler_schedule(c, sw0) PROVE IInv'
  BY <1>3, ScheduleStep, Zenon
<1>4. ASSUME NEW c \in CPUs, scheduler_schedule_idle(c) PROVE IInv'
  <2>1. rtc \in Nat /\ rtc_get_msec \in Nat
    <3>1. rtc \in Nat
      BY Zenon DEF IInv, TypeOK
    <3>2. \A n \in Nat : n % TimeModulus \in Nat
      BY SchedulerAssumption
    <3> QED  BY <3>1, <3>2, Zenon DEF rtc_get_msec
  <2>2. /\ thread_table_slock' \in [cpu : {c}, cur_time : Nat] /\ current[c] = IDLE
        /\ UNCHANGED <<state, sleeps_on, wakeup_time, priority, ready, sleepq, sleepers, current,
                       sleepq_slock, pc, asked, rtc>>
    BY <1>4, <2>1, Zenon DEF scheduler_schedule_idle, tables, lists
  <2> QED  BY <2>1, <2>2, LockStep, Zenon DEF IInv, TypeOK
<1>5. ASSUME NEW c \in CPUs, scheduler_wakeup_expired_sleepers(c) PROVE IInv'
  BY <1>5, Zenon DEF scheduler_wakeup_expired_sleepers, SleeperExpired, IInv, Untimed
<1>6. ASSUME NEW c \in CPUs, scheduler_schedule_idle_end(c) PROVE IInv'
  BY <1>6, IdleEndStep, Zenon
<1>7. ASSUME NEW c \in CPUs, thread_create(c) \/ thread_create_with_priority(c) PROVE IInv'
  <2>1. PICK p \in {"HIGH", "NORMAL"} : ThreadCreate(c, p)
    BY <1>7, SchedulerAssumption, Zenon DEF thread_create, thread_create_with_priority
  <2> QED  BY <2>1, CreateStep, Zenon
<1>8. ASSUME NEW c \in CPUs, thread_run(c) PROVE IInv'
  BY <1>8, RunStep, Zenon
<1>9. ASSUME NEW c \in CPUs, thread_finish(c) PROVE IInv'
  BY <1>9, FinishStep, Zenon
<1>10. ASSUME NEW c \in CPUs, sleepq_wake_all_step(c) PROVE IInv'
  <2>1. PICK r \in Resources : r = sleepq_slock.resource
    BY <1>10, SchedulerAssumption DEF sleepq_wake_all_step, IInv, TypeOK, Unlocked
  <2>2. sleepq[r] # <<>> /\ WakeFirst(r)
    BY <1>10, <2>1, Zenon DEF sleepq_wake_all_step
  <2>3. UNCHANGED <<wakeup_time, priority, sleepers, current, slocks, pc, asked, rtc>>
    BY <1>10, Zenon DEF sleepq_wake_all_step
  <2> QED  BY <2>2, <2>3, WakeStep, Zenon
<1>11. ASSUME NEW c \in CPUs, sleepq_wake_all_end(c) PROVE IInv'
  BY <1>11, LockStep, Zenon DEF sleepq_wake_all_end, tables, lists, IInv, TypeOK
<1>12. ASSUME NEW c \in CPUs, thread_sleep_insert(c) PROVE IInv'
  <2>1. current[c] \in Threads /\ pc[current[c]] = "TimeRead"
    BY <1>12, Executing, Zenon DEF thread_sleep_insert
  <2> QED  BY <2>1, Zenon DEF IInv, Untimed
<1>13. ASSUME NEW c \in CPUs, thread_switch_return(c) PROVE IInv'
  BY <1>13, ReturnStep, Zenon
<1>14. ASSUME NEW c \in CPUs, NEW r \in Resources, sleepq_add(c, r) PROVE IInv'
  BY <1>14, AddStep, Zenon
<1>15. ASSUME NEW c \in CPUs, NEW r \in Resources, sleepq_wake(c, r) PROVE IInv'
  BY <1>15, WakeStep, Zenon DEF sleepq_wake
<1>16. ASSUME NEW c \in CPUs, NEW r \in Resources, sleepq_wake_all_begin(c, r) PROVE IInv'
  BY <1>16, LockStep, Zenon DEF sleepq_wake_all_begin, tables, lists, IInv, TypeOK
<1> QED
  BY <1>1, <1>2, <1>3, <1>4, <1>5, <1>6, <1>7, <1>8, <1>9, <1>10, <1>11, <1>12,
     <1>13, <1>14, <1>15, <1>16, Zenon DEF Next, Sched, WakeAllLoop

LEMMA ExactLists ==
    ASSUME IInv
    PROVE  ListsExact
<1>1. OneListPerLink
  <2>1. IsInjective(ready) /\ IsInjective(sleepers)
    BY EmptyQueue, Zenon DEF IInv, ReadyInv, Untimed
  <2>2. ASSUME NEW r \in Resources, NEW t \in Range(sleepq[r])
        PROVE  sleeps_on[t] = r /\ ~Listed(ready, t)
    <3>1. t \in Threads
      BY <2>2, EmptyIff, Zenon DEF IInv, TypeOK
    <3>2. sleeps_on[t] = r /\ r # NoResource
      BY <2>2, <3>1, SchedulerAssumption, Zenon DEF IInv, QueueInv
    <3> QED  BY <3>1, <3>2, Zenon DEF IInv, ThreadInv, Placed, ReadyInv, Listed
  <2>3. \A r \in Resources : IsInjective(sleepq[r])
    BY Zenon DEF IInv, QueueInv
  <2> QED  BY <2>1, <2>2, <2>3, Zenon DEF OneListPerLink
<1>2. ASSUME NEW t \in Threads, state[t] = "SLEEPING"
      PROVE  sleeps_on[t] # NoResource /\ Listed(sleepq[sleeps_on[t]], t)
  BY <1>2 DEF IInv, TypeOK, ThreadInv, Placed, QueueInv, Listed
<1> QED  BY <1>1, <1>2, Zenon DEF ListsExact, IInv, ReadyInv, RunInv, Listed

-----------------------------------------------------------------------------
(* The sleep queue implements its contract.                                *)

LEMMA InitSleepQueue == Init => SQ!Init
  BY DEF Init, SQ!Init, Blocked

\* Steps that leave the queues alone and move no thread into or out of the
\* part of the code that waits.
LEMMA StutterSleepQueue ==
    ASSUME UNCHANGED sleepq,
           \A t \in Threads : pc'[t] \in {"SleepqAdded", "SleepqSwitched"}
                                <=> pc[t] \in {"SleepqAdded", "SleepqSwitched"}
    PROVE  [SQ!Next]_<<sleepq, Blocked>>
  BY Zenon DEF Blocked

LEMMA AddImplements ==
    ASSUME IInv, NEW c \in CPUs, NEW r \in Resources, sleepq_add(c, r)
    PROVE  SQ!Next
<1>1. PICK t : t = current[c]
  BY Zenon
<1>2. t \in Threads /\ pc[t] = "kernel"
  BY <1>1, Executing, Zenon DEF sleepq_add, InKernel
<1>3. /\ sleepq' = [sleepq EXCEPT ![r] = Append(sleepq[r], t)]
      /\ pc' = [pc EXCEPT ![t] = "SleepqAdded"]
  BY <1>1, Zenon DEF sleepq_add
<1>4. \A u \in Threads : pc'[u] = IF u = t THEN "SleepqAdded" ELSE pc[u]
  BY <1>3, Zenon DEF IInv, TypeOK
<1>5. t \notin Blocked /\ Blocked' = Blocked \cup {t}
  BY <1>2, <1>4, Zenon DEF Blocked
<1>6. SQ!Sleep(t, r)
  BY <1>3, <1>5, Zenon DEF SQ!Sleep
<1> QED  BY <1>2, <1>6, Zenon DEF SQ!Next

LEMMA WakeImplements ==
    ASSUME NEW r \in Resources, sleepq[r] # <<>>, WakeFirst(r), UNCHANGED pc
    PROVE  SQ!Next
<1>1. sleepq' = [sleepq EXCEPT ![r] = Tail(sleepq[r])] /\ UNCHANGED Blocked
  BY Zenon DEF WakeFirst, Blocked
<1>2. SQ!Wake(r)
  BY <1>1, Zenon DEF SQ!Wake
<1> QED  BY <1>2, Zenon DEF SQ!Next

LEMMA ReturnImplements ==
    ASSUME IInv, NEW c \in CPUs, thread_switch_return(c)
    PROVE  SQ!Next
<1>1. PICK t \in Threads :
        /\ pc[t] = "SleepqSwitched" /\ sleeps_on[t] = NoResource
        /\ pc' = [pc EXCEPT ![t] = "kernel"] /\ UNCHANGED sleepq
  BY ReturnStep, Zenon
<1>2. \A u \in Threads : pc'[u] = IF u = t THEN "kernel" ELSE pc[u]
  BY <1>1, Zenon DEF IInv, TypeOK
<1>3. t \in Blocked /\ Blocked' = Blocked \ {t}
  BY <1>1, <1>2 DEF Blocked
<1>4. \A r \in Resources : t \notin Range(sleepq[r])
  BY <1>1, SchedulerAssumption DEF IInv, QueueInv
<1>5. \A r \in Resources : t \notin SQ!Range(sleepq[r])
  BY <1>4, Zenon DEF SQ!Range, Range
<1>6. SQ!Return(t)
  BY <1>1, <1>3, <1>5, Zenon DEF SQ!Return
<1> QED  BY <1>6, Zenon DEF SQ!Next

LEMMA ScheduleImplements ==
    ASSUME IInv, NEW c \in CPUs, NEW sw0 \in BOOLEAN, scheduler_schedule(c, sw0)
    PROVE  [SQ!Next]_<<sleepq, Blocked>>
<1>1. PICK t : t = current[c]
  BY Zenon
<1>2. /\ t # IDLE /\ sw0 => pc[t] \in {"SleepqAdded", "SleeperAdded"}
      /\ pc' = [pc EXCEPT ![t] = IF StateAfterSlice(t) = "FREE" THEN "kernel"
                                 ELSE IF sw0 THEN AfterSwitch(pc[t]) ELSE pc[t]]
      /\ UNCHANGED sleepq
  BY <1>1, Zenon DEF scheduler_schedule
<1>3. /\ t \in Threads /\ Placed(state[t], sleeps_on[t], pc[t])
      /\ pc[t] \in {"kernel", "SleepqAdded", "SleepqSwitched", "Finished"}
  BY <1>1, <1>2, Executing, Zenon DEF IInv, ThreadInv, Untimed, scheduler_schedule
<1>4. StateAfterSlice(t) = "FREE" => pc[t] = "Finished"
  BY <1>3, Zenon DEF StateAfterSlice, Placed
<1>5. pc'[t] \in {"SleepqAdded", "SleepqSwitched"} <=> pc[t] \in {"SleepqAdded", "SleepqSwitched"}
  BY <1>2, <1>3, <1>4, Zenon DEF IInv, TypeOK, AfterSwitch
<1>6. \A u \in Threads : u # t => pc'[u] = pc[u]
  BY <1>2, Zenon DEF IInv, TypeOK
<1> QED  BY <1>2, <1>5, <1>6, StutterSleepQueue, Zenon

LEMMA NextImplements ==
    ASSUME SleepTimes = {}, IInv, [Next]_vars
    PROVE  [SQ!Next]_<<sleepq, Blocked>>
<1> DEFINE G == [SQ!Next]_<<sleepq, Blocked>>
<1> SUFFICES G
  BY Zenon
<1>1. ASSUME UNCHANGED <<sleepq, pc>> PROVE G
  BY <1>1, StutterSleepQueue, Zenon
<1>2. CASE UNCHANGED vars \/ Tick
  BY <1>1, <1>2, Zenon DEF vars, lists, Tick
<1>3. ASSUME NEW c \in CPUs, NEW sw0 \in BOOLEAN, scheduler_schedule(c, sw0) PROVE G
  BY <1>3, ScheduleImplements, Zenon
<1>4. ASSUME NEW c \in CPUs,
             \/ scheduler_schedule_idle(c) \/ scheduler_wakeup_expired_sleepers(c)
             \/ scheduler_schedule_idle_end(c) \/ thread_create(c)
             \/ thread_create_with_priority(c) \/ thread_run(c) \/ sleepq_wake_all_end(c)
      PROVE  G
  BY <1>1, <1>4, Zenon
     DEF scheduler_schedule_idle, scheduler_wakeup_expired_sleepers, scheduler_schedule_idle_end,
         thread_create, thread_create_with_priority, ThreadCreate, thread_run,
         sleepq_wake_all_end, lists
<1>5. ASSUME NEW c \in CPUs, thread_finish(c) PROVE G
  <2>1. PICK t : t = current[c]
    BY Zenon
  <2>2. t \in Threads /\ pc[t] = "kernel"
    BY <1>5, <2>1, Executing, Zenon DEF thread_finish, InKernel
  <2>3. pc' = [pc EXCEPT ![t] = "Finished"] /\ UNCHANGED sleepq
    BY <1>5, <2>1, Zenon DEF thread_finish, lists
  <2>4. \A u \in Threads : pc'[u] = IF u = t THEN "Finished" ELSE pc[u]
    BY <2>3, Zenon DEF IInv, TypeOK
  <2> QED  BY <2>2, <2>3, <2>4, StutterSleepQueue
<1>6. ASSUME NEW c \in CPUs, sleepq_wake_all_step(c) PROVE G
  <2>1. PICK r \in Resources : r = sleepq_slock.resource
    BY <1>6, SchedulerAssumption DEF sleepq_wake_all_step, IInv, TypeOK, Unlocked
  <2> QED  BY <1>6, <2>1, WakeImplements, Zenon DEF sleepq_wake_all_step
<1>7. ASSUME NEW c \in CPUs, thread_sleep_insert(c) PROVE G
  <2>1. current[c] \in Threads /\ pc[current[c]] = "TimeRead"
    BY <1>7, Executing, Zenon DEF thread_sleep_insert
  <2> QED  BY <2>1, Zenon DEF IInv, Untimed
<1>8. ASSUME NEW c \in CPUs, thread_switch_return(c) PROVE G
  BY <1>8, ReturnImplements, Zenon
<1>9. ASSUME NEW c \in CPUs, NEW r \in Resources, sleepq_add(c, r) PROVE G
  BY <1>9, AddImplements, Zenon
<1>10. ASSUME NEW c \in CPUs, NEW r \in Resources, sleepq_wake(c, r) PROVE G
  BY <1>10, WakeImplements, Zenon DEF sleepq_wake
<1>11. ASSUME NEW c \in CPUs, NEW r \in Resources, sleepq_wake_all_begin(c, r) PROVE G
  BY <1>1, <1>11, Zenon DEF sleepq_wake_all_begin, lists
<1> QED
  BY <1>2, <1>3, <1>4, <1>5, <1>6, <1>7, <1>8, <1>9, <1>10, <1>11, Zenon
     DEF Next, Sched, WakeAllLoop

-----------------------------------------------------------------------------
(* The order of the ready list.                                            *)

HighFirst(q, prio) ==
    \A i, j \in DOMAIN q : i < j /\ prio[q[j]] = "HIGH" => prio[q[i]] = "HIGH"

\* OrderKept, for the lists q and r in place of ready and ready'.
Kept(q, prio, r) ==
    \A t, u \in Threads :
        /\ Before(q, t, u) \/ (t \in Range(q) /\ u \notin Range(q))
        /\ prio[t] = prio[u] /\ t \in Range(r) /\ u \in Range(r)
        => Before(r, t, u)

\* scheduler_add_to_ready_list keeps HIGH threads in front and puts a thread
\* behind those of its priority.
LEMMA InsertOrder ==
    ASSUME RunsEnd, NEW q \in Seq(Threads), NEW prio \in [Threads -> {"HIGH", "NORMAL"}],
           HighFirst(q, prio), NEW x \in Threads, x \notin Range(q),
           NEW r, r = scheduler_add_to_ready_list(q, x, prio)
    PROVE  HighFirst(r, prio) /\ Kept(q, prio, r)
<1>1. PICK k : k = IF prio[x] = "HIGH" THEN HighRun(q, prio) ELSE Len(q)
  BY Zenon
<1>2. /\ k \in 0..Len(q)
      /\ prio[x] = "HIGH" => \A i \in 1..k : prio[q[i]] = "HIGH"
      /\ prio[x] = "HIGH" /\ k < Len(q) => prio[q[k + 1]] # "HIGH"
      /\ prio[x] # "HIGH" => k = Len(q)
  BY <1>1 DEF RunsEnd, RunEnds
<1>3. r = InsertAfter(q, k, x)
  BY <1>1, Zenon DEF scheduler_add_to_ready_list
<1>4. Inserted(Threads, q, k, x, r)
  BY <1>2, <1>3, InsertPlaces
<1>0. Len(q) \in Nat /\ k \in Nat /\ k <= Len(q)
  BY <1>2
<1>5. /\ DOMAIN q = 1..Len(q)
      /\ DOMAIN r = 1..(Len(q) + 1) /\ r[k + 1] = x
      /\ \A i \in 1..k : r[i] = q[i]
      /\ \A i \in (k + 2)..(Len(q) + 1) : r[i] = q[i - 1]
      /\ \A i \in 1..Len(q) : q[i] \in Threads
  <2>1. Len(r) = Len(q) + 1 /\ r \in Seq(Threads)
    BY <1>4, Zenon DEF Inserted
  <2>2. DOMAIN r = 1..Len(r) /\ DOMAIN q = 1..Len(q) /\ \A i \in 1..Len(q) : q[i] \in Threads
    BY <2>1
  <2> QED  BY <1>4, <2>1, <2>2, Zenon DEF Inserted
<1> DEFINE to(i) == IF i <= k THEN i ELSE i + 1
<1>6. \A i \in 1..Len(q) : to(i) \in 1..(Len(q) + 1) /\ r[to(i)] = q[i]
  <2> TAKE i \in 1..Len(q)
  <2>1. CASE i <= k
    <3>1. i \in 1..k /\ i \in 1..(Len(q) + 1) /\ to(i) = i
      BY <1>0, <2>1
    <3> QED  BY <1>5, <3>1, Zenon
  <2>2. CASE ~(i <= k)
    <3>1. i + 1 \in (k + 2)..(Len(q) + 1) /\ i + 1 \in 1..(Len(q) + 1) /\ (i + 1) - 1 = i /\ to(i) = i + 1
      BY <1>0, <2>2
    <3> QED  BY <1>5, <3>1, Zenon
  <2> QED  BY <2>1, <2>2, Zenon
<1>7. \A i, j \in 1..Len(q) : i < j => to(i) < to(j)
  BY <1>0
<1>8. \A i \in 1..(Len(q) + 1) : i = k + 1 \/ \E j \in 1..Len(q) : i = to(j)
  BY <1>0
<1>9. \A i \in 1..Len(q) : prio[q[i]] = prio[x] => i <= k
  <2> SUFFICES ASSUME NEW i \in 1..Len(q), prio[q[i]] = prio[x], ~(i <= k) PROVE FALSE
    BY Zenon
  <2>0. k # Len(q) /\ k + 1 \in 1..Len(q) /\ k < Len(q) /\ (i = k + 1 \/ k + 1 < i)
    BY <1>0
  <2>1. prio[x] = "HIGH"
    BY <1>2, <2>0, Zenon
  <2>2. prio[q[k + 1]] # "HIGH"
    BY <1>2, <2>0, <2>1, Zenon
  <2> QED  BY <1>5, <2>0, <2>1, <2>2, Zenon DEF HighFirst
<1>10. \A i \in 1..Len(q) : i < k + 1 <=> to(i) < k + 1
  BY <1>0
<1>11. \A i \in 1..Len(q) : k + 1 < to(i) => k + 1 \in 1..Len(q) /\ k < Len(q) /\ k + 1 <= i
  BY <1>0
<1>12. \A i, j \in 1..Len(q) : to(i) < to(j) => i < j
  BY <1>0
<1> HIDE DEF to
<1>13. HighFirst(r, prio)
  <2> SUFFICES ASSUME NEW i \in 1..(Len(q) + 1), NEW j \in 1..(Len(q) + 1), i < j,
                      prio[r[j]] = "HIGH"
               PROVE  prio[r[i]] = "HIGH"
    BY <1>5, Zenon DEF HighFirst
  <2>1. CASE j = k + 1
    <3>1. PICK m \in 1..Len(q) : i = to(m)
      BY <1>0, <1>8, <2>1
    <3>2. m \in 1..k
      BY <1>0, <1>10, <2>1, <3>1
    <3>3. prio[x] = "HIGH"
      BY <1>5, <2>1, Zenon
    <3>4. prio[q[m]] = "HIGH"
      BY <1>2, <3>2, <3>3, Zenon
    <3> QED  BY <1>6, <3>1, <3>4, Zenon
  <2>2. CASE i = k + 1 /\ j # k + 1
    <3>1. PICK m \in 1..Len(q) : j = to(m)
      BY <1>8, <2>2, Zenon
    <3>2. k + 1 \in 1..Len(q) /\ k < Len(q) /\ (m = k + 1 \/ k + 1 < m)
      BY <1>0, <1>11, <2>2, <3>1
    <3>3. prio[q[m]] = "HIGH"
      BY <1>6, <3>1, Zenon
    <3>4. prio[q[k + 1]] = "HIGH"
      BY <1>5, <3>2, <3>3, Zenon DEF HighFirst
    <3>5. prio[x] = "HIGH"
      <4>1. k # Len(q)
        BY <1>0, <3>2
      <4> QED  BY <1>2, <4>1, Zenon
    <3> QED  BY <1>5, <2>2, <3>5, Zenon
  <2>3. CASE i # k + 1 /\ j # k + 1
    <3>1. PICK m \in 1..Len(q), n \in 1..Len(q) : i = to(m) /\ j = to(n)
      BY <1>8, <2>3, Zenon
    <3>2. m < n /\ r[i] = q[m] /\ r[j] = q[n]
      BY <1>6, <1>12, <3>1, Zenon
    <3> QED  BY <1>5, <3>2 DEF HighFirst
  <2> QED  BY <2>1, <2>2, <2>3, Zenon
<1>14. Kept(q, prio, r)
  <2> SUFFICES ASSUME NEW t \in Threads, NEW u \in Threads,
                      Before(q, t, u) \/ (t \in Range(q) /\ u \notin Range(q)),
                      prio[t] = prio[u], u \in Range(r)
               PROVE  \E i, j \in 1..(Len(q) + 1) : i < j /\ r[i] = t /\ r[j] = u
    <3>1. ASSUME NEW t \in Threads, NEW u \in Threads,
                 \E i, j \in 1..(Len(q) + 1) : i < j /\ r[i] = t /\ r[j] = u
          PROVE  Before(r, t, u)
      BY <1>5, <3>1, Zenon DEF Before
    <3> QED  BY <3>1 DEF Kept
  <2>1. CASE Before(q, t, u)
    <3>1. PICK i \in 1..Len(q), j \in 1..Len(q) : i < j /\ q[i] = t /\ q[j] = u
      BY <1>5, <2>1, Zenon DEF Before
    <3> QED  BY <1>6, <1>7, <3>1, Zenon
  <2>2. CASE t \in Range(q) /\ u \notin Range(q)
    <3>1. PICK i \in 1..Len(q) : q[i] = t
      BY <1>5, <2>2 DEF Range
    <3>2. PICK j \in 1..(Len(q) + 1) : r[j] = u
      BY <1>5, Zenon DEF Range
    <3>3. j = k + 1 /\ u = x
      <4>1. \A m \in 1..Len(q) : q[m] \in Range(q)
        BY <1>5, Zenon DEF Range
      <4>2. \A m \in 1..Len(q) : j # to(m)
        BY <1>6, <2>2, <3>2, <4>1, Zenon
      <4> QED  BY <1>0, <1>5, <1>8, <3>2, <4>2, Zenon
    <3>4. i <= k
      BY <1>9, <3>1, <3>3, Zenon
    <3>5. to(i) < k + 1
      BY <1>0, <1>10, <3>4
    <3> QED  BY <1>6, <3>1, <3>2, <3>3, <3>5, ZenonT(40)
  <2> QED  BY <2>1, <2>2, Zenon
<1> QED  BY <1>13, <1>14, Zenon


\* Taking the first thread disturbs no order.
LEMMA TailOrder ==
    ASSUME NEW q, NEW prio, NEW l \in Seq(Threads), l # <<>>, IsInjective(l),
           HighFirst(l, prio), Kept(q, prio, l), NEW r, r = Tail(l)
    PROVE  HighFirst(r, prio) /\ Kept(q, prio, r)
<1>1. /\ Len(l) \in Nat \ {0} /\ DOMAIN l = 1..Len(l) /\ DOMAIN r = 1..(Len(l) - 1)
      /\ \A i \in 1..(Len(l) - 1) : r[i] = l[i + 1]
  OBVIOUS
<1>2. /\ \A i \in 1..(Len(l) - 1) : i + 1 \in 1..Len(l) /\ i + 1 # 1
      /\ \A i, j \in 1..(Len(l) - 1) : i < j => i + 1 < j + 1
      /\ \A i \in 1..Len(l) : i # 1 => i - 1 \in 1..(Len(l) - 1) /\ (i - 1) + 1 = i
      /\ \A i, j \in 1..Len(l) : i < j => i - 1 < j - 1 /\ j # 1
  BY <1>1
<1>3. HighFirst(r, prio)
  BY <1>1, <1>2 DEF HighFirst
<1>4. ASSUME NEW t \in Threads, NEW u \in Threads,
             Before(q, t, u) \/ (t \in Range(q) /\ u \notin Range(q)),
             prio[t] = prio[u], t \in Range(r), u \in Range(r)
      PROVE  Before(r, t, u)
  <2>1. PICK m \in 1..(Len(l) - 1) : r[m] = t
    BY <1>1, <1>4, Zenon DEF Range
  <2>2. l[m + 1] = t /\ m + 1 \in 1..Len(l) /\ m + 1 # 1
    BY <1>1, <1>2, <2>1, Zenon
  <2>3. t \in Range(l) /\ u \in Range(l)
    BY <1>1, <1>2, <1>4 DEF Range
  <2>4. PICK i \in 1..Len(l), j \in 1..Len(l) : i < j /\ l[i] = t /\ l[j] = u
    BY <1>1, <1>4, <2>3 DEF Kept, Before
  <2>5. i = m + 1
    BY <1>1, <2>2, <2>4 DEF IsInjective
  <2>6. /\ i - 1 \in 1..(Len(l) - 1) /\ j - 1 \in 1..(Len(l) - 1) /\ i - 1 < j - 1
        /\ r[i - 1] = l[i] /\ r[j - 1] = l[j]
    BY <1>1, <1>2, <2>2, <2>4, <2>5, Zenon
  <2> QED  BY <1>1, <2>4, <2>6, Zenon DEF Before
<1> QED  BY <1>3, <1>4, Zenon DEF Kept

\* What may happen to the ready list in one step: a thread may be put on it, and
\* then the first one taken.
Moved(q, prio, r) ==
    \E l \in Seq(Threads) :
        /\ l = q \/ \E x \in Threads : x \notin Range(q) /\ l = scheduler_add_to_ready_list(q, x, prio)
        /\ r = l \/ (l # <<>> /\ r = Tail(l))

LEMMA MovedOrder ==
    ASSUME RunsEnd, NEW q \in Seq(Threads), IsInjective(q),
           NEW prio \in [Threads -> {"HIGH", "NORMAL"}], HighFirst(q, prio),
           NEW r, Moved(q, prio, r)
    PROVE  HighFirst(r, prio) /\ Kept(q, prio, r)
<1>1. PICK l \in Seq(Threads) :
        /\ l = q \/ \E x \in Threads : x \notin Range(q) /\ l = scheduler_add_to_ready_list(q, x, prio)
        /\ r = l \/ (l # <<>> /\ r = Tail(l))
  BY Zenon DEF Moved
<1>2. HighFirst(l, prio) /\ Kept(q, prio, l) /\ IsInjective(l)
  <2>1. CASE l = q
    BY <2>1, Zenon DEF Kept
  <2>2. CASE l # q
    <3>1. PICK x \in Threads : x \notin Range(q) /\ l = scheduler_add_to_ready_list(q, x, prio)
      BY <1>1, <2>2, Zenon
    <3>2. IsInjective(l)
      BY <3>1, ReadyQueue, Zenon
    <3> QED  BY <3>1, <3>2, InsertOrder, Zenon
  <2> QED  BY <2>1, <2>2, Zenon
<1> QED  BY <1>1, <1>2, TailOrder, Zenon


\* Each step does that to the ready list, and gives a thread another priority only
\* while it is on no list.
LEMMA NextMoves ==
    ASSUME RunsEnd, SleepTimes = {}, IInv, [Next]_vars
    PROVE  /\ Moved(ready, priority, ready')
           /\ \A t \in Range(ready') : priority'[t] = priority[t]
<1>1. ready \in Seq(Threads) /\ priority \in [Threads -> {"HIGH", "NORMAL"}]
  BY Zenon DEF IInv, TypeOK
<1>2. ASSUME UNCHANGED <<ready, priority>>
      PROVE  Moved(ready, priority, ready') /\ \A t \in Range(ready') : priority'[t] = priority[t]
  BY <1>1, <1>2, Zenon DEF Moved
<1>3. ASSUME NEW l \in Seq(Threads), UNCHANGED priority,
             \/ l = ready
             \/ \E x \in Threads : /\ x \notin Range(ready)
                                   /\ l = scheduler_add_to_ready_list(ready, x, priority),
             ready' = l \/ (l # <<>> /\ ready' = Tail(l))
      PROVE  Moved(ready, priority, ready') /\ \A t \in Range(ready') : priority'[t] = priority[t]
  BY <1>3, Zenon DEF Moved
<1>4. ASSUME NEW x \in Threads, x \notin Range(ready), UNCHANGED priority,
             ready' = scheduler_add_to_ready_list(ready, x, priority)
      PROVE  Moved(ready, priority, ready') /\ \A t \in Range(ready') : priority'[t] = priority[t]
  <2>1. ready' \in Seq(Threads)
    <3>1. PICK q, p, r : q = ready /\ p = priority /\ r = ready'
      BY Zenon
    <3>2. q \in Seq(Threads) /\ x \notin Range(q) /\ r = scheduler_add_to_ready_list(q, x, p)
      BY <1>1, <1>4, <3>1, Zenon
    <3>3. r \in Seq(Threads)
      BY <3>2, ReadyQueue, Zenon
    <3> QED  BY <3>1, <3>3, Zenon
  <2>2. PICK l \in Seq(Threads) : l = ready'
    BY <2>1, Zenon
  <2> QED  BY <1>3, <1>4, <2>2, Zenon
<1>5. ASSUME NEW r \in Resources, sleepq[r] # <<>>, WakeFirst(r), UNCHANGED priority
      PROVE  Moved(ready, priority, ready') /\ \A t \in Range(ready') : priority'[t] = priority[t]
  <2>1. PICK t : t = Head(sleepq[r])
    BY Zenon
  <2>2. t \in Threads
    BY <1>5, <2>1, TailQueue DEF IInv, TypeOK
  <2>3. CASE state[t] = "SLEEPING"
    <3>1. t \notin Range(ready) /\ ready' = scheduler_add_to_ready_list(ready, t, priority)
      BY <1>5, <2>1, <2>2, <2>3, Zenon DEF WakeFirst, MakeReady, IInv, ReadyInv
    <3> QED  BY <1>4, <1>5, <2>2, <3>1, Zenon
  <2>4. CASE state[t] # "SLEEPING"
    BY <1>2, <1>5, <2>1, <2>4, Zenon DEF WakeFirst
  <2> QED  BY <2>3, <2>4, Zenon
<1>6. ASSUME NEW c \in CPUs, NEW sw0 \in BOOLEAN, scheduler_schedule(c, sw0)
      PROVE  Moved(ready, priority, ready') /\ \A t \in Range(ready') : priority'[t] = priority[t]
  <2>1. PICK t, s, l : /\ t = current[c] /\ s = StateAfterSlice(t)
                       /\ l = IF s = "READY" THEN scheduler_add_to_ready_list(ready, t, priority) ELSE ready
    BY Zenon
  <2>2. t # IDLE /\ UNCHANGED priority /\ (ready' = l \/ (l # <<>> /\ ready' = Tail(l)))
    BY <1>6, <2>1, Zenon DEF scheduler_schedule, scheduler_remove_first_ready
  <2>3. t \in Threads /\ t \notin Range(ready)
    BY <2>1, <2>2, Executing, Zenon DEF IInv, ReadyInv
  <2>4. l \in Seq(Threads)
    <3>1. PICK q, p : q = ready /\ p = priority
      BY Zenon
    <3>2. q \in Seq(Threads) /\ t \notin Range(q)
      BY <1>1, <2>3, <3>1, Zenon
    <3>3. s = "READY" => l = scheduler_add_to_ready_list(q, t, p)
      BY <2>1, <3>1, Zenon
    <3>4. s = "READY" => l \in Seq(Threads)
      BY <2>3, <3>2, <3>3, ReadyQueue, Zenon
    <3> QED  BY <1>1, <2>1, <3>4, Zenon
  <2> QED  BY <1>3, <2>1, <2>2, <2>3, <2>4, Zenon
<1>7. ASSUME NEW c \in CPUs, NEW p, ThreadCreate(c, p)
      PROVE  Moved(ready, priority, ready') /\ \A t \in Range(ready') : priority'[t] = priority[t]
  <2>1. PICK x \in Threads : state[x] = "FREE" /\ priority' = [priority EXCEPT ![x] = p]
    BY <1>7, Zenon DEF ThreadCreate
  <2>2. x \notin Range(ready) /\ UNCHANGED ready /\ Range(ready) \subseteq Threads
    BY <1>1, <1>7, <2>1, EmptyIff, Zenon DEF ThreadCreate, lists, IInv, ReadyInv
  <2>3. Moved(ready, priority, ready')
    BY <1>1, <2>2, Zenon DEF Moved
  <2> QED  BY <1>1, <2>1, <2>2, <2>3, Zenon
<1>8. ASSUME NEW c \in CPUs, thread_run(c)
      PROVE  Moved(ready, priority, ready') /\ \A t \in Range(ready') : priority'[t] = priority[t]
  <2>1. PICK x \in Threads : state[x] = "NONREADY" /\ MakeReady(x)
    BY <1>8, Zenon DEF thread_run
  <2>2. UNCHANGED priority /\ x \notin Range(ready)
    BY <1>8, <2>1, Zenon DEF thread_run, IInv, ReadyInv
  <2> QED  BY <1>4, <2>1, <2>2, Zenon DEF MakeReady
<1>9. ASSUME NEW c \in CPUs, scheduler_schedule_idle_end(c)
      PROVE  Moved(ready, priority, ready') /\ \A t \in Range(ready') : priority'[t] = priority[t]
  <2>1. PICK l \in Seq(Threads) : l = ready
    BY <1>1, Zenon
  <2>2. UNCHANGED priority /\ (ready' = l \/ (l # <<>> /\ ready' = Tail(l)))
    BY <1>9, <2>1, Zenon DEF scheduler_schedule_idle_end, scheduler_remove_first_ready
  <2> QED  BY <1>3, <2>1, <2>2, Zenon
<1>10. ASSUME NEW c \in CPUs, sleepq_wake_all_step(c)
       PROVE  Moved(ready, priority, ready') /\ \A t \in Range(ready') : priority'[t] = priority[t]
  <2>1. PICK r \in Resources : r = sleepq_slock.resource
    BY <1>10, SchedulerAssumption DEF sleepq_wake_all_step, IInv, TypeOK, Unlocked
  <2> QED  BY <1>5, <1>10, <2>1, Zenon DEF sleepq_wake_all_step
<1>11. ASSUME NEW c \in CPUs, scheduler_wakeup_expired_sleepers(c) PROVE FALSE
  BY <1>11, Zenon DEF scheduler_wakeup_expired_sleepers, SleeperExpired, IInv, Untimed
<1>12. ASSUME NEW c \in CPUs, \/ scheduler_schedule_idle(c) \/ thread_finish(c)
                              \/ sleepq_wake_all_end(c) \/ thread_sleep_insert(c)
                              \/ thread_switch_return(c)
                              \/ \E r \in Resources : sleepq_add(c, r) \/ sleepq_wake_all_begin(c, r)
       PROVE  UNCHANGED <<ready, priority>>
  BY <1>12, Zenon DEF scheduler_schedule_idle, thread_finish, sleepq_wake_all_end, thread_sleep_insert,
               thread_switch_return, sleepq_add, sleepq_wake_all_begin, tables, lists
<1>13. CASE UNCHANGED vars \/ Tick
  BY <1>2, <1>13, Zenon DEF vars, Tick, tables, lists
<1>14. ASSUME NEW c \in CPUs, NEW r \in Resources, sleepq_wake(c, r)
       PROVE  Moved(ready, priority, ready') /\ \A t \in Range(ready') : priority'[t] = priority[t]
  BY <1>5, <1>14, Zenon DEF sleepq_wake
<1> QED
  BY <1>2, <1>6, <1>7, <1>8, <1>9, <1>10, <1>11, <1>12, <1>13, <1>14, Zenon
     DEF Next, Sched, WakeAllLoop, thread_create, thread_create_with_priority

LEMMA OrderStep ==
    ASSUME RunsEnd, SleepTimes = {}, IInv, HighPriorityFirst, [Next]_vars
    PROVE  IInv' /\ HighPriorityFirst' /\ OrderKept
<1>1. PICK q, p, r : q = ready /\ p = priority /\ r = ready'
  BY Zenon
<1>2. /\ q \in Seq(Threads) /\ IsInjective(q) /\ p \in [Threads -> {"HIGH", "NORMAL"}]
      /\ HighFirst(q, p) /\ Moved(q, p, r)
  BY <1>1, NextMoves, Zenon DEF IInv, TypeOK, ReadyInv, HighPriorityFirst, HighFirst
<1>3. HighFirst(r, p) /\ Kept(q, p, r)
  BY <1>2, MovedOrder, Zenon
<1>4. OrderKept
  BY <1>1, <1>3, Zenon DEF Kept, OrderKept, Listed
<1>5. \A i \in DOMAIN ready' : priority'[ready'[i]] = priority[ready'[i]]
  BY NextMoves, Zenon DEF Range
<1>6. HighPriorityFirst'
  BY <1>1, <1>3, <1>5, Zenon DEF HighFirst, HighPriorityFirst
<1> QED  BY <1>4, <1>6, NextInv, Zenon

-----------------------------------------------------------------------------
(* The least element of a set of numbers ends the leading HIGH threads,     *)
(* and the steps above make the theorems.                                  *)

INSTANCE WellFoundedInduction

\* A set of natural numbers has a least element.
LEMMA Smallest ==
    ASSUME NEW T, T \subseteq Nat, T # {}
    PROVE  \E x \in T : \A y \in T : x <= y
<1> DEFINE R == OpToRel(<, Nat)
<1>1. IsWellFoundedOn(R, Nat)
  BY NatLessThanWellFounded, Zenon
<1>2. \A x, y \in Nat : y < x => <<y, x>> \in R
  BY Zenon DEF OpToRel
<1> HIDE DEF R
<1>3. PICK x \in T : \A y \in T : ~(<<y, x>> \in R)
  BY <1>1, WFMin, Zenon
<1>4. ASSUME NEW y \in T PROVE x <= y
  <2>1. x \in Nat /\ y \in Nat /\ ~(y < x)
    BY <1>2, <1>3, Zenon
  <2> QED  BY <2>1
<1> QED  BY <1>4, Zenon

\* The leading HIGH threads of a list end somewhere.
LEMMA HighRunEnds == RunsEnd
<1> SUFFICES ASSUME NEW q \in Seq(Threads), NEW prio PROVE RunEnds(q, prio)
  BY Zenon DEF RunsEnd
<1> DEFINE T == {i \in 1..Len(q) : prio[q[i]] # "HIGH"}
           Ends(k) == /\ \A i \in 1..k : prio[q[i]] = "HIGH"
                      /\ k < Len(q) => prio[q[k + 1]] # "HIGH"
<1>1. Len(q) \in Nat
  OBVIOUS
<1>2. \E k \in 0..Len(q) : Ends(k)
  <2>1. CASE T = {}
    <3>1. Ends(Len(q)) /\ Len(q) \in 0..Len(q)
      BY <1>1, <2>1
    <3> QED  BY <3>1, Zenon
  <2>2. CASE T # {}
    <3>1. PICK x \in T : \A y \in T : x <= y
      <4>1. T \subseteq Nat
        BY <1>1
      <4> HIDE DEF T
      <4> QED  BY <2>2, <4>1, Smallest, Zenon
    <3>2. x - 1 \in 0..Len(q) /\ (x - 1) + 1 = x /\ prio[q[x]] # "HIGH"
      BY <1>1, <3>1
    <3>3. \A i \in 1..(x - 1) : i \in 1..Len(q) /\ ~(x <= i)
      BY <1>1, <3>1
    <3>4. Ends(x - 1)
      BY <3>1, <3>2, <3>3, Zenon
    <3> QED  BY <3>2, <3>4, Zenon
  <2> QED  BY <2>1, <2>2, Zenon
<1>3. HighRun(q, prio) = CHOOSE k \in 0..Len(q) : Ends(k)
  BY Zenon DEF HighRun
<1> HIDE DEF Ends
<1>4. HighRun(q, prio) \in 0..Len(q) /\ Ends(HighRun(q, prio))
  BY <1>2, <1>3, Zenon
<1> QED  BY <1>4, Zenon DEF Ends, RunEnds

\* On any number of CPUs, with any number of threads and resources, the ready list
\* holds exactly the READY threads, no thread is on two lists or on two CPUs, and
\* a SLEEPING thread can be found by a wake-up, whatever the order of sleepq_add,
\* timer interrupts and wake-ups; as long as nobody calls thread_sleep.
THEOREM ListsStayExact ==
    ASSUME SleepTimes = {}
    PROVE  Spec => []ListsExact
<1>1. IInv /\ [Next]_vars => IInv'
  BY NextInv, HighRunEnds, Zenon
<1>2. IInv => ListsExact
  BY ExactLists, Zenon
<1> QED  BY <1>1, <1>2, InitInv, PTL DEF Spec

\* A thread that called sleepq_add and thread_switch goes on only after a wake-up
\* took it off the queue, and waiters leave in the order they came, on any number
\* of CPUs; as long as nobody calls thread_sleep.
THEOREM SchedulerIsSleepQueue ==
    ASSUME SleepTimes = {}
    PROVE  Spec => ImplementsSleepQueue
<1>1. IInv /\ [Next]_vars => IInv'
  BY NextInv, HighRunEnds, Zenon
<1>2. IInv /\ [Next]_vars => [SQ!Next]_<<sleepq, Blocked>>
  BY NextImplements, Zenon
<1> QED
  BY <1>1, <1>2, InitInv, InitSleepQueue, PTL
     DEF Spec, ImplementsSleepQueue, SQ!Spec, Blocked

\* On any number of CPUs HIGH threads stay in front of the ready list, threads of
\* one priority keep their order until one runs, and a thread that becomes READY
\* goes behind those of its priority; as long as nobody calls thread_sleep.
THEOREM ReadyListInOrder ==
    ASSUME SleepTimes = {}
    PROVE  Spec => ReadyOrder
<1> DEFINE I == IInv /\ HighPriorityFirst
<1>1. Init => I
  <2> SUFFICES ASSUME Init PROVE I
    BY Zenon
  <2>1. PICK s \in Threads : ready = <<s>>
    BY Zenon DEF Init
  <2> QED  BY <2>1, InitInv DEF HighPriorityFirst
<1>2. I /\ [Next]_vars => I' /\ [OrderKept]_vars
  BY OrderStep, HighRunEnds, Zenon
<1> QED  BY <1>1, <1>2, PTL DEF Spec, ReadyOrder
=============================================================================
