--------------------------- MODULE LockCond_proofs ---------------------------
(***************************************************************************)
(* Proofs that locks exclude and that their bookkeeping is exact, for any  *)
(* number of threads, locks and condition variables.                       *)
(***************************************************************************)
EXTENDS LockCond, QueueLemmas

\* What the fields of one lock say about the threads.
LockInv(l) ==
    /\ \A t \in Threads : locked_id[l] = t <=> held[t][l] > 0
    /\ \A t \in Threads : locked_id[l] = t => nested_locking_count[l] = held[t][l]
    /\ locked_id[l] \notin Threads => nested_locking_count[l] = 0
    /\ waiting_thread_count[l] = Len(queue[l]) + OnTheWay(l)
    /\ locked_id[l] = RESERVED <=> Granted(l) # {}
    /\ \A t, u \in Granted(l) : t = u
    /\ locked_id[l] = NO_THREAD => queue[l] = <<>>
    /\ ~is_used[l] => locked_id[l] = NO_THREAD
    /\ IsInjective(queue[l])
    /\ \A t \in Range(queue[l]) : pc[t] = "lock_wait" /\ lock[t] = l

\* A thread inside lock_cond.c has a lock to come back to.
ThreadInv(t) == pc[t] # "out" => lock[t] \in Locks /\ is_used[lock[t]]

IInv ==
    /\ TypeOK
    /\ \A l \in Locks : LockInv(l)
    /\ \A t \in Threads : ThreadInv(t)
    /\ CondWaitersCounted
-----------------------------------------------------------------------------
\* Locks and conditions have different addresses, and none is Nowhere.
LEMMA Addresses ==
    /\ Locks \cap Conds = {} /\ Nowhere \notin Locks
    /\ \A l \in Locks : l \notin Conds
  BY LockCondAssumption DEF Locks, Conds, Nowhere

LEMMA InitInv == Init => IInv
<1> SUFFICES ASSUME Init PROVE IInv
  BY Zenon
<1>1. TypeOK
  BY EmptyQueue, Zenon DEF Init, TypeOK, SQ!Init, ProgramPoints
<1>2. ASSUME NEW l \in Locks PROVE LockInv(l)
  BY EmptyQueue, LockCondAssumption, Addresses DEF Init, LockInv, Granted, OnTheWay, SQ!Init
<1>3. \A t \in Threads : ThreadInv(t)
  BY Zenon DEF Init, ThreadInv
<1>4. CondWaitersCounted
  BY EmptyQueue, Addresses, Zenon DEF Init, CondWaitersCounted, SQ!Init
<1> QED  BY <1>1, <1>2, <1>3, <1>4, Zenon DEF IInv

\* A step of thread t that leaves lock k alone: t did not wait for k and does
\* not wait for it afterwards.
LEMMA OtherLock ==
    ASSUME TypeOK, NEW k \in Locks, LockInv(k), NEW t \in Threads,
           ~(pc[t] = "lock_wait" /\ lock[t] = k),
           ~(pc'[t] = "lock_wait" /\ lock'[t] = k),
           \A u \in Threads : u # t => pc'[u] = pc[u] /\ lock'[u] = lock[u],
           \A u \in Threads : held'[u][k] = held[u][k],
           queue'[k] = queue[k], is_used'[k] = is_used[k],
           locked_id'[k] = locked_id[k],
           nested_locking_count'[k] = nested_locking_count[k],
           waiting_thread_count'[k] = waiting_thread_count[k]
    PROVE  LockInv(k)'
<1>1. Range(queue[k]) \subseteq Threads
  BY EmptyIff, Zenon DEF TypeOK
<1>2. Granted(k)' = Granted(k)
  BY Zenon DEF Granted
<1>3. OnTheWay(k)' = OnTheWay(k)
  BY Zenon DEF OnTheWay
<1>4. \A u \in Range(queue[k]) : pc'[u] = "lock_wait" /\ lock'[u] = k
  BY <1>1, Zenon DEF LockInv
<1> QED  BY <1>2, <1>3, <1>4 DEF LockInv

\* lock_acquire up to thread_switch, for a thread that is in no queue.
LEMMA LockStep ==
    ASSUME IInv, NEW t \in Threads, NEW l \in Locks, is_used[l],
           pc[t] \in {"out", "cond_relock"}, Lock(t, l), UNCHANGED is_used
    PROVE  IInv'
<1>0. TypeOK /\ LockInv(l) /\ t \notin Range(queue[l])
  BY Zenon DEF IInv, LockInv
<1>q. queue[l] \in Seq(Threads) /\ Len(queue[l]) \in Nat
  BY <1>0, EmptyIff, Zenon DEF TypeOK
<1>1. CASE /\ locked_id[l] \in {NO_THREAD, t}
           /\ locked_id' = [locked_id EXCEPT ![l] = t]
           /\ nested_locking_count' = [nested_locking_count EXCEPT ![l] = @ + 1]
           /\ Enter(t, l) /\ Goto(t, "out", Nowhere)
           /\ UNCHANGED <<waiting_thread_count, queue, blocked>>
  <2>1. TypeOK'
    BY <1>0, <1>1 DEF TypeOK, ProgramPoints, Enter, Goto
  <2>2. ASSUME NEW k \in Locks PROVE LockInv(k)'
    <3>1. LockInv(k) /\ t \notin Granted(k) /\ t \notin Range(queue[k])
      BY Zenon DEF IInv, LockInv, Granted
    <3>2. Granted(k)' = Granted(k)
      BY <1>0, <1>1, <3>1, Zenon DEF Granted, TypeOK, Goto
    <3>3. CASE k # l
      BY <1>0, <1>1, <3>1, <3>2, <3>3, SMTT(60) DEF LockInv, OnTheWay, TypeOK, Enter, Goto
    <3>4. CASE k = l
      BY <1>0, <1>1, <3>1, <3>2, <3>4, LockCondAssumption DEF LockInv, OnTheWay, TypeOK, Enter, Goto
    <3> QED  BY <3>3, <3>4, Zenon
  <2>3. \A u \in Threads : ThreadInv(u)'
    BY <1>0, <1>1 DEF IInv, ThreadInv, Goto, TypeOK
  <2>4. CondWaitersCounted'
    BY <1>1, Zenon DEF IInv, CondWaitersCounted
  <2> QED  BY <2>1, <2>2, <2>3, <2>4, Zenon DEF IInv
<1>2. CASE /\ locked_id[l] \notin {NO_THREAD, t}
           /\ waiting_thread_count' = [waiting_thread_count EXCEPT ![l] = @ + 1]
           /\ SQ!Sleep(t, l)
           /\ Goto(t, "lock_wait", l)
           /\ UNCHANGED <<locked_id, nested_locking_count, held>>
  <2>1. TypeOK'
    BY <1>0, <1>q, <1>2 DEF TypeOK, ProgramPoints, Goto, SQ!Sleep
  <2>2. ASSUME NEW k \in Locks PROVE LockInv(k)'
    <3>1. LockInv(k) /\ t \notin Granted(k) /\ t \notin Range(queue[k])
      BY Zenon DEF IInv, LockInv, Granted
    <3>2. k # l => queue'[k] = queue[k] /\ waiting_thread_count'[k] = waiting_thread_count[k]
      BY <1>0, <1>2, Zenon DEF TypeOK, SQ!Sleep
    <3>3. /\ queue'[l] \in Seq(Threads)
          /\ Len(queue'[l]) = Len(queue[l]) + 1
          /\ Range(queue'[l]) = Range(queue[l]) \cup {t}
          /\ IsInjective(queue'[l])
      <4>1. queue'[l] = Append(queue[l], t)
        BY <1>0, <1>2, Zenon DEF TypeOK, SQ!Sleep
      <4>2. IsInjective(queue[l]) /\ t \notin Range(queue[l])
        BY <1>0, Zenon DEF LockInv
      <4>3. queue[l] \in Seq(Threads)
        BY <1>q, Zenon
      <4>4. Joined(Threads, queue[l], t, queue'[l])
        BY <4>1, <4>3, AfterAppend, Zenon
      <4> QED  BY <4>2, <4>4, Zenon DEF Joined
    <3>4. Granted(k)' = Granted(k)
      BY <1>0, <1>q, <1>2, <3>1, <3>2, <3>3, Zenon DEF Granted, TypeOK, Goto
    <3>5. /\ IsInjective(queue'[k])
          /\ \A u \in Range(queue'[k]) : pc'[u] = "lock_wait" /\ lock'[u] = k
      <4>1. Range(queue[k]) \subseteq Threads
        BY <1>0, EmptyIff, Zenon DEF TypeOK
      <4>2. /\ IsInjective(queue[k])
            /\ \A u \in Range(queue[k]) : pc[u] = "lock_wait" /\ lock[u] = k
        BY <3>1, Zenon DEF LockInv
      <4>3. CASE k # l
        BY <1>0, <1>2, <3>1, <3>2, <4>1, <4>2, <4>3, Zenon DEF TypeOK, Goto
      <4>4. CASE k = l
        BY <1>0, <1>q, <1>2, <3>1, <3>3, <4>1, <4>2, <4>4 DEF TypeOK, Goto
      <4> QED  BY <4>3, <4>4, Zenon
    <3>6. locked_id[k] = NO_THREAD => k # l
      BY <1>2, Zenon
    <3>7. waiting_thread_count'[k] = Len(queue'[k]) + OnTheWay(k)'
      <4>0. OnTheWay(k) \in Nat /\ OnTheWay(k)' = OnTheWay(k)
        BY <1>2, Zenon DEF OnTheWay
      <4>1. waiting_thread_count[k] = Len(queue[k]) + OnTheWay(k)
        BY <3>1, Zenon DEF LockInv
      <4>2. CASE k # l
        BY <3>2, <4>0, <4>1, <4>2, Zenon
      <4>3. CASE k = l
        <5>1. waiting_thread_count'[l] = waiting_thread_count[l] + 1
          BY <1>0, <1>2, Zenon DEF TypeOK
        <5>2. Len(queue'[l]) = Len(queue[l]) + 1
          BY <3>3, Zenon
        <5> QED  BY <1>q, <4>0, <4>1, <4>3, <5>1, <5>2
      <4> QED  BY <4>2, <4>3, Zenon
    <3> QED  BY <1>2, <3>1, <3>2, <3>4, <3>5, <3>6, <3>7 DEF LockInv
  <2>3. \A u \in Threads : ThreadInv(u)'
    BY <1>0, <1>2, Zenon DEF IInv, ThreadInv, Goto, TypeOK
  <2>4. CondWaitersCounted'
    BY <1>0, <1>2, Addresses, Zenon DEF IInv, CondWaitersCounted, SQ!Sleep, TypeOK
  <2> QED  BY <2>1, <2>2, <2>3, <2>4, Zenon DEF IInv
<1>3. locked_id[l] = NO_THREAD => nested_locking_count[l] = 0
  BY <1>0, LockCondAssumption, Zenon DEF LockInv
<1>4. CASE locked_id[l] = NO_THREAD
  BY <1>0, <1>1, <1>3, <1>4, LockCondAssumption DEF Lock, TypeOK
<1>5. CASE locked_id[l] = t
  <2>1. locked_id' = [locked_id EXCEPT ![l] = t]
    BY <1>0, <1>5, LockCondAssumption, Zenon DEF Lock, TypeOK
  <2> QED  BY <1>1, <1>5, <2>1, LockCondAssumption, Zenon DEF Lock
<1>6. CASE locked_id[l] \notin {NO_THREAD, t}
  BY <1>2, <1>6, Zenon DEF Lock
<1> QED  BY <1>4, <1>5, <1>6, Zenon

\* lock_release by the owner, alone or inside condition_wait; q is the sleep
\* queue at that moment, which differs from queue for a condition at most.
LEMMA ReleaseStep ==
    ASSUME IInv, NEW t \in Threads, NEW l \in Locks, NEW q,
           pc[t] = "out", held[t][l] > 0,
           q \in [Locks \cup Conds -> Seq(Threads)],
           \A k \in Locks : q[k] = queue[k],
           Release(l, q), Leave(t, l), UNCHANGED is_used,
           \A k \in Locks : waiting_thread_count'[k] = waiting_thread_count[k],
           pc'[t] # "lock_wait",
           \A u \in Threads : u # t => pc'[u] = pc[u] /\ lock'[u] = lock[u]
    PROVE  /\ locked_id' \in [Locks -> Threads \cup {NO_THREAD, RESERVED}]
           /\ nested_locking_count' \in [Locks -> Nat]
           /\ held' \in [Threads -> [Locks -> Nat]]
           /\ queue' \in [Locks \cup Conds -> Seq(Threads)]
           /\ \A c \in Conds : queue'[c] = q[c]
           /\ \A k \in Locks : LockInv(k)'
<1>0. TypeOK /\ LockInv(l)
  BY Zenon DEF IInv
<1>1. locked_id[l] = t /\ nested_locking_count[l] = held[t][l]
  BY <1>0, Zenon DEF LockInv
<1>2. /\ waiting_thread_count[l] = Len(queue[l])
      /\ queue[l] \in Seq(Threads) /\ Len(queue[l]) \in Nat
      /\ queue[l] = <<>> <=> Len(queue[l]) = 0
      /\ Granted(l) = {}
  <2>1. OnTheWay(l) = 0
    BY <1>1, LockCondAssumption, Zenon DEF OnTheWay
  <2>2. queue[l] \in Seq(Threads)
    BY <1>0, Zenon DEF TypeOK
  <2>3. Len(queue[l]) \in Nat /\ (queue[l] = <<>> <=> Len(queue[l]) = 0)
    BY <2>2, EmptyIff
  <2>4. waiting_thread_count[l] = Len(queue[l]) + OnTheWay(l) /\ Granted(l) = {}
    BY <1>0, <1>1, LockCondAssumption DEF LockInv
  <2> QED  BY <2>1, <2>2, <2>3, <2>4
<1>o. \A u \in Threads : u # t => held[u][l] = 0
  <2>1. \A u \in Threads : u # t => held[u][l] \in Nat /\ ~(held[u][l] > 0)
    BY <1>0, <1>1 DEF LockInv, TypeOK
  <2> QED  BY <2>1
<1>h. /\ held' \in [Threads -> [Locks -> Nat]]
      /\ held'[t][l] = held[t][l] - 1
      /\ \A u \in Threads, k \in Locks : u # t \/ k # l => held'[u][k] = held[u][k]
  BY <1>0 DEF TypeOK, Leave
<1>3. CASE nested_locking_count[l] > 1
  <2>1. /\ nested_locking_count' = [nested_locking_count EXCEPT ![l] = @ - 1]
        /\ queue' = q /\ locked_id' = locked_id
    BY <1>3, Zenon DEF Release
  <2>2. ASSUME NEW k \in Locks PROVE LockInv(k)'
    <3>1. LockInv(k) /\ t \notin Granted(k) /\ t \notin Range(queue[k])
      BY Zenon DEF IInv, LockInv, Granted
    <3>2. CASE k # l
      BY <1>0, <1>h, <2>1, <3>1, <3>2, OtherLock, ZenonT(60) DEF TypeOK
    <3>3. CASE k = l
      <4>1. queue'[l] = queue[l] /\ Granted(l)' = Granted(l) /\ OnTheWay(l)' = OnTheWay(l)
        BY <1>0, <2>1, <3>1, <3>3 DEF Granted, TypeOK, OnTheWay
      <4>2. Range(queue[l]) \subseteq Threads
        BY <1>0, EmptyIff, Zenon DEF TypeOK
      <4>3. \A u \in Range(queue[l]) : pc'[u] = "lock_wait" /\ lock'[u] = l
        BY <1>0, <4>2, Zenon DEF LockInv
      <4>4. nested_locking_count'[l] = held'[t][l] /\ held'[t][l] > 0
        BY <1>0, <1>1, <1>h, <1>3, <2>1 DEF TypeOK
      <4>5. \A u \in Threads : u # t => held'[u][l] = held[u][l]
        BY <1>h, Zenon
      <4>6. LockInv(l)'
        BY <1>0, <1>1, <2>1, <4>1, <4>3, <4>4, <4>5, SMTT(60) DEF LockInv
      <4> QED  BY <3>3, <4>6, Zenon
    <3> QED  BY <3>2, <3>3, Zenon
  <2> QED  BY <1>0, <1>h, <1>1, <1>3, <2>1, <2>2 DEF TypeOK
<1>4. CASE ~(nested_locking_count[l] > 1) /\ waiting_thread_count[l] > 0
  <2>0. queue[l] # <<>> /\ q[l] = queue[l]
    BY <1>2, <1>4
  <2>1. /\ nested_locking_count' = [nested_locking_count EXCEPT ![l] = 0]
        /\ queue' = [q EXCEPT ![l] = Tail(q[l])]
        /\ locked_id' = [locked_id EXCEPT ![l] = RESERVED]
    BY <1>4, <2>0, Zenon DEF Release
  <2>2. Left(Threads, queue[l], queue'[l])
    <3>1. queue'[l] = Tail(queue[l])
      BY <2>0, <2>1, Zenon
    <3> QED  BY <1>2, <2>0, <3>1, AfterTail, Zenon
  <2>3. held'[t][l] = 0
    BY <1>0, <1>1, <1>h, <1>4 DEF TypeOK
  <2>4. ASSUME NEW k \in Locks, k # l PROVE LockInv(k)'
    <3>1. LockInv(k) /\ t \notin Granted(k) /\ t \notin Range(queue[k])
      BY Zenon DEF IInv, LockInv, Granted
    <3> QED  BY <1>0, <1>h, <2>1, <2>4, <3>1, OtherLock, ZenonT(60) DEF TypeOK
  <2>5. LockInv(l)'
    <3>1. IsInjective(queue[l]) /\ Range(queue[l]) \subseteq Threads
      BY <1>0, EmptyIff DEF TypeOK, LockInv
    <3>2. IsInjective(queue'[l]) /\ Range(queue'[l]) = Range(queue[l]) \ {Head(queue[l])}
      BY <2>2, <3>1, Zenon DEF Left
    <3>3. \A u \in Range(queue[l]) : pc[u] = "lock_wait" /\ lock[u] = l /\ u # t
      BY <1>0, Zenon DEF LockInv
    <3>4. \A u \in Range(queue[l]) : pc'[u] = "lock_wait" /\ lock'[u] = l
      BY <3>1, <3>3, Zenon
    <3>5. Head(queue[l]) \in Range(queue[l])
      BY <2>2, Zenon DEF Left
    <3>6. Granted(l)' = {Head(queue[l])}
      BY <1>2, <3>1, <3>2, <3>4, <3>5, SMTT(60) DEF Granted
    <3>7. locked_id'[l] = RESERVED /\ nested_locking_count'[l] = 0
      BY <1>0, <2>1, Zenon DEF TypeOK
    <3>8. waiting_thread_count'[l] = Len(queue'[l]) + OnTheWay(l)'
      <4>1. OnTheWay(l)' = 1
        BY <3>7, Zenon DEF OnTheWay
      <4>2. Len(queue'[l]) = Len(queue[l]) - 1
        BY <2>2, Zenon DEF Left
      <4> QED  BY <1>2, <4>1, <4>2
    <3>9. \A u \in Threads : held'[u][l] = 0
      BY <1>o, <1>h, <2>3, Zenon
    <3>10. is_used'[l]
      BY <1>0, <1>1, LockCondAssumption, SMTT(60) DEF LockInv, TypeOK
    <3> QED  BY <3>2, <3>4, <3>6, <3>7, <3>8, <3>9, <3>10, LockCondAssumption DEF LockInv
  <2>6. queue' \in [Locks \cup Conds -> Seq(Threads)] /\ \A c \in Conds : queue'[c] = q[c]
    BY <2>0, <2>1, <2>2, Addresses, Zenon DEF Left
  <2> QED  BY <1>0, <1>h, <2>1, <2>4, <2>5, <2>6, Zenon DEF TypeOK
<1>5. CASE ~(nested_locking_count[l] > 1) /\ ~(waiting_thread_count[l] > 0)
  <2>0. queue[l] = <<>> /\ q[l] = queue[l]
    BY <1>2, <1>5
  <2>1. /\ nested_locking_count' = [nested_locking_count EXCEPT ![l] = 0]
        /\ queue' = q
        /\ locked_id' = [locked_id EXCEPT ![l] = NO_THREAD]
    BY <1>5, Zenon DEF Release
  <2>2. held'[t][l] = 0
    BY <1>0, <1>1, <1>h, <1>5, SMTT(60) DEF TypeOK
  <2>3. ASSUME NEW k \in Locks PROVE LockInv(k)'
    <3>1. LockInv(k) /\ t \notin Granted(k) /\ t \notin Range(queue[k])
      BY Zenon DEF IInv, LockInv, Granted
    <3>2. queue'[k] = queue[k] /\ Granted(k)' = Granted(k)
      BY <1>0, <2>1, <3>1 DEF Granted, TypeOK
    <3>3. OnTheWay(k)' = OnTheWay(k)
      BY <1>0, <1>1, <2>1, LockCondAssumption DEF TypeOK, OnTheWay
    <3>4. Range(queue[k]) \subseteq Threads
      BY <1>0, EmptyIff, Zenon DEF TypeOK
    <3>5. CASE k # l
      BY <1>0, <1>h, <2>1, <3>1, <3>5, OtherLock, ZenonT(60) DEF TypeOK
    <3>6. CASE k = l
      <4>1. \A u \in Threads : held'[u][l] = 0
        BY <1>o, <1>h, <2>2, Zenon
      <4>2. locked_id'[l] = NO_THREAD /\ nested_locking_count'[l] = 0
        BY <1>0, <2>1, Zenon DEF TypeOK
      <4> QED  BY <1>1, <2>0, <3>1, <3>2, <3>3, <3>4, <3>6, <4>1, <4>2, LockCondAssumption
               DEF LockInv
    <3> QED  BY <3>5, <3>6, Zenon
  <2> QED  BY <1>0, <1>h, <2>1, <2>3, Zenon DEF TypeOK
<1> QED  BY <1>3, <1>4, <1>5, Zenon

\* A waiter that was woken takes the lock that was reserved for it.
LEMMA WokenStep ==
    ASSUME IInv, NEW t \in Threads, lock_acquire_woken(t)
    PROVE  IInv'
<1>l. PICK l \in Locks : l = lock[t]
  BY Zenon DEF IInv, ThreadInv, lock_acquire_woken
<1>0. TypeOK /\ LockInv(l) /\ is_used[l]
  BY <1>l, Zenon DEF IInv, ThreadInv, lock_acquire_woken
<1>1. t \notin Range(queue[l]) /\ t \in Granted(l) /\ queue' = queue
  BY <1>l, Zenon DEF lock_acquire_woken, SQ!Return, SQ!Range, Range, Granted
<1>2. /\ locked_id[l] = RESERVED /\ Granted(l) = {t}
      /\ waiting_thread_count[l] = Len(queue[l]) + 1
      /\ \A u \in Threads : held[u][l] = 0
  <2>1. locked_id[l] = RESERVED /\ Granted(l) = {t}
    BY <1>0, <1>1 DEF LockInv
  <2>2. waiting_thread_count[l] = Len(queue[l]) + 1
    BY <1>0, <2>1, Zenon DEF LockInv, OnTheWay
  <2>3. \A u \in Threads : held[u][l] \in Nat /\ ~(held[u][l] > 0)
    BY <1>0, <2>1, LockCondAssumption DEF LockInv, TypeOK
  <2> QED  BY <2>1, <2>2, <2>3, SMTT(60)
<1>3. Len(queue[l]) \in Nat /\ Range(queue[l]) \subseteq Threads
  BY <1>0, EmptyIff, Zenon DEF TypeOK
<1>4. /\ waiting_thread_count' = [waiting_thread_count EXCEPT ![l] = @ - 1]
      /\ locked_id' = [locked_id EXCEPT ![l] = t]
      /\ nested_locking_count' = [nested_locking_count EXCEPT ![l] = 1]
      /\ held' = [held EXCEPT ![t][l] = @ + 1]
      /\ pc' = [pc EXCEPT ![t] = "out"] /\ lock' = [lock EXCEPT ![t] = Nowhere]
      /\ is_used' = is_used /\ blocked' = blocked \ {t}
  BY <1>l, Zenon DEF lock_acquire_woken, Enter, Goto, SQ!Return
<1>5. TypeOK'
  BY <1>0, <1>1, <1>2, <1>3, <1>4, SMTT(60) DEF TypeOK, ProgramPoints
<1>6. ASSUME NEW k \in Locks, k # l PROVE LockInv(k)'
  <2>1. LockInv(k)
    BY Zenon DEF IInv
  <2> QED  BY <1>l, <1>0, <1>1, <1>4, <1>6, <2>1, OtherLock, Zenon DEF TypeOK
<1>7. LockInv(l)'
  <2>1. /\ locked_id'[l] = t /\ nested_locking_count'[l] = 1
        /\ held'[t][l] = 1 /\ \A u \in Threads : u # t => held'[u][l] = 0
        /\ waiting_thread_count'[l] = Len(queue[l])
    BY <1>0, <1>2, <1>3, <1>4 DEF TypeOK
  <2>2. Granted(l)' = {}
    <3>1. \A u \in Threads : u # t => pc'[u] = pc[u] /\ lock'[u] = lock[u] /\ u \notin Granted(l)
      BY <1>0, <1>2, <1>4, Zenon DEF TypeOK
    <3>2. pc'[t] = "out"
      BY <1>0, <1>4, Zenon DEF TypeOK
    <3> QED  BY <1>1, <3>1, <3>2, Zenon DEF Granted
  <2>3. OnTheWay(l)' = 0
    BY <2>1, LockCondAssumption, Zenon DEF OnTheWay
  <2>4. \A u \in Range(queue[l]) : pc'[u] = "lock_wait" /\ lock'[u] = l
    BY <1>0, <1>1, <1>3, <1>4 DEF LockInv, TypeOK
  <2>5. waiting_thread_count'[l] = Len(queue'[l]) + OnTheWay(l)'
    BY <1>1, <1>3, <2>1, <2>3, SMTT(60)
  <2> QED  BY <1>0, <1>1, <1>4, <2>1, <2>2, <2>4, <2>5, LockCondAssumption DEF LockInv
<1>8. \A u \in Threads : ThreadInv(u)'
  BY <1>0, <1>4, Zenon DEF IInv, ThreadInv, TypeOK
<1>9. CondWaitersCounted'
  BY <1>0, <1>1, <1>4, Addresses, Zenon DEF IInv, CondWaitersCounted, TypeOK
<1> QED  BY <1>5, <1>6, <1>7, <1>8, <1>9, Zenon DEF IInv

\* A step of thread t after which t is in a place that is not lock_wait, and
\* which changes no lock.
LEMMA QuietStep ==
    ASSUME IInv, NEW t \in Threads, pc[t] # "lock_wait",
           TypeOK', \A u \in Threads : ThreadInv(u)', CondWaitersCounted',
           pc'[t] # "lock_wait",
           \A u \in Threads : u # t => pc'[u] = pc[u] /\ lock'[u] = lock[u],
           UNCHANGED <<locked_id, nested_locking_count, held>>,
           \A k \in Locks : /\ queue'[k] = queue[k] /\ is_used'[k] = is_used[k]
                            /\ waiting_thread_count'[k] = waiting_thread_count[k]
    PROVE  IInv'
<1>1. ASSUME NEW k \in Locks PROVE LockInv(k)'
  BY OtherLock, Zenon DEF IInv
<1> QED  BY <1>1, Zenon DEF IInv

\* Creating an entry changes only whether it is in use.
LEMMA CreateStep ==
    ASSUME IInv, NEW t \in Threads, lock_create(t) \/ condition_create(t)
    PROVE  IInv'
<1>1. TypeOK /\ UNCHANGED <<lockvars, queue, blocked, pc, lock, held>>
  BY Zenon DEF IInv, lock_create, condition_create, Create
<1>2. /\ is_used' \in [Locks \cup Conds -> BOOLEAN]
      /\ \A x \in Locks \cup Conds : is_used[x] => is_used'[x]
  BY <1>1, Zenon DEF lock_create, condition_create, Create, TypeOK
<1>3. TypeOK' /\ CondWaitersCounted'
  BY <1>1, <1>2, Zenon DEF IInv, TypeOK, CondWaitersCounted, lockvars
<1>4. \A l \in Locks : LockInv(l)'
  <2>1. \A l \in Locks : Granted(l)' = Granted(l) /\ OnTheWay(l)' = OnTheWay(l)
    BY <1>1, Zenon DEF Granted, OnTheWay, lockvars
  <2> QED  BY <1>1, <1>2, <2>1 DEF IInv, LockInv, lockvars
<1>5. \A u \in Threads : ThreadInv(u)'
  BY <1>1, <1>2, Zenon DEF IInv, ThreadInv
<1> QED  BY <1>3, <1>4, <1>5, Zenon DEF IInv

\* A lock that nobody has or waits for is open, so it may be destroyed.
LEMMA DestroyStep ==
    ASSUME IInv, NEW t \in Threads,
           \/ \E l \in Locks : lock_destroy(t, l)
           \/ \E c \in Conds : condition_destroy(t, c)
    PROVE  IInv'
<1>1. TypeOK /\ UNCHANGED <<lockvars, queue, blocked, pc, lock, held>>
  BY Zenon DEF IInv, lock_destroy, condition_destroy
<1>2. TypeOK' /\ CondWaitersCounted'
  BY <1>1, Zenon DEF IInv, TypeOK, CondWaitersCounted, lockvars, lock_destroy, condition_destroy
<1>3. ASSUME NEW l \in Locks, is_used'[l] # is_used[l]
      PROVE  locked_id[l] = NO_THREAD /\ \A u \in Threads : lock[u] # l
  <2>1. lock_destroy(t, l)
    BY <1>1, <1>3, Addresses, ZenonT(60) DEF lock_destroy, condition_destroy, TypeOK
  <2>2. \A u \in Threads : held[u][l] = 0 /\ lock[u] # l
    BY <2>1, Zenon DEF lock_destroy
  <2>3. locked_id[l] \notin Threads /\ locked_id[l] # RESERVED
    BY <2>2, SMTT(60) DEF IInv, LockInv, Granted
  <2> QED  BY <1>1, <2>2, <2>3, Zenon DEF TypeOK
<1>4. \A l \in Locks : LockInv(l)'
  <2>1. \A l \in Locks : Granted(l)' = Granted(l) /\ OnTheWay(l)' = OnTheWay(l)
    BY <1>1, Zenon DEF Granted, OnTheWay, lockvars
  <2> QED  BY <1>1, <1>3, <2>1, SMTT(60) DEF IInv, LockInv, lockvars
<1>5. \A u \in Threads : ThreadInv(u)'
  BY <1>1, <1>3, Zenon DEF IInv, ThreadInv
<1> QED  BY <1>2, <1>4, <1>5, Zenon DEF IInv

\* Waking the waiters of a condition touches no lock.
LEMMA SignalStep ==
    ASSUME IInv, NEW t \in Threads, NEW c \in Conds,
           condition_signal(t, c) \/ condition_broadcast(t, c)
    PROVE  IInv'
<1>1. /\ TypeOK /\ pc[t] = "out" /\ waiting_thread_count[c] > 0
      /\ waiting_thread_count[c] = Len(queue[c]) /\ queue[c] \in Seq(Threads)
      /\ UNCHANGED <<is_used, locked_id, nested_locking_count, pc, lock, held>>
  BY Zenon DEF IInv, CondWaitersCounted, condition_signal, condition_broadcast, TypeOK
<1>2. queue[c] # <<>>
  BY <1>1, EmptyIff
<1>3. Left(Threads, queue[c], Tail(queue[c]))
  BY <1>1, <1>2, AfterTail, Zenon
<1>4. /\ Tail(queue[c]) \in Seq(Threads)
      /\ Len(Tail(queue[c])) = waiting_thread_count[c] - 1
  BY <1>1, <1>3, Zenon DEF Left
<1>5. CASE condition_signal(t, c)
  <2>1. /\ waiting_thread_count' = [waiting_thread_count EXCEPT ![c] = @ - 1]
        /\ queue' = [queue EXCEPT ![c] = Tail(@)] /\ blocked' = blocked
    BY <1>2, <1>5, Zenon DEF condition_signal, SQ!Wake
  <2>2. TypeOK'
    BY <1>1, <1>4, <2>1 DEF TypeOK
  <2>3. CondWaitersCounted'
    <3>1. ASSUME NEW d \in Conds PROVE waiting_thread_count'[d] = Len(queue'[d])
      <4>1. CASE d = c
        <5>1. queue'[c] = Tail(queue[c]) /\ waiting_thread_count'[c] = waiting_thread_count[c] - 1
          BY <1>1, <2>1, Zenon DEF TypeOK
        <5> QED  BY <1>4, <4>1, <5>1, Zenon
      <4>2. CASE d # c
        BY <1>1, <2>1, <4>2, Zenon DEF IInv, CondWaitersCounted, TypeOK
      <4> QED  BY <4>1, <4>2, Zenon
    <3> QED  BY <3>1, Zenon DEF CondWaitersCounted
  <2>4. \A u \in Threads : ThreadInv(u)'
    BY <1>1, Zenon DEF IInv, ThreadInv
  <2>5. \A k \in Locks : queue'[k] = queue[k] /\ waiting_thread_count'[k] = waiting_thread_count[k]
    BY <1>1, <2>1, Addresses, Zenon DEF TypeOK
  <2> QED  BY <1>1, <2>2, <2>3, <2>4, <2>5, QuietStep, Zenon
<1>6. CASE condition_broadcast(t, c)
  <2>1. /\ waiting_thread_count' = [waiting_thread_count EXCEPT ![c] = 0]
        /\ queue' = [queue EXCEPT ![c] = <<>>] /\ blocked' = blocked
    BY <1>6, Zenon DEF condition_broadcast
  <2>2. TypeOK'
    BY <1>1, <2>1, EmptyQueue, Zenon DEF TypeOK
  <2>3. CondWaitersCounted'
    BY <1>1, <2>1, EmptyQueue, Zenon DEF IInv, CondWaitersCounted, TypeOK
  <2>4. \A u \in Threads : ThreadInv(u)'
    BY <1>1, Zenon DEF IInv, ThreadInv
  <2>5. \A k \in Locks : queue'[k] = queue[k] /\ waiting_thread_count'[k] = waiting_thread_count[k]
    BY <1>1, <2>1, Addresses, Zenon DEF TypeOK
  <2> QED  BY <1>1, <2>2, <2>3, <2>4, <2>5, QuietStep, Zenon
<1> QED  BY <1>5, <1>6, Zenon

\* Joining a condition and giving up the lock is one step.
LEMMA WaitStep ==
    ASSUME IInv, NEW t \in Threads, NEW c \in Conds, NEW l \in Locks,
           condition_wait(t, c, l)
    PROVE  IInv'
<1> DEFINE q == [queue EXCEPT ![c] = Append(queue[c], t)]
<1>1. /\ TypeOK /\ pc[t] = "out" /\ held[t][l] > 0
      /\ waiting_thread_count' = [waiting_thread_count EXCEPT ![c] = @ + 1]
      /\ blocked' = blocked \cup {t} /\ is_used' = is_used
      /\ Release(l, q) /\ Leave(t, l)
      /\ pc' = [pc EXCEPT ![t] = "cond_wait"] /\ lock' = [lock EXCEPT ![t] = l]
  BY Zenon DEF IInv, condition_wait, Goto
<1>2. Joined(Threads, queue[c], t, Append(queue[c], t))
  BY <1>1, AfterAppend, Zenon DEF TypeOK
<1>3. /\ q \in [Locks \cup Conds -> Seq(Threads)]
      /\ \A k \in Locks : q[k] = queue[k]
      /\ \A d \in Conds : d # c => q[d] = queue[d]
      /\ Len(q[c]) = Len(queue[c]) + 1
  BY <1>1, <1>2, Addresses, Zenon DEF TypeOK, Joined
<1>4. \A k \in Locks : waiting_thread_count'[k] = waiting_thread_count[k]
  BY <1>1, Addresses, Zenon DEF TypeOK
<1>5. /\ pc'[t] # "lock_wait"
      /\ \A u \in Threads : u # t => pc'[u] = pc[u] /\ lock'[u] = lock[u]
  BY <1>1, Zenon DEF TypeOK
<1> HIDE DEF q
<1>6. /\ locked_id' \in [Locks -> Threads \cup {NO_THREAD, RESERVED}]
      /\ nested_locking_count' \in [Locks -> Nat]
      /\ held' \in [Threads -> [Locks -> Nat]]
      /\ queue' \in [Locks \cup Conds -> Seq(Threads)]
      /\ \A d \in Conds : queue'[d] = q[d]
      /\ \A k \in Locks : LockInv(k)'
  BY <1>1, <1>3, <1>4, <1>5, ReleaseStep, Zenon
<1>7. TypeOK'
  <2>1. /\ waiting_thread_count' \in [Locks \cup Conds -> Nat]
        /\ is_used' \in [Locks \cup Conds -> BOOLEAN] /\ blocked' \in SUBSET Threads
    BY <1>1 DEF TypeOK
  <2>2. pc' \in [Threads -> ProgramPoints] /\ lock' \in [Threads -> Locks \cup {Nowhere}]
    BY <1>1, Zenon DEF TypeOK, ProgramPoints
  <2> QED  BY <1>6, <2>1, <2>2, Zenon DEF TypeOK
<1>8. CondWaitersCounted'
  <2>1. ASSUME NEW d \in Conds PROVE waiting_thread_count'[d] = Len(queue'[d])
    <3>1. waiting_thread_count[d] = Len(queue[d])
      BY Zenon DEF IInv, CondWaitersCounted
    <3>2. CASE d = c
      BY <1>1, <1>3, <1>6, <3>1, <3>2, Zenon DEF TypeOK
    <3>3. CASE d # c
      BY <1>1, <1>3, <1>6, <3>1, <3>3, Zenon DEF TypeOK
    <3> QED  BY <3>2, <3>3, Zenon
  <2> QED  BY <2>1, Zenon DEF CondWaitersCounted
<1>9. is_used[l]
  BY <1>1, LockCondAssumption, SMTT(60) DEF IInv, LockInv
<1>10. \A u \in Threads : ThreadInv(u)'
  BY <1>1, <1>9, Zenon DEF IInv, ThreadInv, TypeOK
<1> QED  BY <1>6, <1>7, <1>8, <1>10, Zenon DEF IInv

LEMMA ReleaseLockStep ==
    ASSUME IInv, NEW t \in Threads, NEW l \in Locks, lock_release(t, l)
    PROVE  IInv'
<1>1. /\ TypeOK /\ pc[t] = "out" /\ held[t][l] > 0
      /\ Release(l, queue) /\ Leave(t, l)
      /\ UNCHANGED <<is_used, waiting_thread_count, blocked, pc, lock>>
      /\ queue \in [Locks \cup Conds -> Seq(Threads)]
  BY Zenon DEF IInv, lock_release, TypeOK
<1>2. /\ locked_id' \in [Locks -> Threads \cup {NO_THREAD, RESERVED}]
      /\ nested_locking_count' \in [Locks -> Nat]
      /\ held' \in [Threads -> [Locks -> Nat]]
      /\ queue' \in [Locks \cup Conds -> Seq(Threads)]
      /\ \A d \in Conds : queue'[d] = queue[d]
      /\ \A k \in Locks : LockInv(k)'
  BY <1>1, ReleaseStep, Zenon
<1>3. TypeOK'
  BY <1>1, <1>2, Zenon DEF TypeOK
<1>4. CondWaitersCounted'
  BY <1>1, <1>2, Zenon DEF IInv, CondWaitersCounted
<1>5. \A u \in Threads : ThreadInv(u)'
  BY <1>1, Zenon DEF IInv, ThreadInv
<1> QED  BY <1>2, <1>3, <1>4, <1>5, Zenon DEF IInv

LEMMA NextInv == IInv /\ [Next]_vars => IInv'
<1> SUFFICES ASSUME IInv, [Next]_vars PROVE IInv'
  BY Zenon
<1>1. CASE UNCHANGED vars
  <2>1. \A l \in Locks : Granted(l)' = Granted(l) /\ OnTheWay(l)' = OnTheWay(l)
    BY <1>1, Zenon DEF vars, Granted, OnTheWay
  <2> QED
    BY <1>1, <2>1, SMTT(60) DEF vars, IInv, TypeOK, LockInv, ThreadInv, CondWaitersCounted
<1>2. ASSUME NEW t \in Threads, condition_wait_woken(t) PROVE IInv'
  <2>1. /\ TypeOK /\ pc[t] = "cond_wait" /\ queue' = queue /\ blocked' = blocked \ {t}
        /\ pc' = [pc EXCEPT ![t] = "cond_relock"] /\ lock' = [lock EXCEPT ![t] = lock[t]]
        /\ UNCHANGED <<is_used, lockvars, held>>
    BY <1>2, Zenon DEF IInv, condition_wait_woken, Goto, SQ!Return
  <2>2. TypeOK' /\ CondWaitersCounted'
    BY <2>1, Zenon DEF IInv, TypeOK, ProgramPoints, CondWaitersCounted, lockvars
  <2>3. \A u \in Threads : ThreadInv(u)'
    BY <2>1, Zenon DEF IInv, ThreadInv, TypeOK
  <2>4. /\ pc'[t] # "lock_wait"
        /\ \A u \in Threads : u # t => pc'[u] = pc[u] /\ lock'[u] = lock[u]
    BY <2>1, Zenon DEF TypeOK
  <2> QED  BY <2>1, <2>2, <2>3, <2>4, QuietStep, Zenon DEF lockvars
<1>3. ASSUME NEW t \in Threads, condition_wait_relock(t) PROVE IInv'
  <2>1. PICK l \in Locks : l = lock[t] /\ is_used[l]
    BY <1>3, Zenon DEF IInv, ThreadInv, condition_wait_relock
  <2> QED  BY <1>3, <2>1, LockStep, Zenon DEF condition_wait_relock
<1>4. ASSUME NEW t \in Threads, NEW l \in Locks, lock_acquire(t, l) PROVE IInv'
  BY <1>4, LockStep, Zenon DEF lock_acquire
<1> QED
  BY <1>1, <1>2, <1>3, <1>4, CreateStep, DestroyStep, WokenStep, SignalStep, WaitStep,
     ReleaseLockStep, Zenon DEF Next, Woken
-----------------------------------------------------------------------------
\* The invariant holds in every state of the locks.
LEMMA Invariance == Spec => []IInv
  BY InitInv, NextInv, PTL DEF Spec

\* lock_cond.c keeps its fields in their types; its unsigned counts never
\* wrap below zero.
THEOREM TypeCorrect == Spec => []TypeOK
<1>1. IInv => TypeOK
  BY Zenon DEF IInv
<1> QED  BY <1>1, Invariance, PTL

\* The assertion of lock_release never fails for a caller that holds the
\* lock: the lock records that thread and how often it took the lock.
THEOREM OwnersRecorded == Spec => []LocksOwned
<1>1. IInv => LocksOwned
  BY ZenonT(40) DEF IInv, LockInv, LocksOwned
<1> QED  BY <1>1, Invariance, PTL

\* No two threads are inside the same lock at once, however many threads,
\* locks and condition variables there are.
THEOREM LocksExclude == Spec => []MutualExclusion
<1>1. IInv => MutualExclusion
  BY DEF IInv, LockInv, MutualExclusion
<1> QED  BY <1>1, Invariance, PTL

\* A lock that is not in use is as after lock_table_init.
LEMMA Unused == IInv => UnusedIsClean
<1> SUFFICES ASSUME IInv, NEW l \in Locks, ~is_used[l]
             PROVE  /\ locked_id[l] = NO_THREAD
                    /\ nested_locking_count[l] = 0 /\ waiting_thread_count[l] = 0
  BY Zenon DEF UnusedIsClean
<1>1. locked_id[l] = NO_THREAD /\ nested_locking_count[l] = 0 /\ queue[l] = <<>>
  BY LockCondAssumption DEF IInv, LockInv
<1>2. OnTheWay(l) = 0 /\ Len(queue[l]) = 0
  BY <1>1, EmptyQueue, LockCondAssumption, Zenon DEF OnTheWay
<1>3. waiting_thread_count[l] = Len(queue[l]) + OnTheWay(l)
  BY Zenon DEF IInv, LockInv
<1> QED  BY <1>1, <1>2, <1>3

\* The waiter counts agree with the sleep queue, and a lock is reserved just
\* when one woken thread is on its way to it.
THEOREM WaitersKnown == Spec => []CountsExact
<1>1. IInv => CountsExact
  BY Unused, Zenon DEF IInv, LockInv, WaitersCounted, CountsExact
<1> QED  BY <1>1, Invariance, PTL

\* A lock that is handed out by lock_create is open and has no waiters.
THEOREM RecycledClean == Spec => []UnusedIsClean
  BY Unused, Invariance, PTL
-----------------------------------------------------------------------------
(* The refinement: a reserved lock belongs to the thread on its way to it. *)

Owners == [l \in Locks |-> Owner(l)]
Depths == [l \in Locks |-> IF locked_id[l] = RESERVED THEN 1 ELSE nested_locking_count[l]]
Waiting == [l \in Locks |-> queue[l]]
Sleeping == [c \in Conds |-> queue[c]]

LEMMA OwnerIs ==
    ASSUME IInv, NEW l \in Locks
    PROVE  /\ locked_id[l] # RESERVED =>
                Owners[l] = locked_id[l] /\ Depths[l] = nested_locking_count[l]
           /\ locked_id[l] = RESERVED => Owners[l] \in Granted(l) /\ Depths[l] = 1
           /\ \A t \in Granted(l) : Owners[l] = t
<1>1. /\ locked_id[l] = RESERVED <=> Granted(l) # {}
      /\ \A t, u \in Granted(l) : t = u
  BY Zenon DEF IInv, LockInv
<1>2. locked_id[l] = RESERVED => Owner(l) \in Granted(l)
  BY <1>1, Zenon DEF Owner
<1> QED  BY <1>1, <1>2, Zenon DEF Owners, Depths, Owner

LEMMA OwnerBecomes ==
    ASSUME IInv', NEW l \in Locks
    PROVE  /\ locked_id'[l] # RESERVED =>
                Owners'[l] = locked_id'[l] /\ Depths'[l] = nested_locking_count'[l]
           /\ locked_id'[l] = RESERVED => Depths'[l] = 1
           /\ \A t \in Granted(l)' : Owners'[l] = t
<1>1. /\ locked_id'[l] = RESERVED <=> Granted(l)' # {}
      /\ \A t, u \in Granted(l)' : t = u
  BY Zenon DEF IInv, LockInv
<1>2. locked_id'[l] = RESERVED => Owner(l)' \in Granted(l)'
  BY <1>1, Zenon DEF Owner
<1> QED  BY <1>1, <1>2, Zenon DEF Owners, Depths, Owner

\* A lock whose fields and woken waiters a step leaves alone.
LEMMA OwnerKept ==
    ASSUME NEW k \in Locks, locked_id'[k] = locked_id[k],
           nested_locking_count'[k] = nested_locking_count[k], Granted(k)' = Granted(k)
    PROVE  Owners'[k] = Owners[k] /\ Depths'[k] = Depths[k]
<1>1. Owner(k)' = Owner(k)
  BY SMTT(60) DEF Owner
<1> QED  BY <1>1, Zenon DEF Owners, Depths

\* A lock that a step of t is not about.
LEMMA OtherKept ==
    ASSUME NEW k \in Locks, NEW t \in Threads,
           locked_id'[k] = locked_id[k], nested_locking_count'[k] = nested_locking_count[k],
           queue'[k] = queue[k],
           ~(pc[t] = "lock_wait" /\ lock[t] = k), ~(pc'[t] = "lock_wait" /\ lock'[t] = k),
           \A u \in Threads : u # t => pc'[u] = pc[u] /\ lock'[u] = lock[u]
    PROVE  Owners'[k] = Owners[k] /\ Depths'[k] = Depths[k] /\ Waiting'[k] = Waiting[k]
<1>1. Granted(k)' = Granted(k)
  BY Zenon DEF Granted
<1> QED  BY <1>1, OwnerKept, Zenon DEF Waiting

\* The four functions have their domains.
LEMMA Domains ==
    /\ Owners = [l \in Locks |-> Owners[l]] /\ Depths = [l \in Locks |-> Depths[l]]
    /\ Waiting = [l \in Locks |-> Waiting[l]] /\ Sleeping = [c \in Conds |-> Sleeping[c]]
    /\ Owners' = [l \in Locks |-> Owners'[l]] /\ Depths' = [l \in Locks |-> Depths'[l]]
    /\ Waiting' = [l \in Locks |-> Waiting'[l]] /\ Sleeping' = [c \in Conds |-> Sleeping'[c]]
  BY Zenon DEF Owners, Depths, Waiting, Sleeping

\* A step that leaves all four alone, lock by lock.
LEMMA AllKept ==
    ASSUME \A k \in Locks : /\ Owners'[k] = Owners[k] /\ Depths'[k] = Depths[k]
                            /\ Waiting'[k] = Waiting[k]
    PROVE  Owners' = Owners /\ Depths' = Depths /\ Waiting' = Waiting
  BY Domains, Zenon

LEMMA InitMaps == Init => Abstract!Init
<1> SUFFICES ASSUME Init PROVE Abstract!Init
  BY Zenon
<1>1. \A l \in Locks : Owner(l) = NO_THREAD
  BY LockCondAssumption, Zenon DEF Init, Owner
<1> QED  BY <1>1, LockCondAssumption, Zenon DEF Init, SQ!Init, Abstract!Init

\* lock_acquire, and the end of condition_wait, ask for the lock.
LEMMA LockMaps ==
    ASSUME IInv, IInv', NEW t \in Threads, NEW l \in Locks,
           pc[t] \in {"out", "cond_relock"}, Lock(t, l)
    PROVE  Abstract!Acquire(t, l)
<1>1. /\ pc[t] # "lock_wait" /\ TypeOK /\ LockInv(l) /\ t # NO_THREAD /\ t # RESERVED
      /\ \A u \in Threads : u # t => pc'[u] = pc[u] /\ lock'[u] = lock[u]
      /\ \A k \in Locks \ {l} : /\ locked_id'[k] = locked_id[k] /\ queue'[k] = queue[k]
                                /\ nested_locking_count'[k] = nested_locking_count[k]
      /\ \A c \in Conds : queue'[c] = queue[c]
      /\ ~(pc'[t] = "lock_wait" /\ lock'[t] # l)
  <2>1. /\ pc[t] # "lock_wait" /\ TypeOK /\ LockInv(l) /\ t # NO_THREAD /\ t # RESERVED
    BY LockCondAssumption, Zenon DEF IInv
  <2>2. PICK p, w : /\ pc' = [pc EXCEPT ![t] = p] /\ lock' = [lock EXCEPT ![t] = w]
                    /\ p = "lock_wait" => w = l
    BY DEF Lock, Goto
  <2>3. /\ locked_id' = locked_id \/ locked_id' = [locked_id EXCEPT ![l] = t]
        /\ queue' = queue \/ queue' = [queue EXCEPT ![l] = Append(@, t)]
    BY Zenon DEF Lock, SQ!Sleep
  <2>4. \A k \in Locks \ {l} : nested_locking_count'[k] = nested_locking_count[k]
    BY <2>1, Zenon DEF Lock, TypeOK
  <2>5. \A c \in Conds : queue'[c] = queue[c]
    BY <2>1, <2>3, Addresses, Zenon DEF TypeOK
  <2>6. \A k \in Locks \ {l} : locked_id'[k] = locked_id[k] /\ queue'[k] = queue[k]
    BY <2>1, <2>3, Zenon DEF TypeOK
  <2>7. /\ \A u \in Threads : u # t => pc'[u] = pc[u] /\ lock'[u] = lock[u]
        /\ ~(pc'[t] = "lock_wait" /\ lock'[t] # l)
    BY <2>1, <2>2, Zenon DEF TypeOK
  <2> QED  BY <2>1, <2>4, <2>5, <2>6, <2>7, Zenon
<1>2. \A k \in Locks \ {l} : /\ Owners'[k] = Owners[k] /\ Depths'[k] = Depths[k]
                             /\ Waiting'[k] = Waiting[k]
  <2> TAKE k \in Locks \ {l}
  <2> QED  BY <1>1, OtherKept, Zenon
<1>3. Sleeping' = Sleeping
  BY <1>1, Domains, Zenon DEF Sleeping
<1>4. CASE locked_id[l] = NO_THREAD
  <2>1. /\ locked_id'[l] = t /\ nested_locking_count'[l] = 1 /\ UNCHANGED queue
        /\ nested_locking_count[l] = 0 /\ NO_THREAD # RESERVED
    BY <1>1, <1>4, LockCondAssumption, ZenonT(60) DEF Lock, LockInv, TypeOK
  <2>2. Owners[l] = NO_THREAD /\ Depths[l] = 0 /\ Owners'[l] = t /\ Depths'[l] = Depths[l] + 1
    <3>1. Owners[l] = NO_THREAD /\ Depths[l] = 0
      BY <1>4, <2>1, OwnerIs, Zenon
    <3>2. Owners'[l] = t /\ Depths'[l] = 1
      BY <1>1, <2>1, OwnerBecomes, Zenon
    <3> QED  BY <3>1, <3>2
  <2>3. Owners' = [Owners EXCEPT ![l] = t] /\ Depths' = [Depths EXCEPT ![l] = Depths[l] + 1]
    BY <1>2, <2>2, Domains, Zenon
  <2> QED  BY <1>3, <2>1, <2>2, <2>3, Zenon DEF Abstract!Acquire, Owners, Depths, Sleeping
<1>5. CASE locked_id[l] = t
  <2>1. /\ locked_id'[l] = t /\ nested_locking_count'[l] = nested_locking_count[l] + 1
        /\ UNCHANGED queue
    BY <1>1, <1>5, Zenon DEF Lock, TypeOK
  <2>2. Owners[l] = t /\ Owners'[l] = t /\ Depths'[l] = Depths[l] + 1
    <3>1. Owners[l] = t /\ Depths[l] = nested_locking_count[l]
      BY <1>1, <1>5, OwnerIs, Zenon
    <3>2. Owners'[l] = t /\ Depths'[l] = nested_locking_count'[l]
      BY <1>1, <2>1, OwnerBecomes, Zenon
    <3> QED  BY <2>1, <3>1, <3>2, Zenon
  <2>3. Owners' = [Owners EXCEPT ![l] = t] /\ Depths' = [Depths EXCEPT ![l] = Depths[l] + 1]
    BY <1>2, <2>2, Domains, Zenon
  <2> QED  BY <1>3, <2>1, <2>2, <2>3, Zenon DEF Abstract!Acquire, Owners, Depths, Sleeping
<1>6. CASE locked_id[l] \notin {NO_THREAD, t}
  <2>1. /\ locked_id'[l] = locked_id[l] /\ queue[l] \in Seq(Threads)
        /\ nested_locking_count'[l] = nested_locking_count[l]
        /\ queue' = [queue EXCEPT ![l] = Append(queue[l], t)] /\ l \in DOMAIN queue
        /\ pc'[t] = "lock_wait" /\ lock'[t] = l
    <3>1. /\ UNCHANGED <<locked_id, nested_locking_count>>
          /\ SQ!Sleep(t, l) /\ Goto(t, "lock_wait", l)
      BY <1>6, Zenon DEF Lock
    <3>2. queue' = [queue EXCEPT ![l] = Append(queue[l], t)]
      BY <3>1, Zenon DEF SQ!Sleep
    <3> QED  BY <1>1, <3>1, <3>2, SMTT(60) DEF TypeOK, Goto
  <2>2. Range(queue'[l]) = Range(queue[l]) \cup {t}
    <3>1. queue'[l] = Append(queue[l], t)
      BY <2>1, Zenon
    <3> QED  BY <2>1, <3>1, AppendQueue
  <2>3. Granted(l)' = Granted(l)
    BY <1>1, <2>1, <2>2 DEF Granted
  <2>4. Owners'[l] = Owners[l] /\ Depths'[l] = Depths[l]
    BY <2>1, <2>3, OwnerKept, Zenon
  <2>5. Owners[l] \notin {NO_THREAD, t}
    <3>1. CASE locked_id[l] # RESERVED
      BY <1>6, <3>1, OwnerIs, Zenon
    <3>2. CASE locked_id[l] = RESERVED
      BY <1>1, <3>2, OwnerIs, LockCondAssumption, SMTT(60) DEF Granted
    <3> QED  BY <3>1, <3>2, Zenon
  <2>6. Owners' = Owners /\ Depths' = Depths
    BY <1>2, <2>4, Domains, Zenon
  <2>7. Waiting' = [Waiting EXCEPT ![l] = Append(Waiting[l], t)]
    <3>1. Waiting'[l] = Append(Waiting[l], t)
      BY <2>1, Zenon DEF Waiting
    <3> QED  BY <1>2, <3>1, Domains, Zenon
  <2> QED  BY <1>3, <2>5, <2>6, <2>7, Zenon DEF Abstract!Acquire, Owners, Depths, Sleeping, Waiting
<1> QED  BY <1>4, <1>5, <1>6, Zenon

\* The thread that was woken had the lock already.
LEMMA WokenMaps ==
    ASSUME IInv, IInv', NEW t \in Threads, lock_acquire_woken(t)
    PROVE  UNCHANGED <<Owners, Depths, Waiting, Sleeping>>
<1>1. PICK l \in Locks : lock[t] = l
  BY Zenon DEF IInv, ThreadInv, lock_acquire_woken
<1>2. /\ pc[t] = "lock_wait" /\ TypeOK /\ t # RESERVED /\ UNCHANGED queue
      /\ \A u \in Threads : u # t => pc'[u] = pc[u] /\ lock'[u] = lock[u]
      /\ \A k \in Locks \ {l} : /\ locked_id'[k] = locked_id[k]
                                /\ nested_locking_count'[k] = nested_locking_count[k]
      /\ pc'[t] = "out" /\ locked_id'[l] = t /\ nested_locking_count'[l] = 1
      /\ t \notin Range(queue[l])
  <2>1. /\ pc[t] = "lock_wait" /\ SQ!Return(t) /\ Goto(t, "out", Nowhere) /\ TypeOK
        /\ locked_id' = [locked_id EXCEPT ![l] = t]
        /\ nested_locking_count' = [nested_locking_count EXCEPT ![l] = 1]
    BY <1>1, Zenon DEF lock_acquire_woken, IInv
  <2>2. UNCHANGED queue /\ t \notin Range(queue[l])
    BY <2>1, Zenon DEF SQ!Return, SQ!Range, Range
  <2>3. /\ \A k \in Locks \ {l} : /\ locked_id'[k] = locked_id[k]
                                  /\ nested_locking_count'[k] = nested_locking_count[k]
        /\ locked_id'[l] = t /\ nested_locking_count'[l] = 1
    BY <2>1, Zenon DEF TypeOK
  <2>4. /\ \A u \in Threads : u # t => pc'[u] = pc[u] /\ lock'[u] = lock[u]
        /\ pc'[t] = "out"
    BY <2>1, Zenon DEF TypeOK, Goto
  <2> QED  BY <2>1, <2>2, <2>3, <2>4, LockCondAssumption, Zenon
<1>3. \A k \in Locks \ {l} : /\ Owners'[k] = Owners[k] /\ Depths'[k] = Depths[k]
                             /\ Waiting'[k] = Waiting[k]
  <2> TAKE k \in Locks \ {l}
  <2> QED  BY <1>1, <1>2, OtherKept, Zenon
<1>4. t \in Granted(l) /\ locked_id[l] = RESERVED
  BY <1>1, <1>2, Zenon DEF Granted, IInv, LockInv
<1>5. Owners'[l] = Owners[l] /\ Depths'[l] = Depths[l] /\ Waiting'[l] = Waiting[l]
  <2>1. Owners[l] = t /\ Depths[l] = 1
    BY <1>4, OwnerIs, Zenon
  <2>2. Owners'[l] = t /\ Depths'[l] = 1
    BY <1>2, OwnerBecomes, Zenon
  <2>3. Waiting'[l] = Waiting[l]
    BY <1>2, Zenon DEF Waiting
  <2> QED  BY <2>1, <2>2, <2>3, Zenon
<1> QED  BY <1>2, <1>3, <1>5, AllKept, Zenon DEF Sleeping

\* t, that is in l, leaves it when the sleep queue is q.
Leaves(t, l, q) ==
    /\ pc[t] = "out" /\ held[t][l] > 0 /\ pc'[t] # "lock_wait"
    /\ q \in [Locks \cup Conds -> Seq(Threads)] /\ \A k \in Locks : q[k] = queue[k]
    /\ Release(l, q)
    /\ \A u \in Threads : u # t => pc'[u] = pc[u] /\ lock'[u] = lock[u]

\* lock_release, also inside condition_wait, gives the lock to the first waiter.
LEMMA ReleaseMaps ==
    ASSUME IInv, IInv', NEW t \in Threads, NEW l \in Locks, NEW q, Leaves(t, l, q)
    PROVE  Abstract!GiveUp(t, l) /\ \A c \in Conds : queue'[c] = q[c]
<1>1. /\ TypeOK /\ LockInv(l) /\ LockInv(l)' /\ locked_id[l] = t /\ t # RESERVED
      /\ t # NO_THREAD /\ RESERVED # NO_THREAD
      /\ queue[l] \in Seq(Threads) /\ nested_locking_count[l] \in Nat \ {0}
  <2>1. TypeOK /\ LockInv(l) /\ LockInv(l)'
    BY Zenon DEF IInv
  <2>2. held[t][l] \in Nat /\ nested_locking_count[l] \in Nat /\ queue[l] \in Seq(Threads)
    BY <2>1, Zenon DEF TypeOK
  <2>3. locked_id[l] = t /\ nested_locking_count[l] = held[t][l] /\ held[t][l] > 0
    BY <2>1, Zenon DEF LockInv, Leaves
  <2> QED  BY <2>1, <2>2, <2>3, LockCondAssumption
<1>2. /\ \A k \in Locks \ {l} : /\ locked_id'[k] = locked_id[k]
                                /\ nested_locking_count'[k] = nested_locking_count[k]
      /\ queue' = q \/ queue' = [q EXCEPT ![l] = Tail(@)]
  BY <1>1, SMTT(60) DEF Leaves, Release, TypeOK
<1>3. /\ \A k \in Locks \ {l} : queue'[k] = queue[k]
      /\ \A c \in Conds : queue'[c] = q[c]
  BY <1>2, Addresses, Zenon DEF Leaves
<1>4. \A k \in Locks \ {l} : /\ Owners'[k] = Owners[k] /\ Depths'[k] = Depths[k]
                             /\ Waiting'[k] = Waiting[k]
  <2> TAKE k \in Locks \ {l}
  <2>1. /\ ~(pc[t] = "lock_wait" /\ lock[t] = k) /\ ~(pc'[t] = "lock_wait" /\ lock'[t] = k)
        /\ \A u \in Threads : u # t => pc'[u] = pc[u] /\ lock'[u] = lock[u]
    BY Zenon DEF Leaves
  <2> QED  BY <1>2, <1>3, <2>1, OtherKept, Zenon
<1>5. Owners[l] = t /\ Depths[l] = nested_locking_count[l] /\ Waiting[l] = queue[l]
  BY <1>1, OwnerIs, Zenon DEF Waiting
<1>6. CASE nested_locking_count[l] > 1
  <2>1. /\ nested_locking_count'[l] = nested_locking_count[l] - 1
        /\ queue' = q /\ locked_id'[l] = t
    BY <1>1, <1>6, Zenon DEF Leaves, Release, TypeOK
  <2>2. Owners'[l] = Owners[l] /\ Depths'[l] = Depths[l] - 1 /\ Waiting'[l] = Waiting[l]
    BY <1>1, <1>5, <2>1, OwnerBecomes, Zenon DEF Waiting, Leaves
  <2>3. /\ Owners' = Owners /\ Waiting' = Waiting
        /\ Depths' = [Depths EXCEPT ![l] = Depths[l] - 1]
    BY <1>4, <2>2, Domains, Zenon
  <2>4. Depths[l] > 1 /\ Owners[l] = t
    BY <1>5, <1>6, Zenon
  <2>5. Abstract!GiveUp(t, l)
    BY <2>3, <2>4, Zenon DEF Abstract!GiveUp, Owners, Depths, Waiting
  <2> QED  BY <1>3, <2>5, Zenon
<1>7. CASE nested_locking_count[l] = 1 /\ queue[l] = <<>>
  <2>1. waiting_thread_count[l] = 0
    <3>1. waiting_thread_count[l] = Len(queue[l]) + OnTheWay(l)
      BY <1>1, Zenon DEF LockInv
    <3>2. OnTheWay(l) = 0 /\ Len(queue[l]) = 0
      BY <1>1, <1>7, EmptyQueue, ZenonT(40) DEF OnTheWay
    <3> QED  BY <3>1, <3>2, SMTT(60)
  <2>2. nested_locking_count'[l] = 0 /\ queue' = q /\ locked_id'[l] = NO_THREAD
    BY <1>1, <1>7, <2>1, SMTT(60) DEF Leaves, Release, TypeOK
  <2>3. Owners'[l] = NO_THREAD /\ Depths'[l] = 0 /\ Waiting'[l] = Waiting[l]
    BY <1>1, <2>2, OwnerBecomes, Zenon DEF Waiting, Leaves
  <2>4. /\ Owners' = [Owners EXCEPT ![l] = NO_THREAD] /\ Depths' = [Depths EXCEPT ![l] = 0]
        /\ Waiting' = Waiting
    BY <1>4, <2>3, Domains, Zenon
  <2>5. Depths[l] = 1 /\ ~(Depths[l] > 1) /\ Waiting[l] = <<>> /\ Owners[l] = t
    BY <1>5, <1>7, SMTT(60)
  <2>6. Abstract!GiveUp(t, l)
    BY <2>4, <2>5, Zenon DEF Abstract!GiveUp, Owners, Depths, Waiting
  <2> QED  BY <1>3, <2>6, Zenon
<1>8. CASE nested_locking_count[l] = 1 /\ queue[l] # <<>>
  <2>1. waiting_thread_count[l] > 0
    <3>1. waiting_thread_count[l] = Len(queue[l]) + OnTheWay(l)
      BY <1>1, Zenon DEF LockInv
    <3>2. OnTheWay(l) = 0 /\ Len(queue[l]) \in Nat \ {0}
      BY <1>1, <1>8, EmptyIff, ZenonT(40) DEF OnTheWay
    <3> QED  BY <3>1, <3>2, SMTT(60)
  <2>2. queue' = [q EXCEPT ![l] = Tail(queue[l])] /\ locked_id'[l] = RESERVED
    BY <1>1, <1>8, <2>1, SMTT(60) DEF Leaves, Release, TypeOK
  <2>3. queue'[l] = Tail(queue[l])
    BY <2>2, Zenon DEF Leaves
  <2>4. PICK h \in Threads : h = Head(queue[l])
    BY <1>1, <1>8, TailQueue, Zenon
  <2>5. /\ h \in Range(queue[l]) /\ h \notin Range(queue'[l])
    <3>1. IsInjective(queue[l])
      BY <1>1, Zenon DEF LockInv
    <3>2. Left(Threads, queue[l], queue'[l])
      BY <1>1, <1>8, <2>3, AfterTail, Zenon
    <3> QED  BY <2>4, <3>1, <3>2, Zenon DEF Left
  <2>6. pc[h] = "lock_wait" /\ lock[h] = l /\ h # t
    BY <1>1, <2>5, Zenon DEF LockInv, Leaves
  <2>7. h \in Granted(l)'
    BY <2>5, <2>6, Zenon DEF Granted, Leaves
  <2>8. Owners'[l] = h /\ Depths'[l] = 1 /\ Waiting'[l] = Tail(Waiting[l])
    BY <2>2, <2>3, <2>7, OwnerBecomes, Zenon DEF Waiting
  <2>9. /\ Owners' = [Owners EXCEPT ![l] = h] /\ Depths' = [Depths EXCEPT ![l] = 1]
        /\ Waiting' = [Waiting EXCEPT ![l] = Tail(Waiting[l])]
    BY <1>4, <2>8, Domains, SMTT(60)
  <2> QED
    <3>1. Depths[l] = 1 /\ ~(Depths[l] > 1) /\ Waiting[l] # <<>> /\ Owners[l] = t /\ h = Head(Waiting[l])
      BY <1>5, <1>8, <2>4, SMTT(60)
    <3>2. Abstract!GiveUp(t, l)
      BY <2>9, <3>1, Zenon DEF Abstract!GiveUp, Owners, Depths, Waiting
    <3> QED  BY <1>3, <3>2, Zenon
<1>9. nested_locking_count[l] > 1 \/ nested_locking_count[l] = 1
  BY <1>1, SMTT(60)
<1> QED  BY <1>6, <1>7, <1>8, <1>9, Zenon

\* A step that does not touch a lock, its waiters or the threads that wait for it.
LEMMA QuietMaps ==
    ASSUME IInv, NEW t \in Threads, pc[t] # "lock_wait", pc'[t] # "lock_wait",
           \A u \in Threads : u # t => pc'[u] = pc[u] /\ lock'[u] = lock[u],
           UNCHANGED <<locked_id, nested_locking_count>>,
           \A k \in Locks : queue'[k] = queue[k]
    PROVE  UNCHANGED <<Owners, Depths, Waiting>>
<1>1. \A k \in Locks : /\ Owners'[k] = Owners[k] /\ Depths'[k] = Depths[k]
                       /\ Waiting'[k] = Waiting[k]
  <2> TAKE k \in Locks
  <2> QED  BY OtherKept, Zenon
<1> QED  BY <1>1, AllKept, Zenon

LEMMA ReleaseLockMaps ==
    ASSUME IInv, IInv', NEW t \in Threads, NEW l \in Locks, lock_release(t, l)
    PROVE  Abstract!Release(t, l)
<1>1. /\ pc[t] = "out" /\ held[t][l] > 0 /\ pc' = pc /\ lock' = lock
      /\ Release(l, queue) /\ queue \in [Locks \cup Conds -> Seq(Threads)]
  BY Zenon DEF IInv, TypeOK, lock_release
<1>2. PICK q : q = queue
  BY Zenon
<1>3. /\ pc'[t] # "lock_wait" /\ Release(l, q) /\ q \in [Locks \cup Conds -> Seq(Threads)]
      /\ \A k \in Locks : q[k] = queue[k]
  BY <1>1, <1>2, Zenon
<1>4. Abstract!GiveUp(t, l) /\ \A c \in Conds : queue'[c] = q[c]
  <2>1. Leaves(t, l, q)
    BY <1>1, <1>3, Zenon DEF Leaves
  <2> QED  BY <2>1, ReleaseMaps, Zenon
<1>5. Sleeping' = Sleeping
  BY <1>2, <1>4, Zenon DEF Sleeping
<1> QED  BY <1>4, <1>5, Zenon DEF Abstract!Release, Sleeping

LEMMA WaitMaps ==
    ASSUME IInv, IInv', NEW t \in Threads, NEW c \in Conds, NEW l \in Locks,
           condition_wait(t, c, l)
    PROVE  Abstract!Wait(t, c, l)
<1>1. /\ pc[t] = "out" /\ held[t][l] > 0 /\ TypeOK /\ Goto(t, "cond_wait", l)
  BY Zenon DEF IInv, condition_wait
<1>2. PICK q : q = [queue EXCEPT ![c] = Append(@, t)]
  BY Zenon
<1>3. Release(l, q)
  BY <1>2, Zenon DEF condition_wait
<1>4. queue[c] \in Seq(Threads) /\ Append(queue[c], t) \in Seq(Threads)
  <2>1. queue[c] \in Seq(Threads)
    BY <1>1, Zenon DEF TypeOK
  <2> QED  BY <2>1, AppendQueue, Zenon
<1>5. /\ q \in [Locks \cup Conds -> Seq(Threads)] /\ \A k \in Locks : q[k] = queue[k]
      /\ q[c] = Append(queue[c], t) /\ \A d \in Conds \ {c} : q[d] = queue[d]
  BY <1>1, <1>2, <1>4, Addresses, Zenon DEF TypeOK
<1>6. /\ pc'[t] # "lock_wait"
      /\ \A u \in Threads : u # t => pc'[u] = pc[u] /\ lock'[u] = lock[u]
  BY <1>1, Zenon DEF Goto, TypeOK
<1>7. Abstract!GiveUp(t, l) /\ \A d \in Conds : queue'[d] = q[d]
  <2>1. Leaves(t, l, q)
    BY <1>1, <1>3, <1>5, <1>6, Zenon DEF Leaves
  <2> QED  BY <2>1, ReleaseMaps, Zenon
<1>8. /\ Sleeping'[c] = Append(Sleeping[c], t)
      /\ \A d \in Conds \ {c} : Sleeping'[d] = Sleeping[d]
  BY <1>5, <1>7, Zenon DEF Sleeping
<1>9. Sleeping' = [Sleeping EXCEPT ![c] = Append(Sleeping[c], t)]
  BY <1>8, Domains, Zenon
<1> QED  BY <1>7, <1>9, Zenon DEF Abstract!Wait, Sleeping

LEMMA SignalMaps ==
    ASSUME IInv, NEW t \in Threads, NEW c \in Conds,
           condition_signal(t, c) \/ condition_broadcast(t, c)
    PROVE  Abstract!Signal(c) \/ Abstract!Broadcast(c)
<1>1. /\ TypeOK /\ UNCHANGED <<locked_id, nested_locking_count, pc, lock>>
      /\ pc[t] = "out" /\ queue[c] \in Seq(Threads) /\ Len(queue[c]) > 0
  BY Zenon DEF IInv, TypeOK, CondWaitersCounted, condition_signal, condition_broadcast
<1>2. queue[c] # <<>>
  BY <1>1, EmptyIff, SMTT(60)
<1>3. \/ condition_signal(t, c) /\ queue' = [queue EXCEPT ![c] = Tail(queue[c])]
      \/ condition_broadcast(t, c) /\ queue' = [queue EXCEPT ![c] = <<>>]
  BY <1>2, Zenon DEF condition_signal, condition_broadcast, SQ!Wake
<1>4. /\ \A k \in Locks : queue'[k] = queue[k]
      /\ \A d \in Conds \ {c} : queue'[d] = queue[d]
  BY <1>1, <1>3, Addresses, Zenon DEF TypeOK
<1>5. UNCHANGED <<Owners, Depths, Waiting>>
  BY <1>1, <1>4, QuietMaps, Zenon
<1>6. \/ Sleeping'[c] = Tail(Sleeping[c]) /\ Sleeping[c] # <<>>
      \/ Sleeping'[c] = <<>>
  BY <1>1, <1>2, <1>3, Zenon DEF Sleeping, TypeOK
<1>7. \A d \in Conds \ {c} : Sleeping'[d] = Sleeping[d]
  BY <1>4, Zenon DEF Sleeping
<1>8. CASE Sleeping'[c] = Tail(Sleeping[c]) /\ Sleeping[c] # <<>>
  <2>1. Sleeping' = [Sleeping EXCEPT ![c] = Tail(Sleeping[c])]
    BY <1>7, <1>8, Domains, Zenon
  <2> QED  BY <1>5, <1>8, <2>1, Zenon DEF Abstract!Signal, Owners, Depths, Waiting, Sleeping
<1>9. CASE Sleeping'[c] = <<>>
  <2>1. Sleeping' = [Sleeping EXCEPT ![c] = <<>>]
    BY <1>7, <1>9, Domains, Zenon
  <2> QED  BY <1>5, <2>1, Zenon DEF Abstract!Broadcast, Owners, Depths, Waiting, Sleeping
<1> QED  BY <1>6, <1>8, <1>9, Zenon

LEMMA NextMaps ==
    ASSUME IInv, IInv', [Next]_vars
    PROVE  Abstract!Next \/ UNCHANGED <<Owners, Depths, Waiting, Sleeping>>
<1>1. CASE UNCHANGED vars
  <2>1. \A k \in Locks : Owner(k)' = Owner(k)
    BY <1>1 DEF vars, Owner, Granted
  <2> QED  BY <1>1, <2>1, Zenon DEF vars, Owners, Depths, Waiting, Sleeping
<1>2. ASSUME NEW t \in Threads,
             \/ lock_create(t) \/ condition_create(t)
             \/ \E l \in Locks : lock_destroy(t, l)
             \/ \E c \in Conds : condition_destroy(t, c)
      PROVE  UNCHANGED <<Owners, Depths, Waiting, Sleeping>>
  <2>1. pc[t] = "out" /\ UNCHANGED <<lockvars, queue, pc, lock>>
    BY <1>2, Zenon DEF lock_create, condition_create, Create, lock_destroy, condition_destroy
  <2>2. UNCHANGED <<Owners, Depths, Waiting>>
    BY <2>1, QuietMaps, Zenon DEF lockvars
  <2> QED  BY <2>1, <2>2, Zenon DEF Sleeping
<1>3. ASSUME NEW t \in Threads, condition_wait_woken(t)
      PROVE  UNCHANGED <<Owners, Depths, Waiting, Sleeping>>
  <2>1. /\ TypeOK /\ pc[t] = "cond_wait" /\ UNCHANGED <<lockvars, queue>>
        /\ Goto(t, "cond_relock", lock[t])
    BY <1>3, Zenon DEF IInv, condition_wait_woken, SQ!Return
  <2>2. /\ pc'[t] # "lock_wait"
        /\ \A u \in Threads : u # t => pc'[u] = pc[u] /\ lock'[u] = lock[u]
    BY <2>1, Zenon DEF TypeOK, Goto
  <2>3. UNCHANGED <<Owners, Depths, Waiting>>
    BY <2>1, <2>2, QuietMaps, Zenon DEF lockvars
  <2> QED  BY <2>1, <2>3, Zenon DEF Sleeping
<1>4. ASSUME NEW t \in Threads, condition_wait_relock(t) PROVE Abstract!Next
  <2>1. PICK l \in Locks : l = lock[t]
    BY <1>4, Zenon DEF IInv, ThreadInv, condition_wait_relock
  <2>2. Abstract!Acquire(t, l)
    BY <1>4, <2>1, LockMaps, Zenon DEF condition_wait_relock
  <2> QED  BY <2>2, Zenon DEF Abstract!Next
<1>5. ASSUME NEW t \in Threads, NEW l \in Locks, lock_acquire(t, l) PROVE Abstract!Next
  <2>1. Abstract!Acquire(t, l)
    BY <1>5, LockMaps, Zenon DEF lock_acquire
  <2> QED  BY <2>1, Zenon DEF Abstract!Next
<1>6. ASSUME NEW t \in Threads, NEW l \in Locks, lock_release(t, l) PROVE Abstract!Next
  <2>1. Abstract!Release(t, l)
    BY <1>6, ReleaseLockMaps, Zenon
  <2> QED  BY <2>1, Zenon DEF Abstract!Next
<1>7. ASSUME NEW t \in Threads, NEW l \in Locks, NEW c \in Conds, condition_wait(t, c, l)
      PROVE  Abstract!Next
  <2>1. Abstract!Wait(t, c, l)
    BY <1>7, WaitMaps, Zenon
  <2> QED  BY <2>1, Zenon DEF Abstract!Next
<1>8. ASSUME NEW t \in Threads, NEW c \in Conds,
             condition_signal(t, c) \/ condition_broadcast(t, c)
      PROVE  Abstract!Next
  <2>1. Abstract!Signal(c) \/ Abstract!Broadcast(c)
    BY <1>8, SignalMaps, Zenon
  <2> QED  BY <2>1, Zenon DEF Abstract!Next
<1> QED
  BY <1>1, <1>2, <1>3, <1>4, <1>5, <1>6, <1>7, <1>8, WokenMaps, Zenon DEF Next, Woken

\* lock_cond.c implements the monitor: locks are handed over in the order they
\* were asked for, nobody overtakes a woken waiter, and condition_wait gives up the
\* lock and starts to wait in one step.
THEOREM LocksAreMonitors == Spec => ImplementsMonitor
<1>1. IInv /\ [Next]_vars => IInv'
  BY NextInv, Zenon
<1>2. IInv /\ IInv' /\ [Next]_vars => [Abstract!Next]_<<Owners, Depths, Waiting, Sleeping>>
  BY NextMaps, Zenon
<1> QED
  BY <1>1, <1>2, InitInv, InitMaps, PTL
     DEF Spec, ImplementsMonitor, Abstract!Spec, Owners, Depths, Waiting, Sleeping

=============================================================================
